---------------------------- MODULE SearchEvolution ----------------------------
(***************************************************************************)
(* A published collection while its search configuration changes           *)
(* (retrieval/evolution.py, _verify_collection_config of                   *)
(* execution/search.py, the evolve and restamp of retrieval/lancedb.py).   *)
(* A publisher compares its configuration with the descriptor stamped on   *)
(* the collection, widens it in place, rewrites the stamp or refuses, then *)
(* writes the records again; it may die at any step, and the configuration *)
(* may change between two runs.                                            *)
(***************************************************************************)
EXTENDS Integers, Sequences, SequencesExt

CONSTANTS
    Configs,       \* configurations: [store, attributes, display, batch, policy, types]; types
                   \* is no part of the search model, but what the upstream relation has then
    Records,       \* the records of the upstream model
    MaxReconfigs,  \* bound: changes of the configuration
    MaxCrashes     \* bound: publishers that die

ASSUME EvolutionAssumption ==
    /\ {MaxReconfigs, MaxCrashes} \subseteq Nat
    /\ \A c \in Configs :
          /\ c.policy \in {"fail", "online"} /\ c.store # "none"
          /\ c.attributes = [name \in DOMAIN c.attributes |-> c.attributes[name]]
          /\ {"id"} \cup DOMAIN c.attributes \cup ToSet(c.display) \subseteq DOMAIN c.types

VARIABLES
    config,       \* the configuration of the project
    collection,   \* NoCollection or [columns, stamp, legacy, rows]; its columns are a set
                  \* of pairs of a name and a type
    recorded,     \* the publication state: the fingerprint of each record, or none
    ready,        \* the descriptor whose publication is served, or none
    publisher,    \* [at, spec, refused]
    reconfigs, crashes

evolutionVars == <<config, collection, recorded, ready, publisher, reconfigs, crashes>>

NoDescriptor == [store |-> "none"]
NoCollection == [columns |-> {}, stamp |-> NoDescriptor, legacy |-> <<>>, rows |-> <<>>]
Exists(c) == c.columns # {}

\* collection_descriptor: cadence (batch) and on_index_change are not part of it.
Descriptor(c) == [store |-> c.store, attributes |-> c.attributes, display |-> c.display]

\* The whole configuration: what the fingerprint of the first contract covered.
LegacyFingerprint(c) == <<c.store, c.attributes, c.display, c.batch, c.policy>>

\* projected_fields: the id, the attributes, the display fields, each once.
Projected(c) == {"id"} \cup DOMAIN c.attributes \cup ToSet(c.display)

\* The schema of a configuration: its fields with the types they have upstream.
Declared(c) == {<<field, c.types[field]>> : field \in Projected(c)}
ColumnNames(columns) == {column[1] : column \in columns}

Idle == [at |-> "idle", spec |-> CHOOSE c \in Configs : TRUE, refused |-> FALSE]

\* A collection of the first contract carries the fingerprint alone.
EvolutionInit ==
    /\ config \in Configs
    /\ \/ collection = NoCollection
       \/ \E old \in Configs :
             collection = [columns |-> Declared(old), stamp |-> NoDescriptor,
                           legacy |-> LegacyFingerprint(old),
                           rows |-> [r \in Records |-> Descriptor(old)]]
    /\ recorded = [r \in Records |-> NoDescriptor] /\ ready = NoDescriptor
    /\ publisher = Idle /\ reconfigs = 0 /\ crashes = 0

------------------------------------------------------------------------------
(* Classification.                                                         *)

\* _classify_attributes.
AttributesCompatible(before, after) ==
    /\ DOMAIN before \subseteq DOMAIN after
    /\ \A name \in DOMAIN before : before[name] = after[name]

\* _classify_projection.
ProjectionCompatible(before, after) == ToSet(before) \subseteq ToSet(after)

\* Mutant: the contract fields of the descriptor are not compared.
SearchOnly(stored, current) ==
    /\ AttributesCompatible(stored.attributes, current.attributes)
    /\ ProjectionCompatible(stored.display, current.display)

\* classify_descriptor_changes finds nothing that requires a rebuild.
Compatible(stored, current) ==
    /\ stored.store = current.store
    /\ AttributesCompatible(stored.attributes, current.attributes)
    /\ ProjectionCompatible(stored.display, current.display)

\* _schema_matches_by_name: names and types, in any order.
SchemaMatches(columns, spec) == columns = Declared(spec)

------------------------------------------------------------------------------
(* A publisher.  Taking the claim revokes what was ready, and a refusal    *)
(* leaves it revoked; another run would be refused in the same way.        *)

At(step) == publisher.at = step
Goto(step) == publisher' = [publisher EXCEPT !.at = step]

BeginPublish ==
    /\ At("idle") /\ ~publisher.refused
    /\ ready # Descriptor(config) \/ ~SchemaMatches(collection.columns, config)
    /\ publisher' = [at |-> "verify", spec |-> config, refused |-> FALSE]
    /\ ready' = NoDescriptor
    /\ UNCHANGED <<config, collection, recorded, reconfigs, crashes>>

Refuse ==
    /\ publisher' = [publisher EXCEPT !.at = "idle", !.refused = TRUE]
    /\ UNCHANGED <<config, collection, recorded, ready, reconfigs, crashes>>

\* _verify_collection_config.
Verify ==
    LET spec == publisher.spec current == Descriptor(spec)
    IN  /\ At("verify")
        /\ \/ /\ ~Exists(collection)
              /\ Goto("create")
              /\ UNCHANGED <<config, collection, recorded, ready, reconfigs, crashes>>
           \/ /\ Exists(collection)
              /\ \/ /\ \/ collection.stamp = current
                       \/ /\ collection.stamp = NoDescriptor
                          /\ collection.legacy = LegacyFingerprint(spec)
                       \/ /\ collection.stamp \notin {NoDescriptor, current}
                          /\ Compatible(collection.stamp, current) /\ spec.policy = "online"
                    /\ Goto(IF collection.stamp = current THEN "validate"
                            ELSE IF collection.stamp = NoDescriptor THEN "restamp" ELSE "widen")
                    /\ UNCHANGED <<config, collection, recorded, ready, reconfigs, crashes>>
                 \/ /\ collection.stamp = NoDescriptor
                    /\ collection.legacy # LegacyFingerprint(spec)
                    /\ Refuse
                 \/ /\ collection.stamp \notin {NoDescriptor, current}
                    /\ ~(Compatible(collection.stamp, current) /\ spec.policy = "online")
                    /\ Refuse

\* evolve_collection: the columns whose names are missing are added, empty.
Missing(columns, spec) == {column \in Declared(spec) : column[1] \notin ColumnNames(columns)}

Widen ==
    /\ At("widen") /\ Goto("restamp")
    /\ collection' = [collection EXCEPT !.columns = @ \cup Missing(@, publisher.spec)]
    /\ UNCHANGED <<config, recorded, ready, reconfigs, crashes>>

\* Mutant: a widened collection keeps describing its previous shape.
RestampForgotten ==
    /\ At("restamp") /\ Goto("validate")
    /\ UNCHANGED <<config, collection, recorded, ready, reconfigs, crashes>>

\* restamp_collection.
Restamp ==
    /\ At("restamp") /\ Goto("validate")
    /\ collection' = [collection EXCEPT !.stamp = Descriptor(publisher.spec)]
    /\ UNCHANGED <<config, recorded, ready, reconfigs, crashes>>

\* _validate_collection_schema.
Validate ==
    /\ At("validate")
    /\ \/ /\ SchemaMatches(collection.columns, publisher.spec)
          /\ Goto("write")
          /\ UNCHANGED <<config, collection, recorded, ready, reconfigs, crashes>>
       \/ ~SchemaMatches(collection.columns, publisher.spec) /\ Refuse

\* create_collection.
Create ==
    /\ At("create") /\ Goto("write")
    /\ collection' = [columns |-> Declared(publisher.spec), stamp |-> Descriptor(publisher.spec),
                      legacy |-> LegacyFingerprint(publisher.spec),
                      rows |-> [r \in Records |-> NoDescriptor]]
    /\ UNCHANGED <<config, recorded, ready, reconfigs, crashes>>

\* Mutant: the configuration is not part of a record's fingerprint.
KnownRecord(r) == recorded[r] = NoDescriptor

\* The record's fingerprint holds the digest of the descriptor.
Pending(r) == recorded[r] # Descriptor(publisher.spec)

WriteRecord(r) ==
    /\ At("write") /\ Pending(r)
    /\ collection.rows[r] # Descriptor(publisher.spec)
    /\ collection' = [collection EXCEPT !.rows[r] = Descriptor(publisher.spec)]
    /\ UNCHANGED <<config, recorded, ready, publisher, reconfigs, crashes>>

RecordWritten(r) ==
    /\ At("write") /\ Pending(r)
    /\ collection.rows[r] = Descriptor(publisher.spec)
    /\ recorded' = [recorded EXCEPT ![r] = Descriptor(publisher.spec)]
    /\ UNCHANGED <<config, collection, ready, publisher, reconfigs, crashes>>

MarkPublished ==
    /\ At("write") /\ \A r \in Records : ~Pending(r)
    /\ ready' = Descriptor(publisher.spec) /\ Goto("idle")
    /\ UNCHANGED <<config, collection, recorded, reconfigs, crashes>>

CrashEvolution ==
    /\ ~At("idle") /\ crashes < MaxCrashes /\ crashes' = crashes + 1
    /\ Goto("idle")
    /\ UNCHANGED <<config, collection, recorded, ready, reconfigs>>

Reconfigure ==
    /\ At("idle") /\ reconfigs < MaxReconfigs /\ reconfigs' = reconfigs + 1
    /\ config' \in Configs \ {config}
    /\ publisher' = Idle
    /\ UNCHANGED <<collection, recorded, ready, crashes>>

EvolutionStep ==
    \/ Verify \/ Widen \/ Restamp \/ Validate \/ Create
    \/ \E r \in Records : WriteRecord(r) \/ RecordWritten(r)
    \/ MarkPublished

EvolutionNext == BeginPublish \/ EvolutionStep \/ CrashEvolution \/ Reconfigure

EvolutionSpec == EvolutionInit /\ [][EvolutionNext]_evolutionVars

------------------------------------------------------------------------------
(* Properties.                                                             *)

\* search.py:345-366: the ready scope and the stamp both carry the configuration's
\* fingerprint.
Answerable ==
    Exists(collection) /\ ready = Descriptor(config) /\ collection.stamp = Descriptor(config)

\* The publisher died after it added columns and before it changed the stamp: there
\* are columns that the stamp does not describe.
ForeverRefused ==
    /\ collection.stamp # NoDescriptor
    /\ ~(ColumnNames(collection.columns) \subseteq Projected(collection.stamp))

\* A column that is declared has another type than its field has upstream.
Retyped ==
    \E column \in collection.columns :
       column[1] \in Projected(config) /\ column \notin Declared(config)

\* An old row serves a new definition only when it kept its type and role: written
\* from the change table of the design document, not from the code.
Extends(old, new) ==
    /\ old.store = new.store
    /\ \A f \in DOMAIN old.attributes \cup ToSet(old.display) :
          \/ /\ f \in DOMAIN old.attributes \cap DOMAIN new.attributes
             /\ old.attributes[f] = new.attributes[f]
             /\ f \in ToSet(old.display) => f \in ToSet(new.display)
          \/ f \notin DOMAIN old.attributes /\ f \in ToSet(new.display)

\* Two definitions that write the same row: at most the order of the display fields
\* differs.  A change of that order is compatible both ways, so a publisher that died after
\* it leaves such rows to the configuration before it, whose fingerprints still stand.
SameRow(old, new) ==
    old.store = new.store /\ old.attributes = new.attributes
      /\ ToSet(old.display) = ToSet(new.display)

\* Whatever died in between, an index that answers holds every record as its current
\* configuration describes it: no row with an empty new column, no row of an older
\* definition (search.py:345-366, execution/search.py:530-535); no record is written to
\* columns of other names or types than its publisher's; and a publication is refused only
\* for a change that existing rows cannot serve, a policy that does not allow it, a
\* collection of the first contract that cannot be proven unchanged, a field whose type
\* changed upstream, or a widening that died half-way (execution/search.py:467-540).
AnswersAsConfigured ==
    /\ Answerable =>
          /\ \A r \in Records : SameRow(collection.rows[r], Descriptor(config))
          /\ ColumnNames(collection.columns) = Projected(config)
    /\ At("write") => collection.columns = Declared(publisher.spec)
    /\ publisher.refused =>
          \/ ~Extends(collection.stamp, Descriptor(config))
          \/ config.policy = "fail"
          \/ Retyped
          \/ ForeverRefused

\* In place a stamp changes only to a definition that the written rows can serve
\* (evolution.py:116-190).
StampOnlyExtends ==
    [][(Exists(collection) /\ collection.stamp # NoDescriptor /\ Exists(collection'))
         => Extends(collection.stamp, collection'.stamp)]_evolutionVars

\* A project that is not reconfigured any more is served as configured, or refused.
SettlesOrRefuses == <>[](Answerable \/ publisher.refused)
==============================================================================
