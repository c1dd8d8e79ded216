----------------------------- MODULE AgentContext -----------------------------
(***************************************************************************)
(* The agent_context/v1 contract (agent_context.py): the registry of       *)
(* document versions, their chunks and the links of chunks to entities;    *)
(* the projectors that build the rows, the checks of a frame and of the    *)
(* three relations, and the questions that are asked of a row: was it      *)
(* recorded and valid then, is it fresh, may it be indexed.                *)
(* A row is a function from fields to values.  NULL is -1 of a time or a   *)
(* number, "" of a text, <<>> of an identifier; an identifier is the tuple *)
(* of what it was computed of, so that two are equal only for the same.    *)
(***************************************************************************)
EXTENDS Integers, Sequences, FiniteSets, SequencesExt, FiniteSetTheorems, TLAPS

TemporalFields == {"validity_known", "valid_from", "valid_to", "recorded_from", "recorded_to"}
PolicyFields == {"tenant_id", "is_public", "access_groups", "classification", "policy_ref",
                 "policy_version", "authorization_resolved"}
FreshnessFields == {"source_updated_at", "source_observed_at", "ingested_at", "materialized_at",
                    "freshness_checked_at", "refresh_due_at", "stale_after"}
ProvenanceFields == {"upstream_unique_id", "invocation_id", "parser_identity", "transform_identity",
                     "prompt_fingerprint", "schema_fingerprint", "provider_identity",
                     "model_identity", "provenance_fingerprint"}
\* _DOCUMENT_CARRY_FIELDS
CarryFields == TemporalFields \cup PolicyFields \cup FreshnessFields

RegistryFields == {"document_id", "document_version_id", "source_system", "source_key", "source_uri",
                   "source_version", "source_content_hash"} \cup CarryFields \cup ProvenanceFields
CitationFields == {"citation_page_number", "citation_section_path", "citation_char_start",
                   "citation_char_end", "citation_speaker", "citation_start_seconds",
                   "citation_end_seconds", "citation_locator"}
ChunkFields == {"context_id", "chunk_id", "document_id", "document_version_id", "chunk_index", "text",
                "chunk_content_hash", "source_uri", "chunker_identity"}
               \cup CitationFields \cup CarryFields \cup ProvenanceFields
LinkFields == {"context_entity_link_id", "context_id", "entity_namespace", "entity_name", "entity_id",
               "entity_key", "dbt_unique_id", "relationship_type", "link_method", "confidence",
               "recorded_from", "recorded_to", "link_provenance_fingerprint"}

Nullable ==
    {"valid_from", "valid_to", "recorded_to", "tenant_id", "classification", "policy_ref",
     "policy_version", "source_updated_at", "source_observed_at", "freshness_checked_at",
     "refresh_due_at", "stale_after", "source_uri", "dbt_unique_id", "confidence"}
    \cup (ProvenanceFields \ {"upstream_unique_id", "invocation_id", "provenance_fingerprint"})
    \cup CitationFields

Fields(grain) == CASE grain = "document_registry" -> RegistryFields
                   [] grain = "document_chunks" -> ChunkFields
                   [] grain = "context_entity_links" -> LinkFields
PrimaryKey(grain) == CASE grain = "document_registry" -> "document_version_id"
                       [] grain = "document_chunks" -> "context_id"
                       [] grain = "context_entity_links" -> "context_entity_link_id"

Numbers == {"valid_from", "valid_to", "recorded_from", "recorded_to", "confidence", "chunk_index",
            "citation_page_number", "citation_char_start", "citation_char_end",
            "citation_start_seconds", "citation_end_seconds"} \cup FreshnessFields
Identifiers == {"document_id", "document_version_id", "source_content_hash", "provenance_fingerprint",
                "context_id", "chunk_id", "chunk_content_hash", "entity_id", "entity_key",
                "context_entity_link_id", "link_provenance_fingerprint"}
Others == {"validity_known", "is_public", "access_groups", "authorization_resolved"}
IsNull(row, field) ==
    CASE field \in Numbers -> row[field] = -1
      [] field \in Identifiers -> row[field] = <<>>
      [] field \in Others -> FALSE
      [] OTHER -> row[field] = ""
NullOf(field) == IF field \in Numbers THEN -1 ELSE IF field \in Identifiers THEN <<>> ELSE ""

------------------------------------------------------------------------------
(* Identities.                                                              *)

ContentHash(text) == <<"content", text>>
DocumentId(system, key) == <<"document", system, key>>
VersionId(document, version, hash) == <<"version", document, version, hash>>
ChunkId(document, index, text) == <<"chunk", document, index, text>>
ContextId(version, chunk) == <<"context", version, chunk>>
EntityKey(canonical) == <<"json", canonical>>
EntityId(namespace, name, key) == <<"entity", namespace, name, key>>
LinkId(context, entity, relationship) == <<"link", context, entity, relationship>>

\* _string_array: a list of groups, or its JSON text; a set is kept sorted.
Groups(row) == row["access_groups"].items
SortedGroups(groups) == SetToSortSeq(ToSet(groups), LAMBDA a, b : a < b)
\* policy_fingerprint
PolicyOf(row) == [f \in PolicyFields |-> IF f = "access_groups" THEN <<Groups(row)>> ELSE <<row[f]>>]

------------------------------------------------------------------------------
(* The projectors.  `d` is what the caller says of a document.              *)

ProjectRegistry(d) ==
    LET document == DocumentId(d.system, d.key)
        hash == ContentHash(d.text)
        set == [f \in RegistryFields |->
            CASE f = "document_id" -> document
              [] f = "document_version_id" -> VersionId(document, d.version, hash)
              [] f = "source_content_hash" -> hash
              [] f = "provenance_fingerprint" -> <<"provenance", document, d.version, hash>>
              [] f = "source_system" -> d.system [] f = "source_key" -> d.key
              [] f = "source_version" -> d.version
              [] f = "validity_known" -> d.valid[1] # -1
              [] f = "valid_from" -> d.valid[1] [] f = "valid_to" -> d.valid[2]
              [] f = "recorded_from" -> d.recorded[1] [] f = "recorded_to" -> d.recorded[2]
              [] f = "access_groups" -> [json |-> FALSE, items |-> SortedGroups(d.groups)]
              [] f \in {"upstream_unique_id", "invocation_id"} -> "x"
              [] f \in DOMAIN d.rest -> d.rest[f]
              [] OTHER -> NullOf(f)]
    IN  set

ProjectChunk(row, index, text, cited) ==
    LET chunk == ChunkId(row["document_id"], index, text)
    IN  [f \in ChunkFields |->
            CASE f \in CarryFields -> row[f]
              [] f = "context_id" -> ContextId(row["document_version_id"], chunk)
              [] f = "chunk_id" -> chunk
              [] f \in {"document_id", "document_version_id", "source_uri"} -> row[f]
              [] f = "chunk_index" -> index [] f = "text" -> text
              [] f = "chunk_content_hash" -> ContentHash(text)
              [] f = "provenance_fingerprint" -> <<"provenance", row["document_version_id"], chunk>>
              [] f \in {"upstream_unique_id", "invocation_id", "chunker_identity"} -> "x"
              [] f \in DOMAIN cited -> cited[f]
              [] OTHER -> NullOf(f)]

\* project_entity_link: only links that were resolved, with a confidence of at most one.
ProjectLink(context, l) ==
    LET key == EntityKey(l.canonical) entity == EntityId("ns", l.name, key)
    IN  [f \in LinkFields |->
            CASE f = "context_entity_link_id" -> LinkId(context, entity, l.relationship)
              [] f = "context_id" -> context [] f = "entity_id" -> entity [] f = "entity_key" -> key
              [] f = "entity_namespace" -> "ns" [] f = "entity_name" -> l.name
              [] f = "relationship_type" -> l.relationship [] f = "link_method" -> "m"
              [] f = "confidence" -> l.confidence
              [] f = "recorded_from" -> l.recorded[1] [] f = "recorded_to" -> l.recorded[2]
              [] f = "link_provenance_fingerprint" -> <<"provenance", context, entity>>
              [] OTHER -> NullOf(f)]

------------------------------------------------------------------------------
(* The questions asked of a row.                                            *)

Attributed(row) == \/ \E f \in {"tenant_id", "classification", "policy_ref"} : ~IsNull(row, f)
                   \/ Groups(row) # <<>>
\* is_publishable_context
Publishable(row) == row["authorization_resolved"] /\ (row["is_public"] \/ Attributed(row))

Reached(row, field, now) == ~IsNull(row, field) /\ now >= row[field]
\* freshness_status
Freshness(row, now) ==
    CASE Reached(row, "refresh_due_at", now) -> "pipeline_stale"
      [] ~Reached(row, "refresh_due_at", now) /\ Reached(row, "stale_after", now) -> "source_stale"
      [] ~Reached(row, "refresh_due_at", now) /\ ~Reached(row, "stale_after", now) ->
            IF IsNull(row, "freshness_checked_at") THEN "unknown" ELSE "fresh"

\* interval_contains
IntervalContains(instant, from, to) == from <= instant /\ (to = -1 \/ instant < to)

\* active_as_of
ActiveAsOf(rows, validAt, recordedAt, unknown) ==
    {r \in rows : /\ IF r["validity_known"] THEN IntervalContains(validAt, r["valid_from"], r["valid_to"]) ELSE unknown
                  /\ IntervalContains(recordedAt, r["recorded_from"], r["recorded_to"])}

------------------------------------------------------------------------------
(* The checks.                                                              *)

Interval(from, to) == to = -1 \/ to > from
TemporalValid(row) ==
    /\ IF row["validity_known"] THEN ~IsNull(row, "valid_from") /\ Interval(row["valid_from"], row["valid_to"])
       ELSE IsNull(row, "valid_from") /\ IsNull(row, "valid_to")
    /\ Interval(row["recorded_from"], row["recorded_to"])

PolicyValid(row) == /\ Groups(row) = SortedGroups(Groups(row))
                    /\ ~row["is_public"] /\ row["authorization_resolved"] => Publishable(row)

FreshnessValid(row) ==
    /\ row["materialized_at"] >= row["ingested_at"]
    /\ IsNull(row, "freshness_checked_at") \/ row["freshness_checked_at"] >= row["ingested_at"]

Paired(row, from, to) == /\ IsNull(row, from) <=> IsNull(row, to)
                         /\ ~IsNull(row, from) => row[from] >= 0 /\ row[to] > row[from]
CitationValid(row) ==
    /\ IsNull(row, "citation_page_number") \/ row["citation_page_number"] >= 1
    /\ Paired(row, "citation_char_start", "citation_char_end")
    /\ Paired(row, "citation_start_seconds", "citation_end_seconds")

\* _validate_row_semantics
RowValid(row, grain) ==
    CASE grain = "document_registry" ->
            /\ TemporalValid(row) /\ PolicyValid(row) /\ FreshnessValid(row)
            /\ row["document_id"] = DocumentId(row["source_system"], row["source_key"])
            /\ row["document_version_id"]
               = VersionId(row["document_id"], row["source_version"], row["source_content_hash"])
      [] grain = "document_chunks" ->
            LET chunk == ChunkId(row["document_id"], row["chunk_index"], row["text"])
            IN  /\ TemporalValid(row) /\ PolicyValid(row) /\ FreshnessValid(row)
                /\ row["chunk_index"] >= 0
                /\ row["chunk_id"] = chunk
                /\ row["context_id"] = ContextId(row["document_version_id"], chunk)
                /\ row["chunk_content_hash"] = ContentHash(row["text"])
                /\ CitationValid(row)
      [] grain = "context_entity_links" ->
            LET entity == EntityId(row["entity_namespace"], row["entity_name"], row["entity_key"])
            IN  /\ row["entity_id"] = entity
                /\ row["context_entity_link_id"]
                   = LinkId(row["context_id"], entity, row["relationship_type"])
                /\ Interval(row["recorded_from"], row["recorded_to"])
                /\ IsNull(row, "confidence") \/ row["confidence"] \in 0..100

\* _validate_document_version_intervals: of the versions of a document in the order they were
\* recorded, one begins only when the one before it ended.
Preceding(rows, i) ==
    {j \in DOMAIN rows : /\ rows[j]["document_id"] = rows[i]["document_id"]
                         /\ \/ rows[j]["recorded_from"] < rows[i]["recorded_from"]
                            \/ rows[j]["recorded_from"] = rows[i]["recorded_from"] /\ j < i}
Previous(rows, i) == CHOOSE j \in Preceding(rows, i) :
                        \A k \in Preceding(rows, i) : k \in Preceding(rows, j) \cup {j}
VersionsValid(rows) ==
    \A i \in DOMAIN rows : Preceding(rows, i) # {} =>
       LET end == rows[Previous(rows, i)]["recorded_to"] IN end # -1 /\ rows[i]["recorded_from"] >= end

\* validate_agent_context_frame
FrameValid(rows, grain) ==
    /\ \A i \in DOMAIN rows : /\ Fields(grain) \subseteq DOMAIN rows[i]
                              /\ \A f \in Fields(grain) \ Nullable : ~IsNull(rows[i], f)
                              /\ RowValid(rows[i], grain)
    /\ \A i, j \in DOMAIN rows : rows[i][PrimaryKey(grain)] = rows[j][PrimaryKey(grain)] => i = j
    /\ grain = "document_registry" => VersionsValid(rows)

\* validate_agent_context_relations
RelationsValid(registry, chunks, links) ==
    /\ FrameValid(registry, "document_registry") /\ FrameValid(chunks, "document_chunks")
    /\ FrameValid(links, "context_entity_links")
    /\ \A i \in DOMAIN chunks : \E j \in DOMAIN registry :
          /\ registry[j]["document_version_id"] = chunks[i]["document_version_id"]
          /\ registry[j]["document_id"] = chunks[i]["document_id"]
          /\ PolicyOf(registry[j]) = PolicyOf(chunks[i])
    /\ \A i \in DOMAIN links : \E j \in DOMAIN chunks : chunks[j]["context_id"] = links[i]["context_id"]

------------------------------------------------------------------------------
(* What the contract promises.                                              *)

\* What a caller has to get right himself: the intervals, and a policy that says something.
Consistent(d) ==
    LET row == ProjectRegistry(d)
    IN  TemporalValid(row) /\ FreshnessValid(row)
        /\ (~row["is_public"] /\ row["authorization_resolved"] => Attributed(row))

\* The projectors build rows that the checks accept, of distinct versions that follow each other
\* with intervals and a policy that are consistent, of their chunks and links; and a chunk built of a registry row is recorded, valid,
\* fresh and published exactly when the version it was cut from is.
ProjectionsValidate(documents, texts, cited, link) ==
    LET registry == [i \in DOMAIN documents |-> ProjectRegistry(documents[i])]
        chunk(i, k) == ProjectChunk(registry[i], k - 1, texts[k], cited)
        chunks == [n \in 1..(Len(registry) * Len(texts)) |->
                     chunk(((n - 1) \div Len(texts)) + 1, ((n - 1) % Len(texts)) + 1)]
    IN  (/\ \A i \in DOMAIN documents : Consistent(documents[i])
         /\ Interval(link.recorded[1], link.recorded[2])
         /\ VersionsValid(registry)
         /\ \A i, j \in DOMAIN registry :
               registry[i]["document_version_id"] = registry[j]["document_version_id"] => i = j) =>
        /\ RelationsValid(registry, chunks, <<ProjectLink(chunks[1]["context_id"], link)>>)
        /\ \A i \in DOMAIN registry, k \in DOMAIN texts, now \in 0..4 :
              /\ Freshness(chunk(i, k), now) = Freshness(registry[i], now)
              /\ ActiveAsOf({chunk(i, k)}, now, now, TRUE) = {} <=> ActiveAsOf({registry[i]}, now, now, TRUE) = {}
              /\ Publishable(chunk(i, k)) = Publishable(registry[i])

\* Asked for any moment, an accepted registry answers with at most one version of a document.
OneVersionAt(registry, validAt, recordedAt, unknown) ==
    FrameValid(registry, "document_registry") =>
       \A r, s \in ActiveAsOf(ToSet(registry), validAt, recordedAt, unknown) :
          r["document_id"] = s["document_id"] => r = s
OneVersionAsOf(registry) ==
    \A validAt, recordedAt \in 0..4, unknown \in BOOLEAN :
       OneVersionAt(registry, validAt, recordedAt, unknown)

\* However the rows came to be, of relations that were accepted: a chunk may be indexed exactly
\* when its document may, for the same tenant and groups; a context names one text of one
\* version; and a link joins the entity that every other plane computes of its key.
RelationsTrusted(registry, chunks, links) ==
    RelationsValid(registry, chunks, links) =>
       /\ \A i \in DOMAIN chunks, j \in DOMAIN registry :
             registry[j]["document_version_id"] = chunks[i]["document_version_id"] =>
                /\ Publishable(chunks[i]) = Publishable(registry[j])
                /\ \A f \in {"tenant_id", "classification"} : chunks[i][f] = registry[j][f]
                /\ Groups(chunks[i]) = Groups(registry[j])
       /\ \A i, j \in DOMAIN chunks :
             chunks[i]["chunk_id"] = chunks[j]["chunk_id"] =>
                /\ chunks[i]["text"] = chunks[j]["text"] /\ chunks[i]["document_id"] = chunks[j]["document_id"]
                /\ chunks[i]["chunk_content_hash"] = ContentHash(chunks[j]["text"])
       /\ \A i, j \in DOMAIN links :
             links[i]["entity_id"] = links[j]["entity_id"]
             <=> \A f \in {"entity_namespace", "entity_name", "entity_key"} : links[i][f] = links[j][f]

\* A row only gets staler as time passes, and a pipeline that is overdue is never taken for a
\* source that is.
Rank(status) == CASE status \in {"fresh", "unknown"} -> 0 [] status = "source_stale" -> 1
                  [] status = "pipeline_stale" -> 2
StalerLater(row, now, later) == now <= later => Rank(Freshness(row, now)) <= Rank(Freshness(row, later))
FreshnessForward(row) == \A now, later \in 0..4 : StalerLater(row, now, later)
------------------------------------------------------------------------------
(* What holds of every relation: the checks above judge a few rows at a few *)
(* moments, the theorems any number of rows at all of them.                 *)

\* The times of a row are numbers, as the contract's schema has them.
Timed(rows) == \A i \in DOMAIN rows : rows[i]["recorded_from"] \in Int /\ rows[i]["recorded_to"] \in Int

\* Of some subsets of a finite set, one includes no other.
LEMMA LeastSubset ==
  ASSUME NEW S, IsFiniteSet(S), NEW C, C \subseteq SUBSET S, C # {}
  PROVE  \E t \in C : \A u \in C : u \subseteq t => u = t
<1>1. IsWellFoundedOn(StrictSubsetOrdering(S), FiniteSubsetsOf(S))
  BY FS_StrictSubsetOrderingWellFounded
<1>2. FiniteSubsetsOf(S) = SUBSET S
  BY FS_FiniteSubsetsOfFinite
<1>3. PICK t \in C : \A u \in C : ~(<<u, t>> \in StrictSubsetOrdering(S))
  BY <1>1, <1>2, WFMin
<1>4. \A u \in C : u \subseteq t => u = t
  BY <1>3 DEF StrictSubsetOrdering
<1> QED
  BY <1>4

\* The versions of a document are in one order.
LEMMA VersionOrder ==
  ASSUME NEW S, NEW rows \in Seq(S), Timed(rows), NEW i \in DOMAIN rows
  PROVE  /\ Preceding(rows, i) \subseteq DOMAIN rows /\ i \notin Preceding(rows, i)
         /\ \A j \in Preceding(rows, i) :
               /\ rows[j]["document_id"] = rows[i]["document_id"]
               /\ rows[j]["recorded_from"] <= rows[i]["recorded_from"]
               /\ Preceding(rows, j) \subseteq Preceding(rows, i)
         /\ \A j \in DOMAIN rows : rows[j]["document_id"] = rows[i]["document_id"] =>
               j = i \/ j \in Preceding(rows, i) \/ i \in Preceding(rows, j)
<1>0. DOMAIN rows \subseteq Nat
  OBVIOUS
<1> DEFINE from(k) == rows[k]["recorded_from"]
<1>1. \A k \in DOMAIN rows : from(k) \in Int
  BY DEF Timed
<1>2. \A k \in DOMAIN rows, j \in DOMAIN rows :
         j \in Preceding(rows, k) <=> /\ rows[j]["document_id"] = rows[k]["document_id"]
                                      /\ from(j) < from(k) \/ (from(j) = from(k) /\ j < k)
  BY DEF Preceding
<1>3. \A k : Preceding(rows, k) \subseteq DOMAIN rows
  BY DEF Preceding
<1> HIDE DEF from
<1>4. i \notin Preceding(rows, i)
  BY <1>0, <1>1, <1>2
<1>5. ASSUME NEW j \in Preceding(rows, i)
      PROVE  /\ rows[j]["document_id"] = rows[i]["document_id"] /\ from(j) <= from(i)
             /\ Preceding(rows, j) \subseteq Preceding(rows, i)
  <2>1. j \in DOMAIN rows
    BY <1>3
  <2>2. /\ rows[j]["document_id"] = rows[i]["document_id"]
        /\ from(j) < from(i) \/ (from(j) = from(i) /\ j < i)
    BY <1>2, <2>1
  <2>3. ASSUME NEW k \in Preceding(rows, j) PROVE k \in Preceding(rows, i)
    <3>1. k \in DOMAIN rows
      BY <1>3
    <3>2. /\ rows[k]["document_id"] = rows[j]["document_id"]
          /\ from(k) < from(j) \/ (from(k) = from(j) /\ k < j)
      BY <1>2, <2>1, <3>1
    <3>3. from(k) < from(i) \/ (from(k) = from(i) /\ k < i)
      BY <1>0, <1>1, <2>1, <2>2, <3>1, <3>2
    <3> QED
      BY <1>2, <2>2, <3>1, <3>2, <3>3
  <2> QED
    BY <1>1, <2>1, <2>2, <2>3
<1>6. ASSUME NEW j \in DOMAIN rows, rows[j]["document_id"] = rows[i]["document_id"]
      PROVE  j = i \/ j \in Preceding(rows, i) \/ i \in Preceding(rows, j)
  BY <1>0, <1>1, <1>2, <1>6
<1> QED
  BY <1>3, <1>4, <1>5, <1>6 DEF from

\* A version that others precede has a last one of them before it.
LEMMA PreviousIsLast ==
  ASSUME NEW S, NEW rows \in Seq(S), Timed(rows), NEW i \in DOMAIN rows, Preceding(rows, i) # {}
  PROVE  /\ Previous(rows, i) \in Preceding(rows, i)
         /\ \A k \in Preceding(rows, i) : k \in Preceding(rows, Previous(rows, i)) \cup {Previous(rows, i)}
<1> DEFINE Rest(j) == DOMAIN rows \ Preceding(rows, j)
           C == {Rest(j) : j \in Preceding(rows, i)}
<1>1. IsFiniteSet(DOMAIN rows)
  BY FS_Interval
<1>2. C \subseteq SUBSET DOMAIN rows /\ C # {}
  OBVIOUS
<1> HIDE DEF C
<1>3. PICK t \in C : \A u \in C : u \subseteq t => u = t
  BY <1>1, <1>2, LeastSubset
<1>4. PICK j \in Preceding(rows, i) : t = Rest(j)
  BY <1>3 DEF C
<1>5. j \in DOMAIN rows
  BY VersionOrder
<1>6. ASSUME NEW k \in Preceding(rows, i) PROVE k \in Preceding(rows, j) \cup {j}
  <2>1. k \in DOMAIN rows /\ rows[k]["document_id"] = rows[j]["document_id"]
    BY VersionOrder
  <2>2. k = j \/ k \in Preceding(rows, j) \/ j \in Preceding(rows, k)
    BY <1>5, <2>1, VersionOrder
  <2>3. ASSUME j \in Preceding(rows, k) PROVE FALSE
    <3>1. Preceding(rows, j) \subseteq Preceding(rows, k) /\ j \notin Preceding(rows, j)
      BY <1>5, <2>1, <2>3, VersionOrder
    <3>2. Rest(k) \subseteq Rest(j) /\ j \in Rest(j) /\ j \notin Rest(k)
      BY <1>5, <2>3, <3>1
    <3>3. Rest(k) \in C
      BY DEF C
    <3> QED
      BY <1>3, <1>4, <3>2, <3>3
  <2> QED
    BY <2>2, <2>3
<1> QED
  BY <1>6 DEF Previous

\* A version ended before the next of its document began, however many are between them.
LEMMA VersionsApart ==
  ASSUME NEW S, NEW rows \in Seq(S), Timed(rows), VersionsValid(rows),
         NEW i \in DOMAIN rows, NEW j \in Preceding(rows, i)
  PROVE  rows[j]["recorded_to"] # -1 /\ rows[j]["recorded_to"] <= rows[i]["recorded_from"]
<1> DEFINE Apart(a, b) == rows[a]["recorded_to"] # -1 /\ rows[a]["recorded_to"] <= rows[b]["recorded_from"]
           Late == {b \in DOMAIN rows : \E a \in Preceding(rows, b) : ~Apart(a, b)}
           C == {Preceding(rows, b) : b \in Late}
<1> SUFFICES ASSUME ~Apart(j, i) PROVE FALSE
  OBVIOUS
<1>1. C \subseteq SUBSET DOMAIN rows /\ C # {} /\ IsFiniteSet(DOMAIN rows)
  <2>1. \A b \in DOMAIN rows : Preceding(rows, b) \subseteq DOMAIN rows
    BY VersionOrder
  <2>2. i \in Late
    OBVIOUS
  <2>3. IsFiniteSet(DOMAIN rows)
    BY FS_Interval
  <2> HIDE DEF Late
  <2> QED
    BY <2>1, <2>2, <2>3 DEF Late
<1> HIDE DEF C
<1>2. PICK t \in C : \A u \in C : u \subseteq t => u = t
  BY <1>1, LeastSubset
<1>3. PICK b \in Late : t = Preceding(rows, b)
  BY <1>2 DEF C
<1>4. PICK a \in Preceding(rows, b) : ~Apart(a, b)
  BY <1>3
<1> DEFINE p == Previous(rows, b)
<1>5. b \in DOMAIN rows /\ Preceding(rows, b) # {}
  BY <1>4
<1>6. p \in Preceding(rows, b) /\ a \in Preceding(rows, p) \cup {p}
  BY <1>4, <1>5, PreviousIsLast
<1>7. p \in DOMAIN rows /\ a \in DOMAIN rows /\ Preceding(rows, p) \subseteq Preceding(rows, b)
      /\ p \notin Preceding(rows, p) /\ rows[p]["recorded_from"] <= rows[b]["recorded_from"]
  <2>1. p \in DOMAIN rows /\ a \in DOMAIN rows /\ Preceding(rows, p) \subseteq Preceding(rows, b)
        /\ rows[p]["recorded_from"] <= rows[b]["recorded_from"]
    BY <1>4, <1>5, <1>6, VersionOrder
  <2> QED
    BY <2>1, VersionOrder
<1>8. p \notin Late
  BY <1>2, <1>3, <1>6, <1>7 DEF C
<1>9. Apart(p, b)
  BY <1>5, <1>7 DEF VersionsValid, Timed
<1>10. CASE a \in Preceding(rows, p)
  <2>1. Apart(a, p)
    BY <1>7, <1>8, <1>10
  <2>2. /\ rows[a]["recorded_to"] \in Int /\ rows[p]["recorded_from"] \in Int
        /\ rows[b]["recorded_from"] \in Int
    BY <1>5, <1>7 DEF Timed
  <2> QED
    BY <1>4, <1>7, <2>1, <2>2
<1> QED
  BY <1>4, <1>6, <1>9, <1>10

\* Whatever the registry, and at every moment: an accepted registry never answers with two
\* versions of one document (agent_context.py:1180-1270).
THEOREM OneVersionAtATime ==
  ASSUME NEW S, NEW registry \in Seq(S), Timed(registry)
  PROVE  /\ \A validAt, recordedAt \in Int, unknown \in BOOLEAN :
               OneVersionAt(registry, validAt, recordedAt, unknown)
         /\ OneVersionAsOf(registry)
<1>1. ASSUME NEW validAt \in Int, NEW recordedAt \in Int, NEW unknown \in BOOLEAN
      PROVE  OneVersionAt(registry, validAt, recordedAt, unknown)
  <2> SUFFICES ASSUME FrameValid(registry, "document_registry"),
                      NEW r \in ActiveAsOf(ToSet(registry), validAt, recordedAt, unknown),
                      NEW s \in ActiveAsOf(ToSet(registry), validAt, recordedAt, unknown),
                      r["document_id"] = s["document_id"]
               PROVE  r = s
    BY DEF OneVersionAt
  <2>1. PICK i \in DOMAIN registry : registry[i] = r
    BY DEF ActiveAsOf, ToSet
  <2>2. PICK j \in DOMAIN registry : registry[j] = s
    BY DEF ActiveAsOf, ToSet
  <2>3. /\ r["recorded_from"] <= recordedAt /\ (r["recorded_to"] = -1 \/ recordedAt < r["recorded_to"])
        /\ s["recorded_from"] <= recordedAt /\ (s["recorded_to"] = -1 \/ recordedAt < s["recorded_to"])
    BY DEF ActiveAsOf, IntervalContains
  <2>4. {r["recorded_from"], r["recorded_to"], s["recorded_from"], s["recorded_to"]} \subseteq Int
    BY <2>1, <2>2 DEF Timed
  <2>5. VersionsValid(registry)
    BY DEF FrameValid
  <2>6. ASSUME NEW a \in DOMAIN registry, NEW b \in Preceding(registry, a)
        PROVE  registry[b]["recorded_to"] # -1 /\ registry[b]["recorded_to"] <= registry[a]["recorded_from"]
    BY <2>5, VersionsApart
  <2>7. j = i \/ j \in Preceding(registry, i) \/ i \in Preceding(registry, j)
    BY <2>1, <2>2, VersionOrder
  <2>8. j \notin Preceding(registry, i)
    BY <2>1, <2>2, <2>3, <2>4, <2>6
  <2>9. i \notin Preceding(registry, j)
    BY <2>1, <2>2, <2>3, <2>4, <2>6
  <2> QED
    BY <2>1, <2>2, <2>7, <2>8, <2>9
<1> QED
  BY <1>1 DEF OneVersionAsOf

\* Rows under one policy may be indexed alike.
LEMMA PolicyDecides ==
  ASSUME NEW c, NEW d, PolicyOf(c) = PolicyOf(d)
  PROVE  /\ Publishable(c) = Publishable(d) /\ Groups(c) = Groups(d)
         /\ \A f \in {"tenant_id", "classification"} : c[f] = d[f]
<1>1. /\ \A f \in PolicyFields \ {"access_groups"} : PolicyOf(c)[f] = <<c[f]>> /\ PolicyOf(d)[f] = <<d[f]>>
      /\ PolicyOf(c)["access_groups"] = <<Groups(c)>> /\ PolicyOf(d)["access_groups"] = <<Groups(d)>>
  BY DEF PolicyOf, PolicyFields
<1>2. \A f \in PolicyFields \ {"access_groups"} : c[f] = d[f]
  BY <1>1
<1>3. /\ c["tenant_id"] = d["tenant_id"] /\ c["classification"] = d["classification"]
      /\ c["policy_ref"] = d["policy_ref"] /\ c["is_public"] = d["is_public"]
      /\ c["authorization_resolved"] = d["authorization_resolved"]
  BY <1>2 DEF PolicyFields
<1>4. Groups(c) = Groups(d)
  BY <1>1
<1>5. \A f \in {"tenant_id", "classification", "policy_ref"} : IsNull(c, f) <=> IsNull(d, f)
  BY <1>3 DEF IsNull, Numbers, Identifiers, Others, FreshnessFields
<1>6. Attributed(c) <=> Attributed(d)
  BY <1>4, <1>5 DEF Attributed
<1>7. Publishable(c) = Publishable(d)
  BY <1>3, <1>6, Zenon DEF Publishable
<1> QED
  BY <1>3, <1>4, <1>7

\* Whatever rows were accepted, however they came to be: a chunk is shown as its document is,
\* an identifier stands for one text, and a link for one entity (agent_context.py:625-1270).
THEOREM AcceptedRelationsTrusted ==
  \A registry, chunks, links : RelationsTrusted(registry, chunks, links)
<1> SUFFICES ASSUME NEW registry, NEW chunks, NEW links, RelationsValid(registry, chunks, links)
             PROVE  RelationsTrusted(registry, chunks, links)
  BY DEF RelationsTrusted
<1>1. ASSUME NEW i \in DOMAIN chunks, NEW j \in DOMAIN registry,
             registry[j]["document_version_id"] = chunks[i]["document_version_id"]
      PROVE  /\ Publishable(chunks[i]) = Publishable(registry[j])
             /\ \A f \in {"tenant_id", "classification"} : chunks[i][f] = registry[j][f]
             /\ Groups(chunks[i]) = Groups(registry[j])
  <2>1. PICK k \in DOMAIN registry :
           /\ registry[k]["document_version_id"] = chunks[i]["document_version_id"]
           /\ PolicyOf(registry[k]) = PolicyOf(chunks[i])
    BY DEF RelationsValid
  <2>2. \A a, b \in DOMAIN registry :
           registry[a]["document_version_id"] = registry[b]["document_version_id"] => a = b
    BY DEF RelationsValid, FrameValid, PrimaryKey
  <2>3. k = j
    BY <1>1, <2>1, <2>2
  <2> QED
    BY <2>1, <2>3, PolicyDecides
<1>2. \A i \in DOMAIN chunks :
         /\ chunks[i]["chunk_id"] = <<"chunk", chunks[i]["document_id"], chunks[i]["chunk_index"], chunks[i]["text"]>>
         /\ chunks[i]["chunk_content_hash"] = ContentHash(chunks[i]["text"])
  <2>1. \A i \in DOMAIN chunks : RowValid(chunks[i], "document_chunks")
    BY DEF RelationsValid, FrameValid
  <2> QED
    BY <2>1 DEF RowValid, ChunkId
<1>3. ASSUME NEW i \in DOMAIN chunks, NEW j \in DOMAIN chunks, chunks[i]["chunk_id"] = chunks[j]["chunk_id"]
      PROVE  /\ chunks[i]["text"] = chunks[j]["text"] /\ chunks[i]["document_id"] = chunks[j]["document_id"]
             /\ chunks[i]["chunk_content_hash"] = ContentHash(chunks[j]["text"])
  <2>1. chunks[i]["text"] = chunks[j]["text"] /\ chunks[i]["document_id"] = chunks[j]["document_id"]
    BY <1>2, <1>3
  <2> QED
    BY <1>2, <2>1
<1>4. \A i \in DOMAIN links :
         links[i]["entity_id"] = <<"entity", links[i]["entity_namespace"], links[i]["entity_name"],
                                   links[i]["entity_key"]>>
  <2>1. \A i \in DOMAIN links : RowValid(links[i], "context_entity_links")
    BY DEF RelationsValid, FrameValid
  <2> QED
    BY <2>1 DEF RowValid, EntityId
<1>5. ASSUME NEW i \in DOMAIN links, NEW j \in DOMAIN links
      PROVE  links[i]["entity_id"] = links[j]["entity_id"]
             <=> \A f \in {"entity_namespace", "entity_name", "entity_key"} : links[i][f] = links[j][f]
  <2>1. CASE links[i]["entity_id"] = links[j]["entity_id"]
    BY <1>4, <2>1
  <2>2. CASE \A f \in {"entity_namespace", "entity_name", "entity_key"} : links[i][f] = links[j][f]
    <3>1. /\ links[i]["entity_namespace"] = links[j]["entity_namespace"]
          /\ links[i]["entity_name"] = links[j]["entity_name"]
          /\ links[i]["entity_key"] = links[j]["entity_key"]
      BY <2>2
    <3> QED
      BY <1>4, <2>2, <3>1
  <2> QED
    BY <2>1, <2>2
<1> QED
  BY <1>1, <1>3, <1>5 DEF RelationsTrusted

\* Time makes no row fresher, whichever of its clocks are set and in whatever order they are
\* (agent_context.py:560-620).
THEOREM RowsOnlyStale ==
  ASSUME NEW row, \A f \in {"refresh_due_at", "stale_after"} : row[f] \in Int
  PROVE  /\ \A now, later \in Int : StalerLater(row, now, later)
         /\ FreshnessForward(row)
<1>1. ASSUME NEW now \in Int, NEW later \in Int, now <= later PROVE Rank(Freshness(row, now)) <= Rank(Freshness(row, later))
  <2>1. /\ row["refresh_due_at"] \in Int /\ row["stale_after"] \in Int
        /\ \A f \in {"refresh_due_at", "stale_after"} : IsNull(row, f) <=> row[f] = -1
    <3>1. \A f \in {"refresh_due_at", "stale_after"} : f \in Numbers
      BY DEF Numbers, FreshnessFields
    <3>2. \A f \in Numbers : IsNull(row, f) <=> row[f] = -1
      BY DEF IsNull, Numbers, Identifiers, Others, FreshnessFields
    <3> QED
      BY <3>1, <3>2
  <2>2. \A f \in {"refresh_due_at", "stale_after"} : Reached(row, f, now) => Reached(row, f, later)
    BY <1>1, <2>1 DEF Reached
  <2>3. ASSUME NEW t
        PROVE  /\ Rank(Freshness(row, t)) \in 0..2
               /\ Reached(row, "refresh_due_at", t) => Rank(Freshness(row, t)) = 2
               /\ ~Reached(row, "refresh_due_at", t) /\ Reached(row, "stale_after", t) => Rank(Freshness(row, t)) = 1
               /\ ~Reached(row, "refresh_due_at", t) /\ ~Reached(row, "stale_after", t) => Rank(Freshness(row, t)) = 0
    <3>1. /\ Rank("pipeline_stale") = 2 /\ Rank("source_stale") = 1 /\ Rank("fresh") = 0 /\ Rank("unknown") = 0
      BY DEF Rank
    <3>2. /\ Reached(row, "refresh_due_at", t) => Freshness(row, t) = "pipeline_stale"
          /\ ~Reached(row, "refresh_due_at", t) /\ Reached(row, "stale_after", t) => Freshness(row, t) = "source_stale"
          /\ ~Reached(row, "refresh_due_at", t) /\ ~Reached(row, "stale_after", t) =>
                Freshness(row, t) \in {"fresh", "unknown"}
      BY DEF Freshness
    <3> QED
      BY <3>1, <3>2
  <2>4. CASE Reached(row, "refresh_due_at", now)
    BY <2>2, <2>3, <2>4
  <2>5. CASE ~Reached(row, "refresh_due_at", now) /\ Reached(row, "stale_after", now)
    BY <2>2, <2>3, <2>5
  <2>6. CASE ~Reached(row, "refresh_due_at", now) /\ ~Reached(row, "stale_after", now)
    BY <2>3, <2>6
  <2> QED
    BY <2>4, <2>5, <2>6
<1>2. \A now, later \in Int : StalerLater(row, now, later)
  BY <1>1 DEF StalerLater
<1> QED
  BY <1>2 DEF FreshnessForward
==============================================================================
