---------------------------- MODULE ModelContracts ----------------------------
(***************************************************************************)
(* What one model of a project may say (config/model.py), and the columns  *)
(* of the table that its executor writes (execution/chunk.py, embed.py,    *)
(* llm.py, eval.py): which of them come from upstream, which are computed. *)
(* At the end, what a transform declares about its inputs.                 *)
(* A model is a record: its name, the set of its kind blocks, one record   *)
(* per kind block, and the fields that all kinds share.                    *)
(***************************************************************************)
EXTENDS Integers, Sequences, FiniteSets, SequencesExt

Kinds == {"extraction", "transform", "ml", "chunk", "embed", "llm", "search", "eval"}

InternalLineage ==
    {"document_id", "source_path", "source_uri", "source_metadata", "content_hash",
     "code_version", "backend_name", "backend_version", "extracted_at"}
EmbedMetadata ==
    {"embedding_provider", "embedding_model", "embedding_dimensions",
     "embedding_provider_implementation", "embedding_input_hash", "embedding_config_hash",
     "embedded_at"}
LLMMetadata ==
    {"llm_provider", "llm_model", "llm_provider_implementation", "llm_input_hash",
     "llm_config_hash", "prompt_name", "prompt_version", "generated_at"}
ChunkGenerated ==
    {"chunk_id", "document_id", "chunk_index", "chunk_count", "text", "chunk_strategy",
     "code_version", "chunked_at"}
ScoreColumns == {"_distance", "_score", "_relevance_score"}

\* casefold, of the spellings that differ in case.
Spellings ==
    [Content_Hash |-> "content_hash", LLM_Model |-> "llm_model", Embedded_At |-> "embedded_at"]
Casefold(column) == IF column \in DOMAIN Spellings THEN Spellings[column] ELSE column

Distinct(seq) == Cardinality(ToSet(seq)) = Len(seq)
Given(value) == value # ""

------------------------------------------------------------------------------
(* The blocks.  An option that is not set is "".                            *)

\* _configured_extraction_field_names
ExtractedFields(e) ==
    ToSet(e.fields) \cup ToSet(e.frontmatter) \cup e.selectors
    \cup {f \in {e.textField, e.bodyField} : Given(f)}

ExtractionValid(e) ==
    /\ \A f \in ExtractedFields(e) : Casefold(f) \notin InternalLineage
    /\ e.flushEvery > 0 /\ e.publishEvery > 0

TransformValid(t) ==
    /\ t.type = "python" => ~Given(t.path)
    /\ t.type = "sql" => ~Given(t.module) /\ ~t.usesLlm

\* A heading column is neither the text nor one of the columns a chunk model writes.
HeadingValid(c) ==
    Given(c.heading) => /\ c.strategy = "recursive"
                        /\ c.heading # c.textField
                        /\ c.heading \notin ChunkGenerated

ChunkValid(c) ==
    /\ c.size > 0 /\ c.overlap >= 0 /\ c.overlap < c.size
    /\ Distinct(c.inText) /\ c.textField \notin ToSet(c.inText)
    /\ HeadingValid(c)

EmbedValid(e) ==
    LET fields == <<e.idField, e.textField, e.vectorField>>
    IN  /\ Distinct(fields) /\ ToSet(fields) \cap EmbedMetadata = {}
        /\ e.dimensions \in 1..65536 /\ e.batchSize \in 1..10000

\* LLMTransformConfig and the fields of an llm model.
LLMValid(l) == \A c \in {l.inputField, l.idField, l.rowIdField, l.ordinalField} :
                  Casefold(c) \notin LLMMetadata

LLMFieldsValid(l, names) ==
    /\ names # <<>> /\ Distinct(names)
    /\ \A f \in ToSet(names) : /\ Casefold(f) \notin LLMMetadata
                               /\ f \notin {l.idField, l.rowIdField, l.ordinalField}

\* EvalConfig
EvalValid(e) == /\ Given(e.predicted) /\ Given(e.expectedField) /\ Given(e.key)
                /\ Distinct(e.labels) /\ "" \notin ToSet(e.labels)

Policy(a) == a.role \in {"policy", "user_and_policy"}

\* SearchConfig: each query mode has the index it needs; governed means policy attributes.
SearchValid(s) ==
    LET attributes == [i \in DOMAIN s.attributes |-> s.attributes[i].name]
        declared == ToSet(s.text) \cup ToSet(attributes) \cup ToSet(s.display)
                    \cup {s.idField, s.vector.field}
    IN  /\ s.text # <<>> /\ declared \cap ScoreColumns = {}
        /\ Distinct(s.text) /\ Distinct(s.display) /\ Distinct(attributes)
        /\ s.fullText \subseteq ToSet(s.text)
        /\ s.modes # {}
        /\ s.modes \cap {"vector", "hybrid"} # {} => Given(s.vector.field)
        /\ s.modes \cap {"text", "hybrid"} # {} => s.fullText # {}
        /\ (s.access = "governed") <=> (\E i \in DOMAIN s.attributes : Policy(s.attributes[i]))

\* RetrievalTestConfig: cut-offs, and thresholds of cut-offs that are asked for.
RetrievalTestValid(t) == /\ Given(t.golden) /\ t.at # <<>> /\ Distinct(t.at)
                         /\ \A k \in ToSet(t.at) : k > 0
                         /\ t.thresholds \subseteq ToSet(t.at)

\* FieldConfig: an enum is a closed set, and only an enum is.
FieldValid(f) == /\ Distinct(f.values) /\ "" \notin ToSet(f.values)
                 /\ (f.type = "enum") <=> (f.values # <<>>)

------------------------------------------------------------------------------
(* The model.                                                               *)

BlockValid(m) ==
    /\ "extraction" \in m.kinds => ExtractionValid(m.extraction)
    /\ "transform" \in m.kinds => TransformValid(m.transform)
    /\ "chunk" \in m.kinds => ChunkValid(m.chunk)
    /\ "embed" \in m.kinds => EmbedValid(m.embed)
    /\ "llm" \in m.kinds =>
          LLMValid(m.llm) /\ LLMFieldsValid(m.llm, [i \in DOMAIN m.fields |-> m.fields[i].name])
    /\ "search" \in m.kinds => SearchValid(m.search)
    /\ "eval" \in m.kinds => EvalValid(m.eval) /\ m.deps = <<>>

\* validate_node_name with reserve_internal; names are compared in lower case.
NameValid(name) == name \notin {"stel_state", "DBT_ML_runs", "1st", ""}

ModelValid(m) ==
    /\ NameValid(m.name)
    /\ Cardinality(m.kinds) = 1
    /\ BlockValid(m)
    /\ "search" \in m.kinds => m.explicit
    /\ m.agent => "transform" \in m.kinds
    /\ m.watched # <<>> => m.materialization = "incremental" /\ Distinct(m.watched)
    /\ \A i \in DOMAIN m.fields : FieldValid(m.fields[i])
    /\ \A i \in DOMAIN m.retrieval : RetrievalTestValid(m.retrieval[i])

\* _derive_eval_edges: an eval depends on the two relations it compares.
EvalEdges(m) == IF m.eval.predictions = m.eval.expected THEN <<m.eval.predictions>>
                ELSE <<m.eval.predictions, m.eval.expected>>

------------------------------------------------------------------------------
(* The columns of the table.  A column is written by "upstream", by "model" *)
(* (a declared field), or by "stel"; the check of the columns that the      *)
(* upstream table really has is made when the model runs.                   *)

ChunkRuns(c, upstream) ==
    /\ c.textField \in upstream /\ "document_id" \in upstream
    /\ Given(c.heading) => c.heading \notin upstream
    /\ ToSet(c.inText) \subseteq upstream

EmbedRuns(e, upstream) ==
    /\ {e.idField, e.textField} \subseteq upstream
    /\ \A c \in upstream :
          Casefold(c) \notin {Casefold(g) : g \in EmbedMetadata \cup {e.vectorField}}

LLMRuns(l, names, upstream) ==
    /\ {l.idField, l.inputField} \subseteq upstream
    /\ upstream \cap (LLMMetadata \cup ToSet(names)) = {}
    /\ l.many => upstream \cap {l.rowIdField, l.ordinalField} = {}

\* chunk_row: what upstream carries, without the text and what a chunk model writes itself.
ChunkColumns(c, upstream) ==
    <<upstream \ (ChunkGenerated \cup {c.textField}), ChunkGenerated,
      IF Given(c.heading) THEN {c.heading} ELSE {}>>

\* _embedding_row
EmbedColumns(e, upstream) == <<upstream, {e.vectorField}, EmbedMetadata>>

\* _llm_rows: the fields, the id that is carried, the key and the place of a fan-out.
LLMColumns(l, names) ==
    [i \in DOMAIN names |-> {names[i]}]
    \o <<{l.idField}, LLMMetadata>> \o (IF l.many THEN <<{l.rowIdField}, {l.ordinalField}>> ELSE <<>>)

\* The columns of a row, one set per writer, in the order in which they are written.
Columns(m, upstream) ==
    CASE "chunk" \in m.kinds -> ChunkColumns(m.chunk, upstream)
      [] "embed" \in m.kinds -> EmbedColumns(m.embed, upstream)
      [] "llm" \in m.kinds -> LLMColumns(m.llm, [i \in DOMAIN m.fields |-> m.fields[i].name])

Runs(m, upstream) ==
    CASE "chunk" \in m.kinds -> ChunkRuns(m.chunk, upstream)
      [] "embed" \in m.kinds -> EmbedRuns(m.embed, upstream)
      [] "llm" \in m.kinds ->
            LLMRuns(m.llm, [i \in DOMAIN m.fields |-> m.fields[i].name], upstream)

------------------------------------------------------------------------------
\* A row has one writer per column: neither a declared field, a heading, a vector nor a column
\* of the upstream table replaces a column that the model computes, so no key, hash or
\* provenance of a row is lost (the exception: a fan-out whose key and ordinal columns are
\* given the same name, which nothing refuses).
OneWriterPerColumn(m, upstream) ==
    (ModelValid(m) /\ Runs(m, upstream)
     /\ ~("llm" \in m.kinds /\ m.llm.rowIdField = m.llm.ordinalField))
    => \A i, j \in DOMAIN Columns(m, upstream) :
          i # j => Columns(m, upstream)[i] \cap Columns(m, upstream)[j] = {}

------------------------------------------------------------------------------
(* What a transform module declares about its inputs (transforms/runner.py *)
(* and the hooks of the text transforms) and what an accepted declaration  *)
(* means for the fingerprints of an incremental run                        *)
(* (execution/transform.py).  Names are strings, "" the blank one; "none"  *)
(* stands for a null parent_source.                                        *)

Contract(parent, child, source, key, refs) ==
    [parent_key |-> parent, child_key |-> child, parent_source |-> source,
     parent_source_key |-> key, reference_deps |-> refs]

\* declared_link_incremental_contract and its declared_dependencies.
LinkContract(o) == Contract("document_id", "entity_link_id", o.mentions, o.document, <<o.aliases>>)
LinkDependencies(o) == <<o.mentions, o.aliases>>

\* declared_relation_incremental_contract and its declared_dependencies.
RelationContract(o) == Contract("document_id", "relation_id", o.mentions, o.document, <<>>)
RelationDependencies(o) == <<o.mentions>>

\* _EntityLinkBaseOptions: what the options of a linker must satisfy.
LinkOptionsAccepted(o) ==
    /\ "" \notin {o.mentions, o.aliases, o.document, o.mention, o.text}
    /\ o.mentions # o.aliases
    /\ "" \notin ToSet(o.include) /\ IsInjective(o.include)
    /\ ToSet(o.include) \cap {o.document, o.mention, o.text} = {}

\* IncrementalContract.validate_against.
ValidateAgainst(c, deps) ==
    /\ "" \notin {c.parent_key, c.child_key, c.parent_source_key}
    /\ c.parent_key # c.child_key
    /\ "" \notin ToSet(c.reference_deps) /\ IsInjective(c.reference_deps)
    /\ IF c.parent_source = "none"
       THEN c.reference_deps = <<>> /\ Cardinality(ToSet(deps)) = 1
       ELSE /\ c.parent_source \in ToSet(deps) \ ToSet(c.reference_deps)
            /\ ToSet(deps) = {c.parent_source} \cup ToSet(c.reference_deps)

\* Mutant: a dependency that the contract leaves out is let through.
ValidateKnownOnly(c, deps) ==
    /\ "" \notin {c.parent_key, c.child_key, c.parent_source_key}
    /\ c.parent_key # c.child_key
    /\ IF c.parent_source = "none"
       THEN c.reference_deps = <<>> /\ deps # <<>>
       ELSE {c.parent_source} \cup ToSet(c.reference_deps) \subseteq ToSet(deps)

\* _validate_declared_dependencies: depends_on names what the options require.
DeclaredDependencies(declared, deps) ==
    "" \notin ToSet(declared) /\ ToSet(declared) = ToSet(deps)

NoContract == [declared |-> FALSE]   \* no hook, or one that returns None

\* _validate_incremental_contract: one is required where rows are replaced by parent.
ContractAccepted(c, deps, materialization) ==
    materialization = "incremental" => c # NoContract /\ ValidateAgainst(c, deps)

\* resolve_parent_source.
ResolveParentSource(c, deps) == IF c.parent_source = "none" THEN deps[1] ELSE c.parent_source

\* _parent_groups, _parent_fingerprint over _frame_fingerprint: what the fingerprint of
\* a parent takes from the frames; a frame maps parents to what its rows say of them.
ParentFingerprint(c, deps, frames, parent) ==
    <<frames[ResolveParentSource(c, deps)][parent],
      [r \in ToSet(c.reference_deps) |-> frames[r]]>>

------------------------------------------------------------------------------
\* No input escapes invalidation (runner.py:62-67, 118-137): once a contract is
\* accepted, a run that reads other rows in any dependency sees another fingerprint
\* for a parent whose rows those are, and for every parent where it is a reference.
InputsAreFingerprinted(c, deps, frames, others, parents) ==
    ContractAccepted(c, deps, "incremental") =>
       \A d \in ToSet(deps), p \in parents :
          frames[d][p] # others[d][p] =>
             /\ ParentFingerprint(c, deps, frames, p) # ParentFingerprint(c, deps, others, p)
             /\ d # ResolveParentSource(c, deps) =>
                  \A q \in parents : ParentFingerprint(c, deps, frames, q)
                                       # ParentFingerprint(c, deps, others, q)

\* The built-in transforms' own declarations agree with one another: a depends_on that
\* their dependencies accept is one that their contract accepts (_linking.py:56-76).
HooksAgree(o, deps) ==
    LinkOptionsAccepted(o) =>
       /\ DeclaredDependencies(LinkDependencies(o), deps) =>
             ContractAccepted(LinkContract(o), deps, "incremental")
       /\ DeclaredDependencies(RelationDependencies(o), deps) =>
             ContractAccepted(RelationContract(o), deps, "incremental")
==============================================================================
