------------------------ MODULE IncrementalPipeline ------------------------
(***************************************************************************)
(* Incremental models over a warehouse: a document source, an extraction   *)
(* model (execution/extraction.py), a chunk model over its rows            *)
(* (execution/chunk.py) and an embed model over the chunks                 *)
(* (execution/embed.py), run one after the other by run_project or         *)
(* build_project (runner.py).  Each model keeps a table of rows and a      *)
(* state: the input fingerprint each record was last published for.  A     *)
(* record whose fingerprint is the recorded one is skipped.                *)
(*                                                                         *)
(* A content stands for the bytes of a document and the code version that  *)
(* extracts them, and is the fingerprint of its extracted row; a chunk id  *)
(* is the document, the place and the text of a piece.                     *)
(***************************************************************************)
EXTENDS Naturals, Sequences, FiniteSets

CONSTANTS
    Docs, Contents,
    TextsOf,       \* the texts of the pieces of each content
    None,
    FlushSize,     \* documents extracted and published together
    Settings,      \* the environments projects run in
    MaxChanges     \* bound: changes of the source and the configuration

ASSUME DocsAssumption == IsFiniteSet(Docs)
ASSUME NoneAssumption == None \notin Contents
ASSUME TextsAssumption == DOMAIN TextsOf = Contents /\ \A v \in Contents : Len(TextsOf[v]) \in Nat
ASSUME SettingAssumption ==
    \A s \in Settings : /\ {s.fullRefresh, s.sourceWaits} \subseteq BOOLEAN
                        /\ s.maxFaults \in Nat
ASSUME BoundAssumption == {FlushSize, MaxChanges} \subseteq Nat /\ FlushSize > 0

VARIABLES
    setting,    \* the environment of this behaviour
    source,     \* the content of every document, None for an absent one
    config,     \* the configuration of the embed model
    tables,     \* the tables that exist
    ext, extState,         \* rows and state of the extraction model
    chunks, chunkState,    \* rows and state of the chunk model
    embeds, embedState,    \* rows and state of the embed model
    pc,         \* control point of the run
    full,       \* TRUE for a run with --full-refresh
    refs,       \* the documents discovered by the run
    todo,       \* documents still to be extracted
    published,  \* documents of the flush published but not recorded
    failed,     \* TRUE when a document failed in this run
    changes, faults

world == <<setting, source, config>>
extraction == <<ext, extState>>
chunking   == <<chunks, chunkState>>
embedding  == <<embeds, embedState>>
run == <<full, refs, todo, published, failed>>
bounds == <<changes, faults>>
vars == <<world, tables, extraction, chunking, embedding, pc, run, bounds>>

\* Configurations of the embed model; whether a run may be a full refresh; whether
\* source and configuration change between settled runs only.
Configs == setting.configs
FullRefresh == setting.fullRefresh
SourceWaits == setting.sourceWaits
MaxFaults == setting.maxFaults      \* bound: failures

Points == {"idle", "flush", "record", "stage", "replace", "chunk", "children",
           "chunk_full", "chunk_state", "embed", "publish", "prune", "embed_state",
           "embed_full", "embed_replace"}
Row == [Docs -> Contents \cup {None}]
Texts == UNION {{TextsOf[v][i] : i \in DOMAIN TextsOf[v]} : v \in Contents}
Places == UNION {DOMAIN TextsOf[v] : v \in Contents}
Key == [doc : Docs, place : Places, text : Texts]
Chunk == [key : Key, from : Contents]
Embed == [key : Key, from : Contents, vector : Texts \X Configs, config : Configs]
EmbedRecord == [key : Key, from : Contents, config : Configs]

TypeOK ==
    /\ setting \in Settings
    /\ source \in Row /\ config \in Configs
    /\ tables \subseteq {"ext", "chunk", "embed"}
    /\ ext \in Row /\ extState \in Row
    /\ chunks \subseteq Chunk /\ chunkState \in Row
    /\ embeds \subseteq Embed /\ embedState \subseteq EmbedRecord
    /\ pc \in Points /\ full \in BOOLEAN /\ failed \in BOOLEAN
    /\ refs \in Row /\ todo \in SUBSET Docs /\ published \in SUBSET Docs
    /\ changes \in 0..MaxChanges /\ faults \in 0..MaxFaults

Nothing == [d \in Docs |-> None]
Init ==
    /\ setting \in Settings
    /\ source \in Row /\ config \in Configs
    /\ tables = {}
    /\ ext = Nothing /\ extState = Nothing
    /\ chunks = {} /\ chunkState = Nothing
    /\ embeds = {} /\ embedState = {}
    /\ pc = "idle" /\ full = FALSE /\ failed = FALSE
    /\ refs = Nothing /\ todo = {} /\ published = {}
    /\ changes = 0 /\ faults = 0

-----------------------------------------------------------------------------
(* The extraction model.                                                   *)

Listed(rows) == {d \in Docs : rows[d] # None}
Merged(rows, new, docs) == [d \in Docs |-> IF d \in docs THEN new[d] ELSE rows[d]]

\* Discovery of the documents of a filter, and, unless the run is filtered, the
\* removal of the documents that are gone, in one transaction with their state.
Begin(filter) ==
    LET found == [d \in Docs |-> IF d \in filter THEN source[d] ELSE None]
        gone == IF filter = Docs THEN Listed(extState) \ Listed(found) ELSE {}
    IN
    /\ pc = "idle" /\ pc' = "flush" /\ full' = FALSE
    /\ refs' = found
    /\ ext' = Merged(ext, Nothing, gone) /\ extState' = Merged(extState, Nothing, gone)
    /\ todo' = {d \in Listed(found) : extState[d] # found[d]}
    /\ published' = {} /\ failed' = FALSE
    /\ UNCHANGED <<world, tables, chunking, embedding, bounds>>

BeginFull ==
    /\ FullRefresh /\ pc = "idle" /\ pc' = "stage" /\ full' = TRUE
    /\ refs' = source /\ todo' = Listed(source)
    /\ published' = {} /\ failed' = FALSE
    /\ UNCHANGED <<world, tables, extraction, chunking, embedding, bounds>>

\* The documents of a batch that fail: a fetch notices that the content changed
\* after discovery, and any extraction may fail on its own.
Failing(batch, bad) ==
    LET moved == {d \in batch : source[d] # refs[d]} IN
    /\ moved \subseteq bad /\ bad \subseteq batch
    /\ faults' = faults + Cardinality(bad \ moved) /\ faults' <= MaxFaults

\* Mutant: the failed documents of the batch are recorded too.
FlushRecordsFailed ==
    \E batch \in SUBSET todo, bad \in SUBSET todo :
        /\ pc = "flush" /\ batch # {} /\ Cardinality(batch) <= FlushSize
        /\ batch = todo \/ Cardinality(batch) = FlushSize
        /\ Failing(batch, bad)
        /\ ext' = Merged(ext, refs, batch \ bad)
        /\ tables' = IF batch = bad THEN tables ELSE tables \cup {"ext"}
        /\ todo' = todo \ batch /\ published' = batch
        /\ failed' = (failed \/ bad # {})
        /\ pc' = "record"
        /\ UNCHANGED <<world, extState, chunking, embedding, full, refs, changes>>
\* The rows of a flush are merged into the table.
Flush ==
    \E batch \in SUBSET todo, bad \in SUBSET todo :
        /\ pc = "flush" /\ batch # {} /\ Cardinality(batch) <= FlushSize
        /\ batch = todo \/ Cardinality(batch) = FlushSize
        /\ Failing(batch, bad)
        /\ ext' = Merged(ext, refs, batch \ bad)
        /\ tables' = IF batch = bad THEN tables ELSE tables \cup {"ext"}
        /\ todo' = todo \ batch /\ published' = batch \ bad
        /\ failed' = (failed \/ bad # {})
        /\ pc' = IF batch = bad THEN "flush" ELSE "record"
        /\ UNCHANGED <<world, extState, chunking, embedding, full, refs, changes>>

Record ==
    /\ pc = "record" /\ pc' = "flush"
    /\ extState' = Merged(extState, refs, published)
    /\ published' = {}
    /\ UNCHANGED <<world, tables, ext, chunking, embedding, full, refs, todo, failed, bounds>>

\* A spent budget ends the extraction before the next document; what was
\* published stays, and a full run swaps nothing in.
Exhaust ==
    /\ pc \in {"flush", "stage"} /\ todo # {}
    /\ faults < MaxFaults /\ faults' = faults + 1
    /\ failed' = TRUE /\ pc' \in {"chunk", "idle"}
    /\ UNCHANGED <<world, tables, extraction, chunking, embedding, full, refs, todo,
                   published, changes>>

\* run goes on after failed documents, build skips the descendants.
GoOn(next) == pc' = next \/ (failed /\ pc' = "idle")

\* An empty source leaves an empty table.
Extracted ==
    /\ pc = "flush" /\ todo = {} /\ GoOn("chunk")
    /\ tables' = IF Listed(refs) = {} THEN tables \cup {"ext"} ELSE tables
    /\ UNCHANGED <<world, extraction, chunking, embedding, run, bounds>>

\* A full run swaps its staging table in only when no document failed.
Stage ==
    /\ pc = "stage"
    /\ \E bad \in SUBSET todo :
        /\ Failing(todo, bad)
        /\ \/ /\ bad = {} /\ pc' = "replace" /\ UNCHANGED failed
              /\ ext' = refs /\ tables' = tables \cup {"ext"}
           \/ /\ bad # {} /\ failed' = TRUE /\ pc' \in {"chunk", "idle"}
              /\ UNCHANGED <<ext, tables>>
    /\ UNCHANGED <<world, extState, chunking, embedding, full, refs, todo, published, changes>>

Replace ==
    /\ pc = "replace" /\ pc' = "chunk"
    /\ extState' = refs
    /\ UNCHANGED <<world, tables, ext, chunking, embedding, run, bounds>>

-----------------------------------------------------------------------------
(* The chunk model.                                                        *)

\* Mutant: the places count from zero.
PiecesFromZero(d, v) ==
    {[key |-> [doc |-> d, place |-> i - 1, text |-> TextsOf[v][i]], from |-> v] :
        i \in DOMAIN TextsOf[v]}
Pieces(d, v) ==
    {[key |-> [doc |-> d, place |-> i, text |-> TextsOf[v][i]], from |-> v] :
        i \in DOMAIN TextsOf[v]}
PiecesOf(docs) == UNION {Pieces(d, ext[d]) : d \in docs}
OfDocs(rows, docs) == {r \in rows : r.key.doc \in docs}
WithKeys(rows, others) == {r \in rows : \E s \in others : s.key = r.key}

\* The chunks of removed documents go with their state, in one transaction.
ChunkStart ==
    /\ pc = "chunk" /\ "ext" \in tables
    /\ LET gone == IF full THEN {} ELSE Listed(chunkState) \ Listed(ext) IN
       /\ chunks' = chunks \ OfDocs(chunks, gone)
       /\ chunkState' = Merged(chunkState, Nothing, gone)
    /\ pc' = IF full THEN "chunk_full" ELSE "children"
    /\ UNCHANGED <<world, tables, extraction, embedding, run, bounds>>

Rechunked == {d \in Listed(ext) : chunkState[d] # ext[d]}
\* Mutant: only removed documents lose their old chunks.
SupersededNone == {}
Superseded == {d \in Rechunked : chunkState[d] # None}

\* replace_children: old chunks out, new ones in, state advanced, atomically.
ReplaceChildren ==
    /\ pc = "children" /\ pc' = "embed"
    /\ LET new == PiecesOf(Rechunked)
           kept == chunks \ OfDocs(chunks, Superseded)
       IN /\ chunks' = (kept \ WithKeys(kept, new)) \cup new
          /\ tables' = IF new = {} THEN tables ELSE tables \cup {"chunk"}
    /\ chunkState' = Merged(chunkState, ext, Rechunked)
    /\ UNCHANGED <<world, extraction, embedding, run, bounds>>

\* A frame without any chunk has no columns either, and may be refused.
ChunkFull ==
    /\ pc = "chunk_full"
    /\ \/ /\ chunks' = PiecesOf(Listed(ext)) /\ tables' = tables \cup {"chunk"}
          /\ pc' = "chunk_state"
       \/ /\ PiecesOf(Listed(ext)) = {} /\ pc' = "idle" /\ UNCHANGED <<chunks, tables>>
    /\ UNCHANGED <<world, extraction, chunkState, embedding, run, bounds>>

ChunkState ==
    /\ pc = "chunk_state" /\ pc' = "embed"
    /\ chunkState' = ext
    /\ UNCHANGED <<world, tables, extraction, chunks, embedding, run, bounds>>

-----------------------------------------------------------------------------
(* The embed model.                                                        *)

RecordOf(c) == [key |-> c.key, from |-> c.from, config |-> config]
Unembedded == {c \in chunks : RecordOf(c) \notin embedState}
GoneKeys == {r.key : r \in embedState} \ {c.key : c \in chunks}

\* Mutant: the text alone decides whether a vector is reused.
VectorOfSameText(c, rows) ==
    IF \E r \in rows : r.key = c.key
    THEN (CHOOSE r \in rows : r.key = c.key).vector
    ELSE <<c.key.text, config>>
\* A stored vector is reused when the hashes beside it say it embeds this text
\* under this configuration; otherwise the provider is asked.
VectorOf(c, rows) ==
    IF \E r \in rows : r.key = c.key /\ r.config = config
    THEN (CHOOSE r \in rows : r.key = c.key /\ r.config = config).vector
    ELSE <<c.key.text, config>>
Embedded(c, rows) ==
    [key |-> c.key, from |-> c.from, vector |-> VectorOf(c, rows), config |-> config]

\* A missing target is rebuilt like a full refresh.
EmbedStart ==
    /\ pc = "embed" /\ "chunk" \in tables
    /\ pc' = IF full \/ "embed" \notin tables THEN "embed_full" ELSE "publish"
    /\ UNCHANGED <<world, tables, extraction, chunking, embedding, run, bounds>>

\* Mutant: the rows are appended.
PublishAppending ==
    /\ pc = "publish" /\ pc' = "prune"
    /\ embeds' = embeds \cup {Embedded(c, embeds) : c \in Unembedded}
    /\ UNCHANGED <<world, tables, extraction, chunking, embedState, run, bounds>>
Publish ==
    /\ pc = "publish" /\ pc' = "prune"
    /\ embeds' = (embeds \ WithKeys(embeds, Unembedded))
                    \cup {Embedded(c, embeds) : c \in Unembedded}
    /\ UNCHANGED <<world, tables, extraction, chunking, embedState, run, bounds>>

\* Mutant: the state of removed records stays.
PruneRowsOnly ==
    /\ pc = "prune" /\ pc' = "embed_state"
    /\ embeds' = {r \in embeds : r.key \notin GoneKeys}
    /\ UNCHANGED <<world, tables, extraction, chunking, embedState, run, bounds>>
\* Rows and state of the records that are gone, in one transaction.
Prune ==
    /\ pc = "prune" /\ pc' = "embed_state"
    /\ embeds' = {r \in embeds : r.key \notin GoneKeys}
    /\ embedState' = {r \in embedState : r.key \notin GoneKeys}
    /\ UNCHANGED <<world, tables, extraction, chunking, run, bounds>>

EmbedState ==
    /\ pc = "embed_state" /\ pc' = "idle"
    /\ embedState' = (embedState \ WithKeys(embedState, Unembedded))
                        \cup {RecordOf(c) : c \in Unembedded}
    /\ UNCHANGED <<world, tables, extraction, chunking, embeds, run, bounds>>

EmbedFull ==
    /\ pc = "embed_full" /\ pc' = "embed_replace"
    /\ embeds' = {Embedded(c, {}) : c \in chunks}
    /\ tables' = tables \cup {"embed"}
    /\ UNCHANGED <<world, extraction, chunking, embedState, run, bounds>>

EmbedReplace ==
    /\ pc = "embed_replace" /\ pc' = "idle"
    /\ embedState' = {RecordOf(c) : c \in chunks}
    /\ UNCHANGED <<world, tables, extraction, chunking, embeds, run, bounds>>

-----------------------------------------------------------------------------
(* Runs that end early, and the world.                                     *)

\* An upstream table that does not exist ends the run.
Missing ==
    /\ \/ pc = "chunk" /\ "ext" \notin tables
       \/ pc = "embed" /\ "chunk" \notin tables
    /\ pc' = "idle"
    /\ UNCHANGED <<world, tables, extraction, chunking, embedding, run, bounds>>

\* An error, an interrupt or a crash: what was committed stays.
Interrupt ==
    /\ pc # "idle" /\ pc' = "idle"
    /\ faults < MaxFaults /\ faults' = faults + 1
    /\ UNCHANGED <<world, tables, extraction, chunking, embedding, run, changes>>

\* Every table is what the source says, and every state is that of its table.
Synced ==
    /\ ext = source /\ chunks = PiecesOf(Listed(source))
    /\ embeds = {Embedded(c, {}) : c \in chunks}
Settled ==
    /\ Synced
    /\ extState = ext /\ chunkState = ext /\ embedState = {RecordOf(c) : c \in chunks}

Change ==
    /\ changes < MaxChanges /\ changes' = changes + 1
    /\ SourceWaits => pc = "idle" /\ Settled
    /\ \/ \E d \in Docs, v \in Contents \cup {None} :
             source' = [source EXCEPT ![d] = v] /\ UNCHANGED config
       \/ pc = "idle" /\ config' \in Configs /\ UNCHANGED source
    /\ UNCHANGED <<setting, tables, extraction, chunking, embedding, pc, run, faults>>

Model ==
    \/ Flush \/ Record \/ Extracted \/ Stage \/ Replace
    \/ ChunkStart \/ ReplaceChildren \/ ChunkFull \/ ChunkState
    \/ EmbedStart \/ Publish \/ Prune \/ EmbedState \/ EmbedFull \/ EmbedReplace
    \/ Missing

Next ==
    \/ BeginFull \/ \E filter \in SUBSET Docs : Begin(filter)
    \/ Model \/ Exhaust \/ Interrupt \/ Change
Spec == Init /\ [][Next]_vars
\* The orchestrator keeps running the project, also without a filter and
\* without --full-refresh, and some runs are not cut short by a descendant's
\* skip: "the job of a periodic full (unfiltered) run".
FairSpec == Spec /\ WF_vars(Model) /\ SF_vars(Begin(Docs))

-----------------------------------------------------------------------------
(* Properties.                                                             *)

\* "State never advances before publication": what a step adds to the state of
\* a model is what its table holds.
StateFollowsRows ==
    [][/\ \A d \in Docs : extState'[d] \notin {None, extState[d]} => ext[d] = extState'[d]
       /\ \A r \in embedState' \ embedState :
             \E e \in embeds : e.key = r.key /\ e.from = r.from /\ e.config = r.config]_vars

\* Without full refreshes, a record with state has a row: a skipped record is
\* never a missing one.
SkippedHasRow ==
    ~FullRefresh =>
    /\ \A d \in Docs : extState[d] # None => ext[d] # None
    /\ \A r \in embedState : \E e \in embeds : e.key = r.key

\* Without full refreshes, chunks are those of the recorded input of their
\* document, no more and no fewer: re-chunking and pruning leave no orphan.
ChunksExact ==
    ~FullRefresh => \A d \in Docs :
        OfDocs(chunks, {d}) = IF chunkState[d] = None THEN {} ELSE Pieces(d, chunkState[d])

\* "Re-chunk changed ones without leaving orphan chunks": what an incremental
\* run of the chunk model leaves is cut from the current rows.
NoOrphanChunks == pc = "embed" /\ ~full => chunks \subseteq PiecesOf(Listed(ext))

\* The key of a table names one row.
KeysUnique ==
    /\ \A r, s \in chunks : r.key = s.key => r = s
    /\ \A r, s \in embeds : r.key = s.key => r = s

\* A vector embeds the text beside it under the configuration beside it, also
\* when it was taken over from an earlier row.
VectorsOwn == \A r \in embeds : r.vector = <<r.key.text, r.config>>

\* The tables of the three models hold one row for each key, the rows their states
\* record, and beside each vector what it embeds.
RowsExact == SkippedHasRow /\ ChunksExact /\ KeysUnique /\ VectorsOwn

\* Whatever failed in between, the tables and the states come back to what the
\* source says, if the source waits for it.
Converges == []<>(~SourceWaits \/ Settled)
=============================================================================
