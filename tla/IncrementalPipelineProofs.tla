---------------------- MODULE IncrementalPipelineProofs ----------------------
(***************************************************************************)
(* Theorems about IncrementalPipeline for any documents, contents, pieces, *)
(* flush sizes and environments: the state of a model never runs ahead of  *)
(* its rows, and the rows of the three tables stay exact.                  *)
(***************************************************************************)
EXTENDS IncrementalPipeline, FiniteSetTheorems, TLAPS

\* The control points of a run with --full-refresh only.
FullPoints == {"stage", "replace", "chunk_full", "chunk_state"}

\* Full refreshes are runs of environments that allow them, and only they, or a
\* run that found no table of vectors, rebuild a table.
ModeOK ==
    /\ full => FullRefresh
    /\ pc \in FullPoints => full
    /\ pc = "embed_full" => full \/ "embed" \notin tables

\* What a run of the extraction model is about to record is in its table.
FlushOK ==
    /\ todo \subseteq Listed(refs)
    /\ pc = "record" => \A d \in published : refs[d] # None /\ ext[d] = refs[d]
    /\ pc = "replace" => ext = refs

\* c was embedded under the current configuration.
Stored(c) == \E e \in embeds : e.key = c.key /\ e.from = c.from /\ e.config = config

\* What a run of the embed model is about to record is in its table.
EmbedOK ==
    /\ pc \in {"publish", "prune", "embed_state", "embed_replace"} => "embed" \in tables
    /\ "embed" \notin tables => embedState = {}
    /\ pc \in {"prune", "embed_state"} => \A c \in Unembedded : Stored(c)
    /\ pc = "embed_replace" => \A c \in chunks : Stored(c)


-----------------------------------------------------------------------------
(* Types.                                                                  *)

LEMMA MergedType ==
  ASSUME NEW rows \in Row, NEW new \in Row, NEW docs
  PROVE  Merged(rows, new, docs) \in Row
BY DEF Row, Merged

LEMMA NothingType == Nothing \in Row
BY DEF Nothing, Row

\* Pieces of a listed document are chunks of it.
LEMMA PiecesType ==
  ASSUME NEW d \in Docs, NEW v \in Contents
  PROVE  /\ Pieces(d, v) \subseteq Chunk
         /\ \A r \in Pieces(d, v) : r.key.doc = d /\ r.from = v
<1> SUFFICES ASSUME NEW i \in DOMAIN TextsOf[v]
             PROVE  [doc |-> d, place |-> i, text |-> TextsOf[v][i]] \in Key
  BY DEF Pieces, Chunk
<1> QED
  BY DEF Key, Places, Texts

LEMMA PiecesOfType ==
  ASSUME ext \in Row, NEW docs, docs \subseteq Listed(ext)
  PROVE  /\ PiecesOf(docs) \subseteq Chunk
         /\ \A r \in PiecesOf(docs) : r.key.doc \in docs /\ r.from = ext[r.key.doc]
<1>1. \A d \in docs : d \in Docs /\ ext[d] \in Contents
  BY DEF Listed, Row
<1>2. \A d \in docs : /\ Pieces(d, ext[d]) \subseteq Chunk
                      /\ \A r \in Pieces(d, ext[d]) : r.key.doc = d /\ r.from = ext[d]
  BY <1>1, PiecesType
<1> QED
  BY <1>2 DEF PiecesOf

\* A vector is reused only beside the text and the configuration it embeds.
LEMMA EmbeddedType ==
  ASSUME NEW c \in Chunk, NEW rows, rows \subseteq Embed, config \in Configs
  PROVE  /\ Embedded(c, rows) \in Embed
         /\ Embedded(c, rows).key = c.key /\ Embedded(c, rows).from = c.from
         /\ Embedded(c, rows).config = config
<1>1. VectorOf(c, rows) \in Texts \X Configs
  <2>1. CASE \E r \in rows : r.key = c.key /\ r.config = config
    <3> DEFINE r == CHOOSE r \in rows : r.key = c.key /\ r.config = config
    <3>1. r \in rows
      BY <2>1
    <3>2. r.vector \in Texts \X Configs
      BY <3>1 DEF Embed
    <3> QED
      BY <2>1, <3>2 DEF VectorOf
  <2>2. CASE ~\E r \in rows : r.key = c.key /\ r.config = config
    <3>1. c.key.text \in Texts
      BY DEF Chunk, Key
    <3> QED
      BY <2>2, <3>1 DEF VectorOf
  <2> QED
    BY <2>1, <2>2
<1> QED
  BY <1>1 DEF Embedded, Embed, Chunk

LEMMA EmbeddedVector ==
  ASSUME NEW c \in Chunk, NEW rows, rows \subseteq Embed,
         \A r \in rows : r.vector = <<r.key.text, r.config>>
  PROVE  Embedded(c, rows).vector = <<c.key.text, config>>
<1>1. CASE \E r \in rows : r.key = c.key /\ r.config = config
  <2> DEFINE r == CHOOSE r \in rows : r.key = c.key /\ r.config = config
  <2>1. r \in rows /\ r.key = c.key /\ r.config = config
    BY <1>1
  <2> QED
    BY <1>1, <2>1 DEF VectorOf, Embedded
<1>2. CASE ~\E r \in rows : r.key = c.key /\ r.config = config
  BY <1>2 DEF VectorOf, Embedded
<1> QED
  BY <1>1, <1>2

LEMMA RecordType ==
  ASSUME NEW c \in Chunk, config \in Configs
  PROVE  RecordOf(c) \in EmbedRecord
BY DEF RecordOf, EmbedRecord, Chunk

\* The environment of a behaviour stays.
LEMMA SettingStays ==
  ASSUME [Next]_vars
  PROVE  /\ UNCHANGED <<setting, Configs, FullRefresh, MaxFaults>>
         /\ Embed' = Embed /\ EmbedRecord' = EmbedRecord
<1>1. setting' = setting
  BY DEF Next, Model, vars, world, Begin, BeginFull, Flush, Record, Extracted, Stage, Replace,
         ChunkStart, ReplaceChildren, ChunkFull, ChunkState, EmbedStart, Publish, Prune,
         EmbedState, EmbedFull, EmbedReplace, Missing, Exhaust, Interrupt, Change
<1> QED
  BY <1>1 DEF Configs, FullRefresh, MaxFaults, Embed, EmbedRecord

LEMMA TypeInit == Init => TypeOK
<1> SUFFICES ASSUME Init PROVE TypeOK
  OBVIOUS
<1>1. setting.maxFaults \in Nat /\ MaxChanges \in Nat
  BY SettingAssumption, BoundAssumption DEF Init
<1>2. /\ setting \in Settings /\ source \in Row /\ config \in Configs
      /\ changes \in 0..MaxChanges /\ faults \in 0..MaxFaults
  BY <1>1 DEF Init, MaxFaults
<1>3. /\ ext \in Row /\ extState \in Row /\ chunkState \in Row /\ refs \in Row
      /\ pc \in Points
  BY NothingType DEF Init, Points
<1> QED
  BY <1>2, <1>3 DEF Init, TypeOK

\* The faults of a batch are counted within the bound.
LEMMA FailingType ==
  ASSUME TypeOK, NEW batch, batch \subseteq Docs, NEW bad, Failing(batch, bad)
  PROVE  bad \subseteq batch /\ faults' \in 0..MaxFaults
<1>1. bad \ {d \in batch : source[d] # refs[d]} \subseteq Docs
  BY DEF Failing
<1>2. Cardinality(bad \ {d \in batch : source[d] # refs[d]}) \in Nat
  BY <1>1, DocsAssumption, FS_Subset, FS_CardinalityType
<1> QED
  BY <1>2 DEF TypeOK, Failing

LEMMA TypeStep == TypeOK /\ [Next]_vars => TypeOK'
<1> SUFFICES ASSUME TypeOK, [Next]_vars PROVE TypeOK'
  OBVIOUS
<1>0. UNCHANGED <<setting, Configs, MaxFaults>> /\ Embed' = Embed /\ EmbedRecord' = EmbedRecord
  BY SettingStays
<1>a. MaxFaults \in Nat
  BY SettingAssumption DEF TypeOK, MaxFaults
<1> USE <1>0 DEF TypeOK, world, extraction, chunking, embedding, run, bounds, Points
<1>1. CASE UNCHANGED vars
  BY <1>1 DEF vars
<1>2. ASSUME NEW filter \in SUBSET Docs, Begin(filter) PROVE TypeOK'
  <2>1. [d \in Docs |-> IF d \in filter THEN source[d] ELSE None] \in Row
    BY DEF Row
  <2> QED
    BY <1>2, <2>1, MergedType, NothingType DEF Begin, Listed
<1>3. CASE BeginFull
  BY <1>3 DEF BeginFull, Listed
<1>4. CASE Flush
  <2>1. PICK batch \in SUBSET todo, bad \in SUBSET todo :
          /\ Failing(batch, bad) /\ batch \subseteq Docs
          /\ ext' = Merged(ext, refs, batch \ bad)
          /\ tables' = IF batch = bad THEN tables ELSE tables \cup {"ext"}
          /\ todo' = todo \ batch /\ published' = batch \ bad
          /\ failed' = (failed \/ bad # {})
          /\ pc' = IF batch = bad THEN "flush" ELSE "record"
          /\ UNCHANGED <<world, extState, chunking, embedding, full, refs, changes>>
    BY <1>4 DEF Flush
  <2>2. faults' \in 0..MaxFaults
    BY <2>1, FailingType
  <2>3. Merged(ext, refs, batch \ bad) \in Row
    BY MergedType
  <2> QED
    BY <2>1, <2>2, <2>3
<1>5. CASE Record
  BY <1>5, MergedType DEF Record
<1>6. CASE Extracted
  BY <1>6 DEF Extracted, GoOn
<1>7. CASE Stage
  <2>1. PICK bad \in SUBSET todo : Failing(todo, bad) /\ failed' \in BOOLEAN
    BY <1>7 DEF Stage
  <2>2. faults' \in 0..MaxFaults
    BY <2>1, FailingType
  <2> QED
    BY <1>7, <2>2 DEF Stage
<1>8. CASE Replace
  BY <1>8 DEF Replace
<1>9. CASE ChunkStart
  BY <1>9, MergedType, NothingType DEF ChunkStart
<1>10. CASE ReplaceChildren
  <2>1. PiecesOf(Rechunked) \subseteq Chunk
    BY PiecesOfType DEF Rechunked
  <2> QED
    BY <1>10, <2>1, MergedType DEF ReplaceChildren
<1>11. CASE ChunkFull
  BY <1>11, PiecesOfType DEF ChunkFull
<1>12. CASE ChunkState
  BY <1>12 DEF ChunkState
<1>13. CASE EmbedStart
  BY <1>13 DEF EmbedStart
<1>14. CASE Publish
  <2>1. {Embedded(c, embeds) : c \in Unembedded} \subseteq Embed
    BY EmbeddedType DEF Unembedded
  <2> QED
    BY <1>14, <2>1 DEF Publish
<1>15. CASE Prune
  BY <1>15 DEF Prune
<1>16. CASE EmbedState
  <2>1. {RecordOf(c) : c \in Unembedded} \subseteq EmbedRecord
    BY RecordType DEF Unembedded
  <2> QED
    BY <1>16, <2>1 DEF EmbedState
<1>17. CASE EmbedFull
  <2>1. {Embedded(c, {}) : c \in chunks} \subseteq Embed
    BY EmbeddedType
  <2> QED
    BY <1>17, <2>1 DEF EmbedFull
<1>18. CASE EmbedReplace
  <2>1. {RecordOf(c) : c \in chunks} \subseteq EmbedRecord
    BY RecordType
  <2> QED
    BY <1>18, <2>1 DEF EmbedReplace
<1>19. CASE Missing
  BY <1>19 DEF Missing
<1>20. CASE Exhaust
  BY <1>a, <1>20 DEF Exhaust
<1>21. CASE Interrupt
  BY <1>a, <1>21 DEF Interrupt
<1>22. CASE Change
  <2>1. changes' \in 0..MaxChanges
    BY <1>22, BoundAssumption DEF Change
  <2>2. source' \in Row /\ config' \in Configs
    BY <1>22 DEF Change, Row
  <2> QED
    BY <1>22, <2>1, <2>2 DEF Change
<1> QED
  BY <1>1, <1>2, <1>3, <1>4, <1>5, <1>6, <1>7, <1>8, <1>9, <1>10, <1>11, <1>12, <1>13,
     <1>14, <1>15, <1>16, <1>17, <1>18, <1>19, <1>20, <1>21, <1>22 DEF Next, Model

-----------------------------------------------------------------------------
(* The modes of runs, and what a run is about to record.                   *)

LEMMA ModeStep == TypeOK /\ ModeOK /\ [Next]_vars => ModeOK'
<1> SUFFICES ASSUME TypeOK, ModeOK, [Next]_vars PROVE ModeOK'
  OBVIOUS
<1>0. FullRefresh' = FullRefresh
  BY SettingStays
<1> USE <1>0 DEF ModeOK, FullPoints, run
<1>1. CASE UNCHANGED vars
  BY <1>1 DEF vars
<1>2. CASE BeginFull \/ \E filter \in SUBSET Docs : Begin(filter)
  BY <1>2 DEF Begin, BeginFull
<1>3. CASE Flush \/ Record \/ Extracted \/ Stage \/ Replace
  <2>1. CASE Flush
    <3>1. pc' \in {"flush", "record"} /\ full' = full
      BY <2>1 DEF Flush
    <3> QED
      BY <3>1
  <2>2. CASE Stage
    BY <2>2 DEF Stage
  <2> QED
    BY <1>3, <2>1, <2>2 DEF Record, Extracted, GoOn, Replace
<1>4. CASE ChunkStart \/ ReplaceChildren \/ ChunkFull \/ ChunkState
  BY <1>4 DEF ChunkStart, ReplaceChildren, ChunkFull, ChunkState
<1>5. CASE EmbedStart \/ Publish \/ Prune \/ EmbedState \/ EmbedFull \/ EmbedReplace
  BY <1>5 DEF EmbedStart, Publish, Prune, EmbedState, EmbedFull, EmbedReplace
<1>6. CASE Missing \/ Exhaust \/ Interrupt \/ Change
  BY <1>6 DEF Missing, Exhaust, Interrupt, Change
<1> QED
  BY <1>1, <1>2, <1>3, <1>4, <1>5, <1>6 DEF Next, Model

LEMMA FlushStep == TypeOK /\ ModeOK /\ FlushOK /\ [Next]_vars => FlushOK'
<1> SUFFICES ASSUME TypeOK, ModeOK, FlushOK, [Next]_vars PROVE FlushOK'
  OBVIOUS
<1> USE DEF FlushOK, run, extraction
<1>1. CASE UNCHANGED vars
  BY <1>1 DEF vars, Listed
<1>2. ASSUME NEW filter \in SUBSET Docs, Begin(filter) PROVE FlushOK'
  BY <1>2 DEF Begin, Listed
<1>3. CASE BeginFull
  BY <1>3 DEF BeginFull, Listed
<1>4. CASE Flush
  <2>1. PICK batch \in SUBSET todo, bad \in SUBSET todo :
          /\ ext' = Merged(ext, refs, batch \ bad)
          /\ todo' = todo \ batch /\ published' = batch \ bad
          /\ pc' \in {"flush", "record"} /\ refs' = refs
    BY <1>4 DEF Flush
  <2>2. \A d \in batch \ bad : d \in Docs /\ refs[d] # None /\ ext'[d] = refs[d]
    BY <2>1 DEF Merged, Listed
  <2> QED
    BY <2>1, <2>2 DEF Listed
<1>5. CASE Record \/ Extracted \/ Stage \/ Replace
  BY <1>5 DEF Record, Extracted, GoOn, Stage, Replace, Listed
<1>6. CASE ChunkStart \/ ReplaceChildren \/ ChunkFull \/ ChunkState
  BY <1>6 DEF ChunkStart, ReplaceChildren, ChunkFull, ChunkState, Listed
<1>7. CASE EmbedStart \/ Publish \/ Prune \/ EmbedState \/ EmbedFull \/ EmbedReplace
  BY <1>7 DEF EmbedStart, Publish, Prune, EmbedState, EmbedFull, EmbedReplace, Listed
<1>8. CASE Missing \/ Exhaust \/ Interrupt \/ Change
  BY <1>8 DEF Missing, Exhaust, Interrupt, Change, Listed
<1> QED
  BY <1>1, <1>2, <1>3, <1>4, <1>5, <1>6, <1>7, <1>8 DEF Next, Model

\* Publishing stores a row for every chunk that has none yet.
LEMMA PublishStores ==
  ASSUME TypeOK, Publish
  PROVE  \A c \in Unembedded : Stored(c)'
<1> SUFFICES ASSUME NEW c \in Unembedded PROVE Stored(c)'
  OBVIOUS
<1>1. c \in Chunk /\ config' = config
  BY DEF TypeOK, Unembedded, Publish, world
<1>2. Embedded(c, embeds) \in embeds'
  BY DEF Publish
<1> QED
  BY <1>1, <1>2, EmbeddedType DEF Stored, TypeOK

\* Pruning takes no row of a chunk that is there.
LEMMA PruneKeeps ==
  ASSUME TypeOK, Prune, NEW c \in chunks, Stored(c)
  PROVE  Stored(c)'
<1>1. c.key \notin GoneKeys
  BY DEF GoneKeys
<1> QED
  BY <1>1 DEF Prune, Stored, world

LEMMA EmbedStep == TypeOK /\ ModeOK /\ EmbedOK /\ [Next]_vars => EmbedOK'
<1> SUFFICES ASSUME TypeOK, ModeOK, EmbedOK, [Next]_vars PROVE EmbedOK'
  OBVIOUS
<1> USE DEF EmbedOK, run, embedding, chunking, world
<1>1. CASE UNCHANGED vars
  BY <1>1 DEF vars, Unembedded, RecordOf, Stored
<1>2. CASE BeginFull \/ \E filter \in SUBSET Docs : Begin(filter)
  BY <1>2 DEF Begin, BeginFull
<1>3. CASE Flush \/ Record \/ Extracted \/ Stage \/ Replace
  BY <1>3 DEF Flush, Record, Extracted, GoOn, Stage, Replace
<1>4. CASE ChunkStart \/ ReplaceChildren \/ ChunkFull \/ ChunkState
  BY <1>4 DEF ChunkStart, ReplaceChildren, ChunkFull, ChunkState
<1>5. CASE EmbedStart
  BY <1>5 DEF EmbedStart
<1>6. CASE Publish
  <2>1. Unembedded' = Unembedded
    BY <1>6 DEF Publish, Unembedded, RecordOf
  <2>2. \A c \in Unembedded' : Stored(c)'
    BY <1>6, <2>1, PublishStores
  <2> QED
    BY <1>6, <2>2 DEF Publish
<1>7. CASE Prune
  <2>1. Unembedded' = Unembedded
    <3>1. \A c \in chunks : RecordOf(c) \in embedState' <=> RecordOf(c) \in embedState
      BY <1>7 DEF Prune, GoneKeys, RecordOf
    <3> QED
      BY <1>7, <3>1 DEF Prune, Unembedded, RecordOf
  <2>2. \A c \in Unembedded' : Stored(c)'
    BY <1>7, <2>1, PruneKeeps DEF Prune, Unembedded
  <2> QED
    BY <1>7, <2>2 DEF Prune
<1>8. CASE EmbedState
  BY <1>8 DEF EmbedState
<1>9. CASE EmbedFull
  <2>1. \A c \in chunks : Stored(c)'
    <3> SUFFICES ASSUME NEW c \in chunks PROVE Stored(c)'
      OBVIOUS
    <3>1. Embedded(c, {}) \in embeds' /\ config' = config
      BY <1>9 DEF EmbedFull
    <3> QED
      BY <3>1, EmbeddedType DEF Stored, TypeOK
  <2> QED
    BY <1>9, <2>1 DEF EmbedFull
<1>10. CASE EmbedReplace
  BY <1>10 DEF EmbedReplace
<1>11. CASE Missing \/ Exhaust \/ Interrupt
  BY <1>11 DEF Missing, Exhaust, Interrupt
<1>12. CASE Change
  <2>1. CASE pc = "idle"
    BY <1>12, <2>1 DEF Change
  <2>2. CASE pc # "idle"
    BY <1>12, <2>2 DEF Change, Unembedded, RecordOf, Stored
  <2> QED
    BY <2>1, <2>2
<1> QED
  BY <1>1, <1>2, <1>3, <1>4, <1>5, <1>6, <1>7, <1>8, <1>9, <1>10, <1>11, <1>12
     DEF Next, Model

-----------------------------------------------------------------------------
(* State follows rows.                                                     *)

\* What a step adds to the extraction state is a row of the table.
LEMMA ExtractionFollows ==
  ASSUME TypeOK, FlushOK, [Next]_vars, NEW d \in Docs, extState'[d] \notin {None, extState[d]}
  PROVE  ext[d] = extState'[d]
<1> USE DEF extraction
<1>1. CASE \E filter \in SUBSET Docs : Begin(filter)
  BY <1>1 DEF Begin, Merged, Nothing
<1>2. CASE Record
  BY <1>2 DEF Record, Merged, FlushOK
<1>3. CASE Replace
  BY <1>3 DEF Replace, FlushOK
<1>4. CASE ~Record /\ ~Replace /\ ~\E filter \in SUBSET Docs : Begin(filter)
  <2>1. extState' = extState
    BY <1>4 DEF Next, Model, vars, BeginFull, Flush, Extracted, Stage, ChunkStart,
                ReplaceChildren, ChunkFull, ChunkState, EmbedStart, Publish, Prune, EmbedState,
                EmbedFull, EmbedReplace, Missing, Exhaust, Interrupt, Change
  <2> QED
    BY <2>1
<1> QED
  BY <1>1, <1>2, <1>3, <1>4

\* What a step adds to the embedding state is a row of the table.
LEMMA EmbeddingFollows ==
  ASSUME TypeOK, EmbedOK, [Next]_vars, NEW r \in embedState' \ embedState
  PROVE  \E e \in embeds : e.key = r.key /\ e.from = r.from /\ e.config = r.config
<1> USE DEF embedding
<1>1. CASE EmbedState
  <2>1. PICK c \in Unembedded : r = RecordOf(c)
    BY <1>1 DEF EmbedState
  <2>2. Stored(c)
    BY <1>1 DEF EmbedOK, EmbedState
  <2> QED
    BY <2>1, <2>2 DEF Stored, RecordOf
<1>2. CASE EmbedReplace
  <2>1. PICK c \in chunks : r = RecordOf(c)
    BY <1>2 DEF EmbedReplace
  <2>2. Stored(c)
    BY <1>2 DEF EmbedOK, EmbedReplace
  <2> QED
    BY <2>1, <2>2 DEF Stored, RecordOf
<1>3. CASE ~EmbedState /\ ~EmbedReplace
  <2>1. embedState' \subseteq embedState
    BY <1>3 DEF Next, Model, vars, Begin, BeginFull, Flush, Record, Extracted, Stage, Replace,
                ChunkStart, ReplaceChildren, ChunkFull, ChunkState, EmbedStart, Publish, Prune,
                EmbedFull, Missing, Exhaust, Interrupt, Change
  <2> QED
    BY <2>1
<1> QED
  BY <1>1, <1>2, <1>3

LEMMA FollowInit == Init => TypeOK /\ ModeOK /\ FlushOK /\ EmbedOK
BY TypeInit DEF Init, ModeOK, FullPoints, FlushOK, EmbedOK

LEMMA FollowStep ==
  TypeOK /\ ModeOK /\ FlushOK /\ EmbedOK /\ [Next]_vars
    => TypeOK' /\ ModeOK' /\ FlushOK' /\ EmbedOK'
BY TypeStep, ModeStep, FlushStep, EmbedStep

\* TypeOK: rows, states and what a run remembers keep their types in every step
\* of the extraction, chunk and embed models.
THEOREM PipelineTypeCorrect == Spec => []TypeOK
<1> QED
  BY TypeInit, TypeStep, PTL DEF Spec

\* StateFollowsRows: "state never advances before publication"; whatever fails
\* and wherever a run is interrupted, what a step records in the state of the
\* extraction or the embed model is a row of its table (execution/extraction.py,
\* execution/embed.py).
THEOREM StateNeverAhead == Spec => StateFollowsRows
<1> DEFINE Step ==
      /\ \A d \in Docs : extState'[d] \notin {None, extState[d]} => ext[d] = extState'[d]
      /\ \A r \in embedState' \ embedState :
            \E e \in embeds : e.key = r.key /\ e.from = r.from /\ e.config = r.config
<1>1. TypeOK /\ ModeOK /\ FlushOK /\ EmbedOK /\ [Next]_vars => [Step]_vars
  BY ExtractionFollows, EmbeddingFollows
<1> QED
  BY FollowInit, FollowStep, <1>1, PTL DEF Spec, StateFollowsRows

-----------------------------------------------------------------------------
(* Exact rows.                                                             *)

\* The pieces of a set of documents have keys of their own.
LEMMA PiecesUnique ==
  ASSUME ext \in Row, NEW docs, docs \subseteq Listed(ext),
         NEW r \in PiecesOf(docs), NEW s \in PiecesOf(docs), r.key = s.key
  PROVE  r = s
<1>1. r \in Chunk /\ s \in Chunk /\ r.from = s.from
  BY PiecesOfType
<1> QED
  BY <1>1 DEF Chunk

\* The pieces of a set of documents that belong to one of them.
LEMMA PiecesOfOne ==
  ASSUME ext \in Row, NEW docs, docs \subseteq Listed(ext), NEW d \in Docs
  PROVE  OfDocs(PiecesOf(docs), {d}) = IF d \in docs THEN Pieces(d, ext[d]) ELSE {}
<1>1. \A e \in docs : \A r \in Pieces(e, ext[e]) : r.key.doc = e
  BY PiecesType DEF Listed, Row
<1> QED
  BY <1>1 DEF PiecesOf, OfDocs

ChunkKeysUnique == \A r, s \in chunks : r.key = s.key => r = s
EmbedKeysUnique == \A r, s \in embeds : r.key = s.key => r = s

LEMMA ChunkKeysStep == TypeOK /\ ChunkKeysUnique /\ [Next]_vars => ChunkKeysUnique'
<1> SUFFICES ASSUME TypeOK, ChunkKeysUnique, [Next]_vars PROVE ChunkKeysUnique'
  OBVIOUS
<1> USE DEF ChunkKeysUnique
<1>0. ext \in Row
  BY DEF TypeOK
<1>1. CASE ReplaceChildren
  <2> DEFINE new == PiecesOf(Rechunked)
             kept == chunks \ OfDocs(chunks, Superseded)
  <2>1. chunks' = (kept \ WithKeys(kept, new)) \cup new
    BY <1>1 DEF ReplaceChildren
  <2>2. \A r, s \in new : r.key = s.key => r = s
    BY <1>0, PiecesUnique DEF Rechunked
  <2>3. \A r \in kept \ WithKeys(kept, new), s \in new : r.key # s.key
    BY DEF WithKeys
  <2> HIDE DEF new
  <2> QED
    BY <2>1, <2>2, <2>3
<1>2. CASE ChunkFull
  <2>1. \A r, s \in PiecesOf(Listed(ext)) : r.key = s.key => r = s
    BY <1>0, PiecesUnique
  <2> QED
    BY <1>2, <2>1 DEF ChunkFull
<1>3. CASE ~ReplaceChildren /\ ~ChunkFull
  <2>1. chunks' \subseteq chunks
    BY <1>3 DEF Next, Model, vars, chunking, Begin, BeginFull, Flush, Record, Extracted, Stage,
                Replace, ChunkStart, ChunkState, EmbedStart, Publish, Prune, EmbedState,
                EmbedFull, EmbedReplace, Missing, Exhaust, Interrupt, Change
  <2> QED
    BY <2>1
<1> QED
  BY <1>1, <1>2, <1>3

\* The rows of vectors change by publishing, rebuilding and pruning only.
LEMMA EmbedsChange ==
  ASSUME [Next]_vars, ~Publish, ~EmbedFull
  PROVE  embeds' \subseteq embeds
BY DEF Next, Model, vars, embedding, Begin, BeginFull, Flush, Record, Extracted, Stage,
       Replace, ChunkStart, ReplaceChildren, ChunkFull, ChunkState, EmbedStart, Prune,
       EmbedState, EmbedReplace, Missing, Exhaust, Interrupt, Change

LEMMA EmbedKeysStep ==
  TypeOK /\ ChunkKeysUnique /\ EmbedKeysUnique /\ [Next]_vars => EmbedKeysUnique'
<1> SUFFICES ASSUME TypeOK, ChunkKeysUnique, EmbedKeysUnique, [Next]_vars
             PROVE  EmbedKeysUnique'
  OBVIOUS
<1> USE DEF EmbedKeysUnique
<1>0. \A c \in chunks : c \in Chunk /\ \A rows : rows \subseteq Embed => Embedded(c, rows).key = c.key
  BY EmbeddedType DEF TypeOK
<1>1. CASE Publish
  <2> DEFINE new == {Embedded(c, embeds) : c \in Unembedded}
             old == embeds \ WithKeys(embeds, Unembedded)
  <2>1. embeds' = old \cup new /\ embeds \subseteq Embed
    BY <1>1 DEF Publish, TypeOK
  <2>2. \A r, s \in new : r.key = s.key => r = s
    BY <1>0, <2>1 DEF Unembedded, ChunkKeysUnique
  <2>3. \A r \in old, s \in new : r.key # s.key
    BY <1>0, <2>1 DEF WithKeys, Unembedded
  <2> HIDE DEF new
  <2> QED
    BY <2>1, <2>2, <2>3
<1>2. CASE EmbedFull
  <2>1. \A r, s \in {Embedded(c, {}) : c \in chunks} : r.key = s.key => r = s
    BY <1>0 DEF ChunkKeysUnique
  <2> QED
    BY <1>2, <2>1 DEF EmbedFull
<1>3. CASE ~Publish /\ ~EmbedFull
  BY <1>3, EmbedsChange
<1> QED
  BY <1>1, <1>2, <1>3

LEMMA VectorsStep == TypeOK /\ VectorsOwn /\ [Next]_vars => VectorsOwn'
<1> SUFFICES ASSUME TypeOK, VectorsOwn, [Next]_vars PROVE VectorsOwn'
  OBVIOUS
<1>0. ASSUME NEW c \in chunks, NEW rows, rows \subseteq embeds
      PROVE  LET e == Embedded(c, rows) IN e.vector = <<e.key.text, e.config>>
  <2>1. /\ c \in Chunk /\ rows \subseteq Embed /\ config \in Configs
        /\ \A r \in rows : r.vector = <<r.key.text, r.config>>
    BY <1>0 DEF TypeOK, VectorsOwn
  <2> QED
    BY <2>1, EmbeddedType, EmbeddedVector
<1>1. CASE Publish
  BY <1>0, <1>1 DEF Publish, Unembedded, VectorsOwn
<1>2. CASE EmbedFull
  BY <1>0, <1>2 DEF EmbedFull, VectorsOwn
<1>3. CASE ~Publish /\ ~EmbedFull
  BY <1>3, EmbedsChange DEF VectorsOwn
<1> QED
  BY <1>1, <1>2, <1>3

\* Without full refreshes no run is one, and its control points are not reached.
LEMMA NeverFull ==
  ASSUME ModeOK, ~FullRefresh
  PROVE  ~full /\ pc \notin FullPoints /\ (pc = "embed_full" => "embed" \notin tables)
BY DEF ModeOK

ChunksRecorded(d) ==
    OfDocs(chunks, {d}) = IF chunkState[d] = None THEN {} ELSE Pieces(d, chunkState[d])

LEMMA ChunksStep == TypeOK /\ ModeOK /\ ChunksExact /\ [Next]_vars => ChunksExact'
<1> SUFFICES ASSUME TypeOK, ModeOK, ~FullRefresh, [Next]_vars, NEW d \in Docs,
                    \A e \in Docs : ChunksRecorded(e)
             PROVE  ChunksRecorded(d)'
  BY SettingStays DEF ChunksExact, ChunksRecorded
<1>0. /\ ext \in Row /\ chunkState \in Row /\ ~full /\ pc \notin FullPoints
      /\ ChunksRecorded(d)
  BY NeverFull DEF TypeOK
<1>1. CASE ChunkStart
  <2> DEFINE gone == Listed(chunkState) \ Listed(ext)
  <2>1. /\ chunks' = chunks \ OfDocs(chunks, gone)
        /\ chunkState' = Merged(chunkState, Nothing, gone)
    BY <1>0, <1>1 DEF ChunkStart
  <2>2. OfDocs(chunks', {d}) = IF d \in gone THEN {} ELSE OfDocs(chunks, {d})
    BY <2>1 DEF OfDocs
  <2>3. chunkState'[d] = IF d \in gone THEN None ELSE chunkState[d]
    BY <2>1 DEF Merged, Nothing
  <2> QED
    BY <1>0, <2>2, <2>3 DEF ChunksRecorded
<1>2. CASE ReplaceChildren
  <2> DEFINE new == PiecesOf(Rechunked)
             kept == chunks \ OfDocs(chunks, Superseded)
  <2>1. /\ chunks' = (kept \ WithKeys(kept, new)) \cup new
        /\ chunkState' = Merged(chunkState, ext, Rechunked)
    BY <1>2 DEF ReplaceChildren
  <2>2. /\ OfDocs(new, {d}) = IF d \in Rechunked THEN Pieces(d, ext[d]) ELSE {}
        /\ \A r \in new : r.key.doc \in Rechunked
    BY <1>0, PiecesOfOne, PiecesOfType DEF Rechunked
  <2> HIDE DEF new
  <2>3. CASE d \in Rechunked
    <3>1. OfDocs(kept, {d}) = {}
      BY <1>0, <2>3 DEF OfDocs, Superseded, ChunksRecorded
    <3>2. OfDocs(chunks', {d}) = Pieces(d, ext[d])
      BY <2>1, <2>2, <2>3, <3>1 DEF OfDocs
    <3>3. chunkState'[d] = ext[d] /\ ext[d] # None
      BY <2>1, <2>3 DEF Merged, Rechunked, Listed
    <3> QED
      BY <3>2, <3>3 DEF ChunksRecorded
  <2>4. CASE d \notin Rechunked
    <3>1. OfDocs(chunks', {d}) = OfDocs(chunks, {d})
      <4>1. \A r \in chunks : r.key.doc = d => r \in kept \ WithKeys(kept, new)
        BY <2>2, <2>4 DEF OfDocs, Superseded, WithKeys
      <4> QED
        BY <2>1, <2>2, <2>4, <4>1 DEF OfDocs
    <3>2. chunkState'[d] = chunkState[d]
      BY <2>1, <2>4 DEF Merged
    <3> QED
      BY <1>0, <3>1, <3>2 DEF ChunksRecorded
  <2> QED
    BY <2>3, <2>4
<1>3. CASE ~ChunkStart /\ ~ReplaceChildren
  <2>1. UNCHANGED <<chunks, chunkState>>
    BY <1>0, <1>3 DEF FullPoints, Next, Model, vars, chunking, Begin, BeginFull, Flush, Record,
          Extracted, Stage, Replace, ChunkFull, ChunkState, EmbedStart, Publish, Prune,
          EmbedState, EmbedFull, EmbedReplace, Missing, Exhaust, Interrupt, Change
  <2> QED
    BY <1>0, <2>1 DEF ChunksRecorded
<1> QED
  BY <1>1, <1>2, <1>3

HasRow(d) == extState[d] # None => ext[d] # None
HasVector(r) == \E e \in embeds : e.key = r.key

LEMMA RowsStep ==
  ASSUME TypeOK, ModeOK, FlushOK, ~FullRefresh, [Next]_vars, NEW d \in Docs, HasRow(d)
  PROVE  HasRow(d)'
<1>0. /\ refs \in Row /\ ext \in Row /\ extState \in Row /\ todo \subseteq Listed(refs)
      /\ ~full /\ pc \notin FullPoints
  BY NeverFull DEF TypeOK, FlushOK
<1>1. CASE \E filter \in SUBSET Docs : Begin(filter)
  BY <1>1 DEF Begin, Merged, Nothing, HasRow
<1>2. CASE Flush
  <2>1. PICK docs \in SUBSET todo : ext' = Merged(ext, refs, docs) /\ extState' = extState
    BY <1>2 DEF Flush
  <2> QED
    BY <1>0, <2>1 DEF Merged, HasRow, Listed
<1>3. CASE Record
  BY <1>3 DEF Record, Merged, FlushOK, HasRow
<1>4. CASE ~Flush /\ ~Record /\ ~\E filter \in SUBSET Docs : Begin(filter)
  <2>1. UNCHANGED <<ext, extState>>
    BY <1>0, <1>4 DEF FullPoints, Next, Model, vars, extraction, BeginFull, Extracted, Stage,
          Replace, ChunkStart, ReplaceChildren, ChunkFull, ChunkState, EmbedStart, Publish,
          Prune, EmbedState, EmbedFull, EmbedReplace, Missing, Exhaust, Interrupt, Change
  <2> QED
    BY <2>1 DEF HasRow
<1> QED
  BY <1>1, <1>2, <1>3, <1>4

LEMMA VectorRowsStep ==
  ASSUME TypeOK, ModeOK, EmbedOK, ~FullRefresh, [Next]_vars,
         \A r \in embedState : HasVector(r), NEW r \in embedState'
  PROVE  HasVector(r)'
<1>0. ~full /\ pc \notin FullPoints /\ (pc = "embed_full" => embedState = {})
  BY NeverFull DEF EmbedOK
<1> USE DEF HasVector
<1>1. CASE Publish
  <2>1. r \in embedState /\ embeds \subseteq Embed
    BY <1>1 DEF Publish, TypeOK
  <2>2. PICK e \in embeds : e.key = r.key
    BY <2>1
  <2>3. CASE \E c \in Unembedded : c.key = e.key
    <3>1. PICK c \in Unembedded : c.key = e.key
      BY <2>3
    <3>2. Embedded(c, embeds).key = c.key
      BY <2>1, EmbeddedType DEF Unembedded, TypeOK
    <3> QED
      BY <1>1, <2>2, <3>1, <3>2 DEF Publish
  <2>4. CASE ~\E c \in Unembedded : c.key = e.key
    BY <1>1, <2>2, <2>4 DEF Publish, WithKeys
  <2> QED
    BY <2>3, <2>4
<1>2. CASE Prune
  BY <1>2 DEF Prune
<1>3. CASE EmbedFull
  BY <1>0, <1>3 DEF EmbedFull
<1>4. CASE ~Publish /\ ~Prune /\ ~EmbedFull
  <2>1. embeds' = embeds
    BY <1>4 DEF Next, Model, vars, embedding, Begin, BeginFull, Flush, Record, Extracted,
          Stage, Replace, ChunkStart, ReplaceChildren, ChunkFull, ChunkState, EmbedStart,
          EmbedState, EmbedReplace, Missing, Exhaust, Interrupt, Change
  <2>2. CASE r \in embedState
    BY <2>1, <2>2
  <2>3. CASE r \notin embedState
    BY <2>1, <2>3, EmbeddingFollows
  <2> QED
    BY <2>2, <2>3
<1> QED
  BY <1>1, <1>2, <1>3, <1>4

PipelineInv == TypeOK /\ ModeOK /\ FlushOK /\ EmbedOK /\ RowsExact

LEMMA ExactInit == Init => PipelineInv
BY FollowInit DEF Init, PipelineInv, RowsExact, SkippedHasRow, ChunksExact, KeysUnique,
                  VectorsOwn, Nothing, OfDocs

LEMMA ExactStep == PipelineInv /\ [Next]_vars => PipelineInv'
<1> SUFFICES ASSUME PipelineInv, [Next]_vars PROVE PipelineInv'
  OBVIOUS
<1> USE DEF PipelineInv, RowsExact
<1>1. TypeOK' /\ ModeOK' /\ FlushOK' /\ EmbedOK' /\ FullRefresh' = FullRefresh
  BY FollowStep, SettingStays
<1>2. SkippedHasRow'
  BY <1>1, RowsStep, VectorRowsStep DEF SkippedHasRow, HasRow, HasVector
<1>3. ChunksExact'
  BY ChunksStep
<1>4. KeysUnique'
  BY ChunkKeysStep, EmbedKeysStep DEF KeysUnique, ChunkKeysUnique, EmbedKeysUnique
<1>5. VectorsOwn'
  BY VectorsStep
<1> QED
  BY <1>1, <1>2, <1>3, <1>4, <1>5

\* RowsExact: whatever is filtered, changed, failed or interrupted, the tables of
\* the three models hold one row for each key, chunks of exactly the recorded
\* inputs, rows for what is skipped, and beside each vector the text and the
\* configuration it embeds (execution/extraction.py, chunk.py, embed.py).
THEOREM RowsStayExact == Spec => []RowsExact
<1>1. PipelineInv => RowsExact
  BY DEF PipelineInv
<1> QED
  BY ExactInit, ExactStep, <1>1, PTL DEF Spec

=============================================================================
