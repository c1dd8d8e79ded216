---------------------------- MODULE WarehouseProofs ----------------------------
(***************************************************************************)
(* Theorems about the warehouse adapters.  An adapter's call is a sequence *)
(* of statements, so the invariant follows it: Place says of each sequence *)
(* of statements that may be left what the statements before it have made  *)
(* of the tables.  What a statement does is proved once (Runs), for the    *)
(* statement that is executed and for the one whose answer is lost.        *)
(***************************************************************************)
EXTENDS WarehouseAdapters, FiniteSetTheorems, SequenceTheorems, TLAPS

------------------------------------------------------------------------------
(* Types.                                                                  *)

Rows == UNION {[K -> [Columns -> Nat]] : K \in SUBSET Keys}
Tables == [cols : SUBSET Columns, rows : Rows, form : {"plain", "part", "iceberg"}]
States == [Docs -> Nat]
Databases == [target : Tables, staging : Tables, replacement : Tables, state : States]

Statements ==
    {"create_or_replace", "load_truncate", "load_append", "stage", "stage_next", "swap",
     "drop_target", "rename_staging", "build", "rename_replacement", "create_target",
     "append_target", "append_staged", "create_missing", "reconcile", "check_keys",
     "check_watch", "delete_matching", "insert", "merge", "merge_sql", "delete_parents",
     "upsert_state", "script_children", "delete_keys", "delete_state", "script_delete",
     "verify_fence", "clear_state", "insert_state", "merge_scope", "drop_staging",
     "drop_replacement", "stage_records", "post_options", "count", "reject"}
Bracketed == Statements \cup {"begin", "commit"}

Readers ==
    [phase : {"idle", "generation", "started", "reading", "done", "failed"},
     table : Tables, seen : SUBSET Keys, touched : BOOLEAN]

\* BigQuery opens no transaction.
TypeOK ==
    /\ engine \in {"duckdb", "bigquery"}
    /\ db \in Databases /\ tx \in Databases \cup {NoTx}
    /\ call \in Asked[engine] \cup {Idle}
    /\ todo \in Seq(Bracketed)
    /\ engine = "bigquery" => tx = NoTx /\ todo \in Seq(Statements)
    /\ dropped \in BOOLEAN /\ failing \in BOOLEAN /\ lost \in BOOLEAN
    /\ ledger \in Nat /\ read \in Nat /\ calls \in Nat
    /\ last.table \in Tables /\ left \subseteq Tables
    /\ reader \in Readers
    /\ call # Idle => last.request = call

------------------------------------------------------------------------------
(* What is left of a program, and what was made of the tables by then.  r  *)
(* is the request, t0 the table it found, q what is left of its program, v *)
(* what is committed, x the open transaction, d whether the target was     *)
(* dropped for a swap.                                                     *)

Plan(r, t) == PlanSchemaChange(t.cols, r.cols, r.policy)
Fits(r, t) == Plan(r, t).ok
Made(r, t) == IF Exists(t) THEN t ELSE Table(r.cols, {}, Null, FormOf(r))
Wide(r, t) == Padded(Made(r, t), Plan(r, Made(r, t)).add)
Thinned(r, t) == Without(Wide(r, t), Changed(Wide(r, t), r))
Ready(r, t) == Exists(t) /\ Fits(r, t) /\ Plan(r, t).add = {}

\* The table that a merge starts from, and what it may make of it.
Base(r, t) == IF r.kind = "children" THEN Without(t, OfDocs(t, r.parents)) ELSE t
Gets(r, t) ==
    CASE r.kind = "incremental" -> Promised!Merges(r, t)
      [] r.kind = "sql_incremental" -> Promised!SqlMerges(r, t)
      [] r.kind = "children" -> Promised!Children(r, t)

Opened(v, x, t, s) == x = [v EXCEPT !.target = t, !.state = s]
Makes(r, v, t, s) == <<t, s>> \in Promised!Effects(r, v.target, v.state)

DuckSwap == <<"begin", "drop_target", "rename_staging", "commit">>

DuckReplaces(r, t0, q, v, x) ==
    /\ r.kind \in {"full", "sql_full"} /\ x = NoTx
    /\ \/ q = <<"reject">> /\ v.target = t0
       \/ q = <<"create_or_replace">> /\ v.target = t0 /\ r.cols # {}
       \/ q = <<>> /\ SameRows(v.target, Whole(r))

DuckReplacesChunks(r, t0, q, v, x) ==
    /\ r.kind = "chunks" /\ r.keys # {}
    /\ \/ /\ v.target = t0
          /\ \/ /\ x = NoTx
                /\ q \in {<<"stage">> \o (When(r.more # {}, <<"stage_next">>) \o DuckSwap),
                          <<"stage_next">> \o DuckSwap}
             \/ /\ v.staging = Whole(r)
                /\ \/ x = NoTx /\ q = DuckSwap
                   \/ x = v /\ q = <<"drop_target", "rename_staging", "commit">>
                   \/ x = [v EXCEPT !.target = Absent] /\ q = <<"rename_staging", "commit">>
                   \/ x = [v EXCEPT !.target = Whole(r), !.staging = Absent] /\ q = <<"commit">>
       \/ x = NoTx /\ q = <<>> /\ v.target = Whole(r)

\* A load without a chunk, a frame without a column (BigQuery).
Empties(r, q, v, x) ==
    /\ r.kind \in Replacing /\ r.cols = {} /\ x = NoTx
    /\ q \in {<<"drop_target">>, <<>>} /\ v.staging = Absent

AfterMerge(r) ==
    CASE r.kind = "incremental" -> <<"commit">>
      [] r.kind = "sql_incremental" -> <<"commit", "count", "drop_staging">>
      [] r.kind = "children" -> When(r.records # {}, <<"upsert_state">>) \o <<"commit">>

\* The statements that merge inside of a transaction.
DuckMerges(r, q, v, x) ==
    LET K == AfterMerge(r) t == Base(r, v.target) s == v.state
    IN  /\ r.kind \in Merging /\ r.clean
        /\ \/ /\ r.kind # "sql_incremental" /\ r.keys # {}
              /\ \/ q = MergeRows \o K /\ Opened(v, x, t, s)
                 \/ /\ q = <<"reconcile", "delete_matching", "insert">> \o K
                    /\ Opened(v, x, Made(r, t), s)
           \/ /\ Fits(r, Made(r, t))
              /\ IF r.kind = "sql_incremental" THEN Exists(t) ELSE r.keys # {}
              /\ \/ q = <<"delete_matching", "insert">> \o K /\ Opened(v, x, Wide(r, t), s)
                 \/ q = <<"insert">> \o K /\ Opened(v, x, Thinned(r, t), s)
           \/ q = K /\ \E w \in Gets(r, v.target) : Opened(v, x, w, s)

DuckIncrements(r, q, v, x) ==
    /\ r.kind = "incremental" /\ x = NoTx
    /\ \/ q \in {<<>>, <<"reject">>}
       \/ q = <<"begin">> \o (MergeRows \o <<"commit">>) /\ r.clean /\ r.keys # {}

SqlMerge == <<"delete_matching", "insert">> \o <<"commit", "count", "drop_staging">>

DuckIncrementsSql(r, q, v, x) ==
    /\ r.kind = "sql_incremental" /\ x = NoTx
    /\ \/ /\ Exists(v.target)
          /\ \/ q = <<"stage", "check_keys", "reconcile", "begin">> \o SqlMerge
             \/ q = <<"check_keys", "reconcile", "begin">> \o SqlMerge
             \/ q = <<"reconcile", "begin">> \o SqlMerge /\ r.clean
             \/ q = <<"begin">> \o SqlMerge /\ r.clean /\ Ready(r, v.target)
       \/ q \in {<<"count", "drop_staging">>, <<"drop_staging">>, <<>>}

DuckChildrenLeft(r) == When(r.keys # {}, MergeRows) \o AfterMerge(r)

DuckReplacesChildren(r, q, v, x) ==
    /\ r.kind = "children"
    /\ \/ x = NoTx /\ q \in {<<>>, <<"reject">>}
       \/ /\ x = NoTx /\ r.clean
          /\ q = <<"begin">> \o (When(Exists(v.target) /\ r.parents # {}, <<"delete_parents">>)
                                 \o DuckChildrenLeft(r))
       \/ x = v /\ r.clean /\ q = <<"delete_parents">> \o DuckChildrenLeft(r)
       \/ /\ r.clean /\ q = <<"commit">>
          /\ \E w \in Gets(r, v.target) : Opened(v, x, w, Recorded(v.state, r.records, r.value))

DuckDeletes(r, q, v, x) ==
    LET rest == When(r.records # {}, <<"delete_state">>) \o <<"commit">>
        t == Without(v.target, r.keys)
    IN  /\ r.kind = "delete"
        /\ \/ x = NoTx /\ q = <<>>
           \/ /\ x = NoTx
              /\ q = <<"begin">> \o (When(Exists(v.target) /\ r.keys # {}, <<"delete_keys">>) \o rest)
           \/ x = v /\ q = <<"delete_keys">> \o rest
           \/ Opened(v, x, t, v.state) /\ q = rest
           \/ Opened(v, x, t, Forgotten(v.state, r.records)) /\ q = <<"commit">>

ScopeRows == <<"clear_state", "insert_state", "commit">>

DuckReplacesScope(r, q, v, x) ==
    /\ r.kind = "scope"
    /\ \/ x = NoTx /\ q = <<>>
       \/ x = NoTx /\ q = <<"begin">> \o (When(r.fence # 0, <<"verify_fence">>) \o ScopeRows)
       \/ x = v /\ q \in {<<"verify_fence">> \o ScopeRows, ScopeRows}
       \/ Opened(v, x, v.target, NoState) /\ q = <<"insert_state", "commit">>
       \/ /\ r.clean /\ q = <<"commit">>
          /\ Opened(v, x, v.target, Recorded(NoState, r.records, r.value))

DuckPlace(r, t0, q, v, x) ==
    \/ DuckReplaces(r, t0, q, v, x) \/ DuckReplacesChunks(r, t0, q, v, x)
    \/ Empties(r, q, v, x) /\ r.kind = "chunks"
    \/ DuckMerges(r, q, v, x) \/ DuckIncrements(r, q, v, x) \/ DuckIncrementsSql(r, q, v, x)
    \/ DuckReplacesChildren(r, q, v, x) \/ DuckDeletes(r, q, v, x)
    \/ DuckReplacesScope(r, q, v, x)

Matching(r, t) == ~Exists(t) \/ ((r.layout = "part") <=> (t.form = "part"))
Fresh(r) == Table(r.cols \cup r.moreCols, {}, Null, "iceberg")

\* What follows the staging of a replacement.
SwapIn(r, t) ==
    CASE r.layout = "iceberg" /\ r.kind = "sql_full" ->
            <<"drop_target", "create_target", "append_staged", "drop_staging", "count">>
      [] r.layout = "iceberg" /\ r.kind = "chunks" ->
            <<"drop_target", "create_target", "append_staged", "drop_staging">>
      [] r.layout # "iceberg" /\ (r.layout = "none" \/ Matching(r, t)) -> <<"swap", "drop_staging">>
      [] OTHER -> IF r.kind = "full" THEN <<"post_options", "drop_target", "rename_staging">>
                  ELSE <<"build", "drop_target", "rename_replacement", "drop_staging">>

\* The statements before the target is touched.
BqStages(r, t0, q, v) ==
    LET mine == SwapIn(r, t0)
    IN  /\ v.target = t0
        /\ r.kind = "full" => r.layout \notin {"none", "iceberg"}
        /\ r.kind = "sql_full" => r.layout = "iceberg"
        /\ \/ q \in {<<"stage">> \o (When(r.more # {}, <<"stage_next">>) \o mine),
                     <<"stage_next">> \o mine}
           \/ q = mine /\ v.staging = Whole(r)
           \/ /\ ~Matching(r, t0) /\ r.layout \notin {"none", "iceberg"}
              /\ \/ r.kind = "full" /\ q = <<"drop_target", "rename_staging">> /\ v.staging = Whole(r)
                 \/ /\ r.kind = "chunks" /\ v.replacement = Whole(r)
                    /\ q = <<"drop_target", "rename_replacement", "drop_staging">>

BqReplaces(r, t0, q, v, d) ==
    /\ r.kind \in Replacing /\ r.cols # {}
    /\ \/ BqStages(r, t0, q, v)
       \/ /\ v.target = t0
          /\ \/ r.kind = "full" /\ r.layout = "none" /\ q = <<"load_truncate">>
             \/ r.kind = "sql_full" /\ r.layout # "iceberg" /\ q = <<"create_or_replace", "count">>
       \/ /\ d /\ r.layout # "iceberg"
          /\ \/ r.kind = "full" /\ q = <<"rename_staging">> /\ v.staging = Whole(r)
             \/ /\ r.kind = "chunks" /\ v.replacement = Whole(r)
                /\ q = <<"rename_replacement", "drop_staging">>
       \/ /\ r.layout = "iceberg"
          /\ \/ /\ r.kind = "full"
                /\ \/ q \in {<<"drop_target", "create_target", "append_target">>,
                             <<"create_target", "append_target">>}
                   \/ q = <<"append_target">> /\ v.target = Fresh(r)
             \/ /\ v.staging = Whole(r)
                /\ \/ q \in {<<"create_target", "append_staged", "drop_staging">>,
                             <<"create_target", "append_staged", "drop_staging", "count">>}
                   \/ /\ q \in {<<"append_staged", "drop_staging">>,
                                <<"append_staged", "drop_staging", "count">>}
                      /\ v.target = Fresh(r)
       \/ /\ q \in {<<"drop_staging">>, <<"drop_staging", "count">>, <<"count">>, <<>>}
          /\ SameRows(v.target, Whole(r))

BqIncrements(r, q, v) ==
    LET check == When(r.watch # {}, <<"check_watch">>) \o <<"merge", "drop_staging">>
    IN  /\ r.kind = "incremental"
        /\ \/ q \in {<<>>, <<"reject">>, <<"post_options">>, <<"drop_staging">>}
           \/ /\ r.clean /\ r.keys # {}
              /\ \/ /\ ~Exists(v.target)
                    /\ \/ r.layout = "iceberg" /\ q = <<"create_target", "append_target">>
                       \/ q = <<"load_append">> \o When(r.layout # "none", <<"post_options">>)
                 \/ r.layout = "iceberg" /\ q = <<"append_target">> /\ v.target = Fresh(r)
                 \/ Exists(v.target) /\ q = <<"reconcile", "stage">> \o check
                 \/ /\ Ready(r, v.target)
                    /\ q \in {<<"stage">> \o check, check, <<"merge", "drop_staging">>}

BqIncrementsSql(r, q, v) ==
    /\ r.kind = "sql_incremental"
    /\ \/ q \in {<<>>, <<"reject">>, <<"drop_staging">>}
       \/ /\ Exists(v.target)
          /\ \/ q \in {<<"stage", "check_keys", "reconcile", "merge_sql", "drop_staging">>,
                       <<"check_keys", "reconcile", "merge_sql", "drop_staging">>}
             \/ r.clean /\ q = <<"reconcile", "merge_sql", "drop_staging">>
             \/ r.clean /\ q = <<"merge_sql", "drop_staging">> /\ Ready(r, v.target)

ScriptLeft(r) ==
    When(r.parents # {} \/ r.keys # {} \/ r.records # {}, <<"script_children">>)
    \o When(r.keys # {}, <<"drop_staging">>)

BqReplacesChildren(r, q, v) ==
    /\ r.kind = "children"
    /\ \/ q \in {<<>>, <<"reject">>, <<"drop_staging">>}
       \/ /\ r.clean
          /\ \/ q = <<"upsert_state">> /\ r.keys = {} /\ ~Exists(v.target)
             \/ /\ q = <<"create_missing">> \o (When(r.keys # {}, <<"reconcile", "stage">>)
                                                \o ScriptLeft(r))
                /\ r.cols # {} /\ ~Exists(v.target)
             \/ /\ q = When(r.keys # {}, <<"reconcile", "stage">>) \o ScriptLeft(r)
                /\ Exists(v.target)
             \/ r.keys # {} /\ q = <<"stage">> \o ScriptLeft(r) /\ Ready(r, v.target)
             \/ /\ q = ScriptLeft(r) /\ Exists(v.target)
                /\ r.keys # {} => Ready(r, v.target)

BqDeletes(r, q) == r.kind = "delete" /\ q \in {<<"script_delete">>, <<>>}

BqReplacesScope(r, q) ==
    LET rows == <<"merge_scope", "drop_staging">>
        check == When(r.fence # 0, <<"verify_fence">>) \o rows
    IN  r.kind = "scope" /\ q \in {<<"stage_records">> \o check, check, rows, <<"drop_staging">>, <<>>}

BqPlace(r, t0, q, v, d) ==
    \/ Empties(r, q, v, NoTx) \/ BqReplaces(r, t0, q, v, d) \/ BqIncrements(r, q, v)
    \/ BqIncrementsSql(r, q, v) \/ BqReplacesChildren(r, q, v) \/ BqDeletes(r, q)
    \/ BqReplacesScope(r, q)

Place(e, r, t0, q, v, x, d) ==
    \/ e = "duckdb" /\ DuckPlace(r, t0, q, v, x)
    \/ e = "bigquery" /\ x = NoTx /\ BqPlace(r, t0, q, v, d)

\* What is left of a cleanup.
Cleanups ==
    {<<>>, <<"drop_staging">>, <<"drop_staging", "drop_replacement">>, <<"drop_replacement">>}

\* A call that failed: a replacement is there, whole, where no cleanup that is left takes it.
Cleaning(r, t0, q, v) ==
    /\ q \in Cleanups
    /\ r.kind \in Replacing /\ r.layout # "iceberg" =>
          \/ SameRows(v.target, Whole(r)) \/ SameRows(v.target, t0)
          \/ r.kind = "full" /\ r.cols # {} /\ q = <<>> /\ v.staging = Whole(r)
          \/ /\ r.kind = "chunks" /\ r.cols # {} /\ q \in {<<>>, <<"drop_staging">>}
             /\ v.replacement = Whole(r)
          \/ r.cols = {} /\ v.staging = Absent

Sane(t) == t.cols = {} => DOMAIN t.rows = {}

Where ==
    /\ Sane(db.target)
    /\ call # Idle =>
          IF failing THEN /\ tx = NoTx /\ todo \in Cleanups
                          /\ ~lost => Cleaning(call, last.table, todo, db)
          ELSE Place(engine, call, last.table, todo, db, tx, dropped)
    /\ call = Idle => todo = <<>> /\ tx = NoTx /\ ReplacementSurvives /\ ~failing
                      /\ db.staging = Absent /\ db.replacement = Absent

------------------------------------------------------------------------------
(* The operators on tables.                                                *)

LEMMA RowsElim ==
  ASSUME NEW f \in Rows
  PROVE  /\ DOMAIN f \subseteq Keys /\ f = [k \in DOMAIN f |-> f[k]]
         /\ \A k \in DOMAIN f : f[k] \in [Columns -> Nat]
  BY DEF Rows

LEMMA RowsIntro ==
  ASSUME NEW K \in SUBSET Keys, NEW F(_), \A k \in K : F(k) \in [Columns -> Nat]
  PROVE  [k \in K |-> F(k)] \in Rows
<1> DEFINE f == [k \in K |-> F(k)]
<1>1. f \in [K -> [Columns -> Nat]]
  OBVIOUS
<1> QED
  BY <1>1 DEF Rows

LEMMA RowTyped ==
  ASSUME NEW cols, NEW v \in Nat PROVE Row(cols, v) \in [Columns -> Nat]
  BY DEF Row, Null

LEMMA AbsentTyped == Absent \in Tables /\ Absent.rows = [k \in {} |-> Null]
<1>1. <<>> = [k \in {} |-> Null]
  OBVIOUS
<1>2. [k \in {} |-> Null] \in [{} -> [Columns -> Nat]]
  OBVIOUS
<1>3. <<>> \in Rows
  BY <1>1, <1>2 DEF Rows
<1> QED
  BY <1>1, <1>3 DEF Absent, Tables

LEMMA TableTyped ==
  ASSUME NEW cols \in SUBSET Columns, NEW keys \in SUBSET Keys, NEW v \in Nat,
         NEW form \in {"plain", "part", "iceberg"}
  PROVE  Table(cols, keys, v, form) \in Tables
<1>1. [k \in keys |-> Row(cols, v)] \in Rows
  <2>1. [k \in keys |-> Row(cols, v)] \in [keys -> [Columns -> Nat]]
    BY RowTyped
  <2> QED
    BY <2>1 DEF Rows
<1> QED
  BY <1>1 DEF Table, Tables

\* The rows of one function laid over those of another.
LEMMA OverTyped ==
  ASSUME NEW f \in Rows, NEW g \in Rows
  PROVE  Over(f, g) \in Rows
<1> DEFINE K == DOMAIN f \cup DOMAIN g
<1>1. K \in SUBSET Keys /\ Over(f, g) \in [K -> [Columns -> Nat]]
  BY RowsElim DEF Over
<1> QED
  BY <1>1 DEF Rows

LEMMA WithoutTyped ==
  ASSUME NEW t \in Tables, NEW keys
  PROVE  /\ Without(t, keys) \in Tables
         /\ Without(t, keys).cols = t.cols /\ Without(t, keys).form = t.form
         /\ Without(t, keys).rows = [k \in DOMAIN t.rows \ keys |-> t.rows[k]]
<1> DEFINE K == DOMAIN t.rows \ keys
           h == [k \in K |-> t.rows[k]]
<1>1. t.rows \in Rows /\ t = [cols |-> t.cols, rows |-> t.rows, form |-> t.form]
  BY DEF Tables
<1>2. Restrict(t.rows, K) = h
  BY DEF Restrict
<1>3. h \in [K -> [Columns -> Nat]] /\ K \in SUBSET Keys
  BY <1>1, RowsElim
<1>4. h \in Rows
  BY <1>3 DEF Rows
<1>5. Without(t, keys) = [cols |-> t.cols, rows |-> h, form |-> t.form]
  BY <1>1, <1>2 DEF Without
<1> HIDE DEF h
<1> QED
  BY <1>4, <1>5 DEF Tables, h

LEMMA PaddedTyped ==
  ASSUME NEW t \in Tables, NEW cols \in SUBSET Columns
  PROVE  /\ Padded(t, cols) \in Tables /\ Padded(t, cols).cols = t.cols \cup cols
         /\ Padded(t, cols).rows = t.rows /\ Padded(t, cols).form = t.form
  BY DEF Padded, Tables

LEMMA ShapeFacts ==
  ASSUME NEW r \in Shape
  PROVE  /\ r.keys \in SUBSET Keys /\ r.more \in SUBSET Keys /\ r.value \in Nat
         /\ r.cols \in SUBSET Columns /\ r.moreCols \in SUBSET Columns
         /\ r.records \in SUBSET Docs /\ r.parents \in SUBSET Docs
         /\ FormOf(r) \in {"plain", "part", "iceberg"}
  BY TableAssumption DEF Shape, FormOf

LEMMA ChunksTyped ==
  ASSUME NEW r \in Shape
  PROVE  /\ Chunk1(r) \in Tables /\ Chunk1(r).cols = r.cols /\ Chunk1(r).form = FormOf(r)
         /\ Chunk1(r).rows = [k \in r.keys |-> Row(r.cols, r.value)]
         /\ Chunked(r) \in Tables /\ Chunked(r).cols = r.cols \cup r.moreCols
         /\ Chunked(r).form = FormOf(r)
         /\ Whole(r) \in Tables
<1>1. /\ Chunk1(r) \in Tables /\ Chunk1(r).cols = r.cols /\ Chunk1(r).form = FormOf(r)
      /\ Chunk1(r).rows = [k \in r.keys |-> Row(r.cols, r.value)]
  BY ShapeFacts, TableTyped DEF Chunk1, Table
<1>2. [k \in r.more |-> Row(r.moreCols, r.value)] \in Rows
  <2>1. Table(r.moreCols, r.more, r.value, "plain") \in Tables
    BY ShapeFacts, TableTyped
  <2> QED
    BY <2>1 DEF Table, Tables
<1>3. Chunk1(r).rows \in Rows
  BY <1>1 DEF Tables
<1>4. Over([k \in r.more |-> Row(r.moreCols, r.value)], Chunk1(r).rows) \in Rows
  BY <1>2, <1>3, OverTyped
<1>5. /\ Chunked(r) \in Tables /\ Chunked(r).cols = r.cols \cup r.moreCols
      /\ Chunked(r).form = FormOf(r)
  BY <1>4, ShapeFacts DEF Chunked, Tables
<1> QED
  BY <1>1, <1>5, AbsentTyped DEF Whole

LEMMA UpsertedTyped ==
  ASSUME NEW t \in Tables, NEW r \in Shape, NEW load
  PROVE  /\ Upserted(t, r, load) \in Tables
         /\ Upserted(t, r, load).cols = t.cols /\ Upserted(t, r, load).form = t.form
         /\ Upserted(t, r, load).rows = Over([k \in Changed(t, r) |-> Row(load, r.value)], t.rows)
<1>1. Changed(t, r) \in SUBSET Keys /\ r.value \in Nat
  BY ShapeFacts DEF Changed
<1>2. [k \in Changed(t, r) |-> Row(load, r.value)] \in [Changed(t, r) -> [Columns -> Nat]]
  BY <1>1, RowTyped
<1>3. [k \in Changed(t, r) |-> Row(load, r.value)] \in Rows
  BY <1>1, <1>2 DEF Rows
<1>4. t.rows \in Rows
  BY DEF Tables
<1>5. Over([k \in Changed(t, r) |-> Row(load, r.value)], t.rows) \in Rows
  BY <1>3, <1>4, OverTyped
<1> QED
  BY <1>5 DEF Upserted, Tables

LEMMA UpdatedTyped ==
  ASSUME NEW t \in Tables, NEW r \in Shape, NEW load
  PROVE  /\ Updated(t, r, load) \in Tables
         /\ Updated(t, r, load).cols = t.cols /\ Updated(t, r, load).form = t.form
<1> DEFINE Cells(k) == [c \in Columns |-> IF c \in load THEN r.value
                                          ELSE IF k \in DOMAIN t.rows THEN t.rows[k][c] ELSE Null]
           f == [k \in r.keys |-> Cells(k)]
<1>1. r.keys \in SUBSET Keys /\ r.value \in Nat
  BY ShapeFacts
<1>2. t.rows \in Rows
  BY DEF Tables
<1>3. \A k \in r.keys : Cells(k) \in [Columns -> Nat]
  BY <1>1, <1>2, RowsElim DEF Null
<1>4. f \in [r.keys -> [Columns -> Nat]]
  BY <1>3
<1>5. f \in Rows
  BY <1>1, <1>4 DEF Rows
<1>6. Over(f, t.rows) \in Rows
  BY <1>2, <1>5, OverTyped
<1> HIDE DEF f
<1>7. Updated(t, r, load) = [t EXCEPT !.rows = Over(f, @)]
  BY DEF Updated, f
<1> QED
  BY <1>6, <1>7 DEF Tables

LEMMA StatesTyped ==
  /\ NoState \in States
  /\ \A docs : \A s \in States, v \in Nat :
        /\ Recorded(s, docs, v) \in States /\ Forgotten(s, docs) \in States
        /\ Recorded(s, {}, v) = s /\ Forgotten(s, {}) = s
  BY DEF States, NoState, Recorded, Forgotten, Null

------------------------------------------------------------------------------
(* Types are kept.                                                         *)

LEMMA DatabaseFields ==
  ASSUME NEW v \in Databases, NEW t \in Tables, NEW s \in States
  PROVE  /\ v.target \in Tables /\ v.staging \in Tables /\ v.replacement \in Tables
         /\ v.state \in States
         /\ [v EXCEPT !.target = t] \in Databases /\ [v EXCEPT !.staging = t] \in Databases
         /\ [v EXCEPT !.replacement = t] \in Databases /\ [v EXCEPT !.state = s] \in Databases
         /\ [v EXCEPT !.target = t, !.state = s] \in Databases
         /\ [v EXCEPT !.target = t, !.staging = Absent] \in Databases
         /\ [v EXCEPT !.target = t, !.replacement = Absent] \in Databases
         /\ [v EXCEPT !.staging = Absent, !.replacement = Absent] \in Databases
         /\ v # NoTx
  BY AbsentTyped DEF Databases, NoTx

LEMMA PlanTyped ==
  ASSUME NEW existing \in SUBSET Columns, NEW r \in Shape
  PROVE  LET plan == PlanSchemaChange(existing, r.cols, r.policy)
         IN  /\ plan.ok \in BOOLEAN /\ plan.load \in SUBSET Columns /\ plan.add \in SUBSET Columns
             /\ plan.add \subseteq r.cols
  BY DEF PlanSchemaChange, Shape

LEMMA ResultTyped ==
  ASSUME call \in Shape, ledger \in Nat, last.table \in Tables,
         NEW statement, NEW v \in Databases, NEW w \in Result(statement, v)
  PROVE  w \in Databases
<1> DEFINE P == PlanSchemaChange(v.target.cols, call.cols, call.policy)
<1>1. /\ v.target \in Tables /\ v.staging \in Tables /\ v.replacement \in Tables
      /\ v.state \in States /\ v.target.cols \in SUBSET Columns /\ v.target.rows \in Rows
      /\ v.staging.rows \in Rows /\ v.target.form \in {"plain", "part", "iceberg"}
  BY DEF Databases, Tables
<1>2. \A t \in Tables, f \in {"plain", "part", "iceberg"} : [t EXCEPT !.form = f] \in Tables
  BY DEF Tables
<1>3. \A t \in Tables, f \in Rows : [t EXCEPT !.rows = f] \in Tables
  BY DEF Tables
<1>4. \A t \in Tables : Target(v, t) \subseteq Databases /\ Staging(v, t) \subseteq Databases
  BY DEF Target, Staging, Databases
<1>5. \A s \in States : Records(v, s) \subseteq Databases
  BY DEF Records, Databases
<1>6. \A t \in Tables, s \in States : {[v EXCEPT !.target = t, !.state = s]} \subseteq Databases
  BY DEF Databases
<1>7. call.value \in Nat /\ FormOf(call) \in {"plain", "part", "iceberg"}
  BY ShapeFacts
<1>8. Chunk1(call) \in Tables /\ Chunked(call) \in Tables /\ Absent \in Tables
  BY ChunksTyped, AbsentTyped
<1>9. Chunk1(call).rows \in Rows
  BY <1>8 DEF Tables
<1>10. NoState \in States /\ \A docs : \A s \in States :
          Recorded(s, docs, call.value) \in States /\ Forgotten(s, docs) \in States
  BY <1>7, StatesTyped
<1>11. \A t \in Tables : Replace(v, t) \subseteq Databases
  BY <1>2, <1>4, <1>7 DEF Replace
<1>12. LoadTruncate(v) \subseteq Databases
  BY <1>1, <1>2, <1>4, <1>8 DEF LoadTruncate
<1>13. CreateMissing(v) \subseteq Databases
  <2>1. Table(call.cols, {}, Null, FormOf(call)) \in Tables
    BY ShapeFacts, TableTyped DEF Null
  <2> QED
    BY <1>4, <2>1 DEF CreateMissing
<1>14. Reconcile(v) \subseteq Databases
  <2>1. P.add \in SUBSET Columns
    BY <1>1, PlanTyped
  <2>2. Padded(v.target, P.add) \in Tables
    BY <1>1, <2>1, PaddedTyped
  <2> QED
    BY <1>4, <2>2 DEF Reconcile
<1>15. \A keys : Without(v.target, keys) \in Tables
  BY <1>1, WithoutTyped
<1>16. Insert(v) \subseteq Databases
  <2> DEFINE K == call.keys \ DOMAIN v.target.rows
             f == [k \in K |-> Row(Load(v.target), call.value)]
  <2>1. f \in [K -> [Columns -> Nat]] /\ K \in SUBSET Keys
    BY ShapeFacts, RowTyped
  <2>2. f \in Rows
    BY <2>1 DEF Rows
  <2>3. Over(f, v.target.rows) \in Rows
    BY <1>1, <2>2, OverTyped
  <2> HIDE DEF f
  <2>4. Insert(v) = Target(v, [v.target EXCEPT !.rows = Over(f, @)])
    BY DEF Insert, f
  <2> QED
    BY <1>1, <1>3, <1>4, <2>3, <2>4
<1>17. Merge(v) \subseteq Databases
  BY <1>1, <1>4, UpsertedTyped DEF Merge
<1>18. MergeSql(v) \subseteq Databases
  BY <1>1, <1>4, UpdatedTyped DEF MergeSql
<1>19. ScriptChildren(v) \subseteq Databases
  <2> DEFINE rest == Without(v.target, OfDocs(v.target, call.parents))
             t == IF call.keys = {} THEN rest ELSE Upserted(rest, call, Load(rest))
  <2>1. rest \in Tables
    BY <1>15
  <2>2. t \in Tables
    BY <2>1, UpsertedTyped
  <2> HIDE DEF t
  <2>3. ScriptChildren(v) =
           {[v EXCEPT !.target = t, !.state = Recorded(v.state, call.records, call.value)]}
    BY DEF ScriptChildren, t
  <2> QED
    BY <1>1, <1>6, <1>10, <2>2, <2>3
<1>20. ScriptDelete(v) \subseteq Databases
  <2> DEFINE t == IF Exists(v.target) THEN Without(v.target, call.keys) ELSE v.target
  <2>1. t \in Tables
    BY <1>1, <1>15
  <2> HIDE DEF t
  <2>2. ScriptDelete(v) = {[v EXCEPT !.target = t, !.state = Forgotten(v.state, call.records)]}
    BY DEF ScriptDelete, t
  <2> QED
    BY <1>1, <1>6, <1>10, <2>1, <2>2
<1>21. ReplaceState(v) \subseteq Databases /\ InsertState(v) \subseteq Databases
  BY <1>1, <1>5, <1>10 DEF ReplaceState, InsertState
<1>22. Table(call.cols \cup call.moreCols, {}, Null, "iceberg") \in Tables
  BY ShapeFacts, TableTyped DEF Null
<1>23. VerifyFence(v) \subseteq Databases /\ CheckWatch(v) \subseteq Databases
  BY DEF VerifyFence, CheckWatch
<1>24. /\ [v EXCEPT !.target = v.staging, !.staging = Absent] \in Databases
       /\ [v EXCEPT !.target = v.replacement, !.replacement = Absent] \in Databases
       /\ [v EXCEPT !.replacement = v.staging] \in Databases
       /\ [v EXCEPT !.replacement = Absent] \in Databases
  BY <1>1, <1>8 DEF Databases
<1>25. /\ [v.target EXCEPT !.rows = Chunk1(call).rows] \in Tables
       /\ [v.target EXCEPT !.rows = v.staging.rows] \in Tables
  BY <1>1, <1>3, <1>9
<1>26. /\ DeleteMatching(v) \subseteq Databases /\ DeleteParents(v) \subseteq Databases
       /\ DeleteKeys(v) \subseteq Databases /\ UpsertState(v) \subseteq Databases
       /\ DeleteState(v) \subseteq Databases
  BY <1>1, <1>4, <1>5, <1>10, <1>15
  DEF DeleteMatching, DeleteParents, DeleteKeys, UpsertState, DeleteState
<1>27. Result(statement, v) \subseteq Databases
  BY <1>1, <1>4, <1>5, <1>8, <1>10, <1>11, <1>12, <1>13, <1>14, <1>16, <1>17, <1>18, <1>19,
     <1>20, <1>21, <1>22, <1>23, <1>24, <1>25, <1>26
  DEF Result
<1> QED
  BY <1>27

LEMMA WhenTyped ==
  \A S : \A s \in Seq(S) : \A test :
     /\ When(test, s) \in Seq(S)
     /\ ~test => When(test, s) = <<>>
     /\ test => When(test, s) = s
<1> <<>> = <<>> /\ \A S : <<>> \in Seq(S)
  OBVIOUS
<1> QED
  BY DEF When

LEMMA BracketedPieces ==
  /\ <<>> \in Seq(Bracketed) /\ <<"reject">> \in Seq(Bracketed)
  /\ <<"create_or_replace">> \in Seq(Bracketed)
  /\ <<"stage">> \in Seq(Bracketed) /\ <<"stage_next">> \in Seq(Bracketed)
  /\ <<"drop_target">> \in Seq(Bracketed) /\ DuckSwap \in Seq(Bracketed)
  /\ <<"begin">> \in Seq(Bracketed) /\ <<"commit">> \in Seq(Bracketed)
  /\ MergeRows \in Seq(Bracketed) /\ <<"delete_parents">> \in Seq(Bracketed)
  /\ <<"upsert_state">> \in Seq(Bracketed)
  /\ <<"delete_keys">> \in Seq(Bracketed) /\ <<"delete_state">> \in Seq(Bracketed)
  /\ <<"verify_fence">> \in Seq(Bracketed) /\ ScopeRows \in Seq(Bracketed)
  BY DEF Bracketed, Statements, DuckSwap, MergeRows, ScopeRows

\* Programs are put together piece by piece; the pieces may be grouped anew.
LEMMA Regrouped ==
  ASSUME NEW a \in Seq(Bracketed), NEW b \in Seq(Bracketed), NEW c \in Seq(Bracketed)
  PROVE  (a \o b) \o c = a \o (b \o c)
BY ConcatAssociative

LEMMA FourPieces ==
  ASSUME NEW a \in Seq(Bracketed), NEW b \in Seq(Bracketed), NEW c \in Seq(Bracketed),
         NEW d \in Seq(Bracketed)
  PROVE  ((a \o b) \o c) \o d = a \o (b \o (c \o d))
<1> DEFINE T == Seq(Bracketed)
<1>1. a \o b \in T /\ c \in T /\ d \in T
  BY ConcatProperties
<1>2. a \in T /\ b \in T /\ c \o d \in T
  BY ConcatProperties
<1>3. \A x, y, z \in T : (x \o y) \o z = x \o (y \o z)
  BY Regrouped
<1> HIDE DEF T
<1>4. ((a \o b) \o c) \o d = (a \o b) \o (c \o d)
  BY ONLY <1>1, <1>3, Zenon
<1>5. (a \o b) \o (c \o d) = a \o (b \o (c \o d))
  BY ONLY <1>2, <1>3, Zenon
<1> QED
  BY ONLY <1>4, <1>5, Zenon

LEMMA StatementPieces ==
  /\ <<>> \in Seq(Statements) /\ <<"reject">> \in Seq(Statements)
  /\ <<"drop_target">> \in Seq(Statements) /\ <<"load_truncate">> \in Seq(Statements)
  /\ <<"drop_target", "create_target", "append_target">> \in Seq(Statements)
  /\ <<"stage">> \in Seq(Statements) /\ <<"stage_next">> \in Seq(Statements)
  /\ <<"swap", "drop_staging">> \in Seq(Statements)
  /\ <<"post_options", "drop_target", "rename_staging">> \in Seq(Statements)
  /\ <<"drop_target", "create_target", "append_staged", "drop_staging">> \in Seq(Statements)
  /\ <<"build", "drop_target", "rename_replacement", "drop_staging">> \in Seq(Statements)
  /\ <<"create_target", "append_target">> \in Seq(Statements)
  /\ <<"load_append">> \in Seq(Statements) /\ <<"post_options">> \in Seq(Statements)
  /\ <<"reconcile", "stage">> \in Seq(Statements) /\ <<"check_watch">> \in Seq(Statements)
  /\ <<"merge", "drop_staging">> \in Seq(Statements)
  /\ <<"upsert_state">> \in Seq(Statements) /\ <<"create_missing">> \in Seq(Statements)
  /\ <<"script_children">> \in Seq(Statements) /\ <<"drop_staging">> \in Seq(Statements)
  /\ <<"script_delete">> \in Seq(Statements) /\ <<"stage_records">> \in Seq(Statements)
  /\ <<"verify_fence">> \in Seq(Statements)
  /\ <<"merge_scope", "drop_staging">> \in Seq(Statements)
  /\ <<"drop_replacement">> \in Seq(Statements)
  BY DEF Statements

LEMMA DuckProgramTyped ==
  ASSUME NEW r \in Shape
  PROVE  DuckDB(r) \in Seq(Bracketed) /\ DuckCleanup(r) \in Seq(Statements)
<1>1. \A s, t \in Seq(Bracketed) : s \o t \in Seq(Bracketed)
  BY ConcatProperties
<1>2. \A test : \A s \in Seq(Bracketed) : When(test, s) \in Seq(Bracketed)
  BY WhenTyped
<1>3. DuckFull(r) \in Seq(Bracketed)
  BY BracketedPieces DEF DuckFull
<1>4. DuckChunks(r) \in Seq(Bracketed)
  BY <1>1, <1>2, BracketedPieces DEF DuckChunks, DuckSwap
<1>5. DuckIncremental(r) \in Seq(Bracketed)
  BY <1>1, BracketedPieces DEF DuckIncremental
<1>6. DuckSqlIncremental(r) \in Seq(Bracketed)
  BY DEF DuckSqlIncremental, Bracketed, Statements
<1>7. DuckChildren(r) \in Seq(Bracketed)
  BY <1>1, <1>2, BracketedPieces DEF DuckChildren
<1>8. DuckDelete(r) \in Seq(Bracketed)
  BY <1>1, <1>2, BracketedPieces DEF DuckDelete
<1>9. DuckScope(r) \in Seq(Bracketed)
  BY <1>1, <1>2, BracketedPieces DEF DuckScope, ScopeRows
<1>10. DuckCleanup(r) \in Seq(Statements)
  BY WhenTyped, StatementPieces DEF DuckCleanup
<1> QED
  BY <1>3, <1>4, <1>5, <1>6, <1>7, <1>8, <1>9, <1>10 DEF DuckDB, Shape, Replacing, Merging

LEMMA BqProgramTyped ==
  ASSUME NEW r \in Shape
  PROVE  BigQuery(r) \in Seq(Statements) /\ BqCleanup(r) \in Seq(Statements)
<1>1. \A s, t \in Seq(Statements) : s \o t \in Seq(Statements)
  BY ConcatProperties
<1>2. \A test : \A s \in Seq(Statements) : When(test, s) \in Seq(Statements)
  BY WhenTyped
<1>3. BqFull(r) \in Seq(Statements)
  BY <1>1, StatementPieces DEF BqFull, IcebergFull
<1>4. BqChunks(r) \in Seq(Statements)
  BY <1>1, <1>2, StatementPieces DEF BqChunks
<1>5. BqSqlFull(r) \in Seq(Statements)
  <2>1. <<"stage", "drop_target", "create_target", "append_staged", "drop_staging", "count">>
           \in Seq(Statements)
    BY DEF Statements
  <2>2. <<"create_or_replace", "count">> \in Seq(Statements)
    BY DEF Statements
  <2> QED
    BY <2>1, <2>2 DEF BqSqlFull
<1>6. BqSqlIncremental(r) \in Seq(Statements)
  <2>1. <<"stage", "check_keys", "reconcile", "merge_sql", "drop_staging">> \in Seq(Statements)
    BY DEF Statements
  <2> QED
    BY <2>1, StatementPieces DEF BqSqlIncremental
<1>7. BqIncremental(r) \in Seq(Statements)
  BY <1>1, <1>2, StatementPieces DEF BqIncremental
<1>8. BqChildren(r) \in Seq(Statements)
  BY <1>1, <1>2, StatementPieces DEF BqChildren
<1>9. BqDelete(r) \in Seq(Statements)
  BY <1>2, StatementPieces DEF BqDelete
<1>10. BqScope(r) \in Seq(Statements)
  BY <1>1, <1>2, StatementPieces DEF BqScope
<1>11. BqCleanup(r) \in Seq(Statements)
  BY <1>1, <1>2, StatementPieces DEF BqCleanup
<1> QED
  BY <1>3, <1>4, <1>5, <1>6, <1>7, <1>8, <1>9, <1>10, <1>11
  DEF BigQuery, Shape, Replacing, Merging

LEMMA TailTyped ==
  ASSUME NEW S, NEW s \in Seq(S), s # <<>>
  PROVE  Tail(s) \in Seq(S) /\ Head(s) \in S
  OBVIOUS

LEMMA StatementsBracketed == \A s \in Seq(Statements) : s \in Seq(Bracketed)
  BY SeqMonotonic DEF Bracketed

LEMMA TypeInit == Init => TypeOK
<1>1. Empty \in Databases
  BY AbsentTyped, StatesTyped DEF Empty, Databases
<1>2. NoReader \in Readers
  BY AbsentTyped DEF NoReader, Readers
<1>3. <<>> \in Seq(Bracketed) /\ <<>> \in Seq(Statements) /\ Absent \in Tables
  BY AbsentTyped, BracketedPieces, StatementPieces
<1> SUFFICES ASSUME Init PROVE TypeOK
  OBVIOUS
<1>4. last.table \in Tables /\ left \subseteq Tables
  BY <1>3 DEF Init
<1> QED
  BY <1>1, <1>2, <1>3, <1>4 DEF Init, TypeOK

LEMMA TypeStep == TypeOK /\ [Next]_vars => TypeOK'
<1> SUFFICES ASSUME TypeOK, [Next]_vars PROVE TypeOK'
  OBVIOUS
<1>1. /\ call # Idle => call \in Shape /\ last.request = call
      /\ \A e \in {"duckdb", "bigquery"} : \A r \in Asked[e] : r \in Shape /\ r # Idle
      /\ db \in Databases /\ View \in Databases /\ NoTx \notin Databases
  <2>1. \A e \in {"duckdb", "bigquery"} : \A r \in Asked[e] : r \in Shape /\ r # Idle
    BY AdapterAssumption DEF WellFormed, Shape, Idle, Replacing, Merging
  <2>2. NoTx \notin Databases
    BY DEF NoTx, Databases
  <2> QED
    BY <2>1, <2>2 DEF TypeOK, View
<1>2. \A w : \A h : call # Idle /\ w \in Result(h, View) => w \in Databases
  BY <1>1, ResultTyped DEF TypeOK
<1>3. call # Idle => Cleanup(call) \in Seq(Statements) /\ Cleanup(call) \in Seq(Bracketed)
  BY <1>1, DuckProgramTyped, BqProgramTyped, StatementsBracketed DEF Cleanup
<1>4. /\ todo # <<>> => Tail(todo) \in Seq(Bracketed)
      /\ todo # <<>> /\ todo \in Seq(Statements) => Tail(todo) \in Seq(Statements)
  BY TailTyped DEF TypeOK
<1>5. \A h : reader' = reader \/ Touch(h) => reader' \in Readers
  BY DEF TypeOK, Touch, Readers
<1>6. CASE Invoke
  <2>1. PICK r \in Asked[engine] :
           /\ call' = r /\ todo' = Program(r)
           /\ last' = [request |-> r, table |-> db.target]
    BY <1>6 DEF Invoke
  <2>2. todo' \in Seq(Bracketed) /\ (engine = "bigquery" => todo' \in Seq(Statements))
    BY <1>1, <2>1, DuckProgramTyped, BqProgramTyped, StatementsBracketed DEF Program, TypeOK
  <2>3. last'.table \in Tables /\ last'.request = r
    BY <1>1, <2>1 DEF Databases
  <2>4. /\ tx' = tx /\ db' = db /\ engine' = engine /\ ledger' = ledger /\ reader' = reader
        /\ dropped' = FALSE /\ failing' = FALSE /\ lost' = FALSE /\ read' = 0 /\ left' = {}
        /\ calls' = calls + 1
    BY <1>6 DEF Invoke
  <2>5. call' \in Asked[engine'] \cup {Idle} /\ last'.request = call'
    BY <2>1, <2>3, <2>4
  <2>6. calls' \in Nat /\ left' \subseteq Tables /\ read' \in Nat
    BY <2>4 DEF TypeOK
  <2> QED
    BY <2>2, <2>3, <2>4, <2>5, <2>6 DEF TypeOK
<1>7. CASE Execute
  <2>1. /\ (db' \in Databases /\ tx' = tx) \/ (tx # NoTx /\ tx' \in Databases /\ db' = db)
    BY <1>2, <1>7 DEF Execute
  <2>2. read' \in Nat /\ dropped' \in BOOLEAN /\ reader' \in Readers
    BY <1>5, <1>7 DEF Execute, TypeOK, DropsForSwap
  <2> QED
    BY <1>4, <1>7, <2>1, <2>2 DEF Execute, TypeOK
<1>8. CASE Begin
  <2>1. engine # "bigquery"
    <3>1. todo \in Seq(Statements) => Head(todo) # "begin"
      BY <1>8, TailTyped DEF Begin, Statements
    <3> QED
      BY <1>8, <3>1 DEF TypeOK, Begin
  <2> QED
    BY <1>1, <1>4, <1>8, <2>1 DEF Begin, TypeOK
<1>9. CASE Commit
  <2>1. engine # "bigquery"
    <3>1. todo \in Seq(Statements) => Head(todo) # "commit"
      BY <1>9, TailTyped DEF Commit, Statements
    <3> QED
      BY <1>9, <3>1 DEF TypeOK, Commit
  <2>2. db' \in Databases
    BY <1>9 DEF Commit, TypeOK
  <2> QED
    BY <1>4, <1>9, <2>1, <2>2 DEF Commit, TypeOK
<1>10. CASE Fail
  BY <1>1, <1>3, <1>10 DEF Fail, TypeOK
<1>11. CASE LoseAnswer
  <2>1. View = db /\ db' \in Databases
    BY <1>2, <1>11 DEF LoseAnswer, TypeOK, View
  <2>2. lost' \in BOOLEAN
    BY <1>11 DEF LoseAnswer, DropsForSwap
  <2> QED
    BY <1>3, <1>5, <1>11, <2>1, <2>2 DEF LoseAnswer, TypeOK
<1>12. CASE FailCleanup
  BY <1>4, <1>12 DEF FailCleanup, TypeOK
<1>13. CASE Leave /\ call # Idle
  <2>1. db' \in Databases
    BY <1>13, AbsentTyped DEF Leave, Databases, TypeOK
  <2>2. left' \subseteq Tables
    BY <1>1, <1>13 DEF Leave, Databases
  <2>3. <<>> \in Seq(Bracketed) /\ <<>> \in Seq(Statements)
    OBVIOUS
  <2> QED
    BY <1>13, <2>1, <2>2, <2>3 DEF Leave, TypeOK
<1>14. CASE Reassign
  BY <1>14 DEF Reassign, TypeOK, writer
<1>15. CASE OpenSnapshot \/ StartQuery \/ RecheckGeneration \/ ReadBatch \/ ValidateUnchanged
  <2>1. reader' \in Readers
    <3>1. db.target \in Tables /\ reader \in Readers /\ NoReader \in Readers
      BY <1>1, AbsentTyped DEF TypeOK, Databases, NoReader, Readers
    <3>2. \A k \in DOMAIN reader.table.rows : k \in Keys
      BY <3>1, RowsElim DEF Readers, Tables
    <3>3. CASE OpenSnapshot
      BY <3>1, <3>3 DEF OpenSnapshot, Readers
    <3>4. CASE StartQuery
      BY <3>1, <3>4 DEF StartQuery, Readers
    <3>5. CASE RecheckGeneration
      BY <3>1, <3>5 DEF RecheckGeneration, Readers
    <3>6. CASE ReadBatch
      BY <3>1, <3>2, <3>6 DEF ReadBatch, Readers
    <3>7. CASE ValidateUnchanged
      BY <3>1, <3>7 DEF ValidateUnchanged, Readers
    <3> QED
      BY <1>15, <3>3, <3>4, <3>5, <3>6, <3>7
  <2> QED
    BY <1>15, <2>1 DEF OpenSnapshot, StartQuery, RecheckGeneration, ReadBatch, ValidateUnchanged,
       TypeOK, writer
<1>16. CASE UNCHANGED vars
  BY <1>16 DEF vars, writer, TypeOK
<1> QED
  BY <1>6, <1>7, <1>8, <1>9, <1>10, <1>11, <1>12, <1>13, <1>14, <1>15, <1>16
  DEF Next, Return, Crash

\* Tables, states, transactions and programs have their types; a BigQuery call never opens
\* a transaction (adapters/bigquery.py, adapters/duckdb.py:1479-1491).
THEOREM WarehouseTypeCorrect == Spec => []TypeOK
  BY TypeInit, TypeStep, PTL DEF Spec

------------------------------------------------------------------------------
(* Readers and claims.                                                     *)

LEMMA AfterHead ==
  \A S : \A a \in S : \A s \in Seq(S) :
     /\ Head(<<a>> \o s) = a /\ Tail(<<a>> \o s) = s /\ <<a>> \o s # <<>>
     /\ <<a>> \o s \in Seq(S)
<1> SUFFICES ASSUME NEW S, NEW a \in S, NEW s \in Seq(S)
             PROVE  /\ Head(<<a>> \o s) = a /\ Tail(<<a>> \o s) = s /\ <<a>> \o s # <<>>
                    /\ <<a>> \o s \in Seq(S)
  OBVIOUS
<1>1. Head(<<a>> \o s) = a
  OBVIOUS
<1>2. Tail(<<a>> \o s) = s
  OBVIOUS
<1>3. <<a>> \o s # <<>> /\ <<a>> \o s \in Seq(S)
  OBVIOUS
<1> QED
  BY <1>1, <1>2, <1>3

LEMMA UntouchedTarget ==
  ASSUME NEW v \in Databases, NEW h \in Untouching, NEW w \in Result(h, v)
  PROVE  w.target = v.target
<1>1. \A t : \A u \in Staging(v, t) : u.target = v.target
  BY DEF Staging, Databases
<1>2. \A s : \A u \in Records(v, s) : u.target = v.target
  BY DEF Records, Databases
<1>3. \A u \in ReplaceState(v) \cup InsertState(v) : u.target = v.target
  BY <1>2 DEF ReplaceState, InsertState
<1>4. \A u \in VerifyFence(v) \cup CheckWatch(v) : u.target = v.target
  BY DEF VerifyFence, CheckWatch
<1>5. \A t : [v EXCEPT !.replacement = t].target = v.target
  BY DEF Databases
<1>6. CASE h \in {"stage", "stage_next", "drop_staging"}
  BY <1>1, <1>6 DEF Result
<1>7. CASE h \in {"upsert_state", "delete_state", "clear_state"}
  BY <1>2, <1>7 DEF Result, UpsertState, DeleteState
<1>8. CASE h \in {"insert_state", "merge_scope", "verify_fence", "check_watch"}
  BY <1>3, <1>4, <1>8 DEF Result
<1>9. CASE h \in {"build", "drop_replacement", "check_keys", "stage_records", "count"}
  <2>1. CASE h \in {"check_keys", "stage_records", "count"}
    BY <2>1 DEF Result
  <2>2. CASE h = "build"
    BY <1>5, <2>2 DEF Result
  <2>3. CASE h = "drop_replacement"
    BY <1>5, <2>3 DEF Result
  <2> QED
    BY <1>9, <2>1, <2>2, <2>3
<1> QED
  BY <1>6, <1>7, <1>8, <1>9 DEF Untouching

\* While nothing touched the table, what the reader has begun to read is what is there.
ReaderOK ==
    engine = "bigquery" /\ reader.phase \in {"started", "reading"} /\ ~reader.touched
      => db.target = reader.table

LEMMA ReaderStep == TypeOK /\ ReaderOK /\ [Next]_vars => ReaderOK'
<1> SUFFICES ASSUME TypeOK, ReaderOK, [Next]_vars, engine' = "bigquery",
                    reader'.phase \in {"started", "reading"}, ~reader'.touched
             PROVE  db'.target = reader'.table
  BY DEF ReaderOK
<1>1. engine = "bigquery" /\ tx = NoTx /\ db \in Databases /\ reader \in Readers
  <2>1. engine' = engine
    BY DEF Next, Invoke, Execute, Begin, Commit, Fail, LoseAnswer, FailCleanup, Return, Crash, Leave,
       Reassign, OpenSnapshot, StartQuery, RecheckGeneration, ReadBatch, ValidateUnchanged, vars
  <2> QED
    BY <2>1 DEF TypeOK
<1>2. ASSUME NEW h, Touch(h), db' \in Result(h, db) PROVE db'.target = reader'.table
  <2>1. h \in Untouching /\ reader' = reader
    BY <1>1, <1>2 DEF Touch, Readers
  <2> QED
    BY <1>1, <1>2, <2>1, UntouchedTarget DEF ReaderOK
<1>3. CASE Execute
  BY <1>1, <1>2, <1>3 DEF Execute, View
<1>4. CASE LoseAnswer
  BY <1>2, <1>4 DEF LoseAnswer
<1>5. CASE db'.target = db.target /\ reader' = reader
  BY <1>1, <1>5 DEF ReaderOK
<1>6. ~Begin /\ ~Commit
  <2>1. todo # <<>> => Head(todo) \in Statements
    BY <1>1, TailTyped DEF TypeOK
  <2> QED
    BY <2>1 DEF Begin, Commit, Statements
<1>7. CASE Leave
  BY <1>1, <1>5, <1>7 DEF Leave, Databases
<1>8. CASE OpenSnapshot \/ StartQuery \/ RecheckGeneration \/ ReadBatch \/ ValidateUnchanged
  <2>1. db' = db
    BY <1>8 DEF OpenSnapshot, StartQuery, RecheckGeneration, ReadBatch, ValidateUnchanged, writer
  <2>2. ~OpenSnapshot /\ ~ValidateUnchanged
    BY <1>1 DEF OpenSnapshot, ValidateUnchanged, NoReader, Readers
  <2>3. CASE StartQuery
    BY <1>1, <2>1, <2>3 DEF StartQuery, Readers
  <2>4. CASE RecheckGeneration
    BY <1>1, <2>1, <2>4 DEF RecheckGeneration, Readers, ReaderOK
  <2>5. CASE ReadBatch
    BY <1>1, <2>1, <2>5 DEF ReadBatch, Readers, ReaderOK
  <2> QED
    BY <1>8, <2>2, <2>3, <2>4, <2>5
<1>9. CASE Invoke \/ Fail \/ FailCleanup \/ Reassign \/ UNCHANGED vars
  BY <1>5, <1>9 DEF Invoke, Fail, FailCleanup, Reassign, vars, writer
<1> QED
  BY <1>3, <1>4, <1>6, <1>7, <1>8, <1>9 DEF Next, Return, Crash

LEMMA ReadsWhole ==
  ASSUME TypeOK, ReaderOK, [Next]_vars, reader.phase # "done", reader'.phase = "done"
  PROVE  /\ db'.target.cols = reader.table.cols
         /\ db'.target.rows = [k \in reader'.seen |-> reader.table.rows[k]]
<1>1. reader \in Readers /\ db \in Databases
  BY DEF TypeOK
<1>2. ValidateUnchanged
  <2>1. \A h : Touch(h) => reader'.phase = reader.phase
    BY <1>1 DEF Touch, Readers
  <2>2. ~Execute /\ ~LoseAnswer
    BY <2>1 DEF Execute, LoseAnswer
  <2> QED
    BY <1>1, <2>2 DEF Next, Invoke, Begin, Commit, Fail, FailCleanup, Return, Crash, Leave,
       Reassign, OpenSnapshot, StartQuery, RecheckGeneration, ReadBatch, vars, NoReader, Readers, writer
<1>3. db.target = reader.table /\ reader'.seen = reader.seen /\ db' = db
  <2>1. reader'.seen = reader.seen /\ db' = db /\ Unchanged
    BY <1>1, <1>2 DEF ValidateUnchanged, Readers, writer
  <2>2. reader.phase = "reading" /\ engine \in {"duckdb", "bigquery"}
    BY <1>2 DEF ValidateUnchanged, TypeOK
  <2> QED
    BY <2>1, <2>2 DEF Unchanged, ReaderOK
<1>4. reader.seen = DOMAIN reader.table.rows
  BY <1>2 DEF ValidateUnchanged
<1>5. reader.table.rows \in Rows
  BY <1>1 DEF Readers, Tables
<1>6. reader.table.rows = [k \in DOMAIN reader.table.rows |-> reader.table.rows[k]]
  BY <1>5, RowsElim
<1> QED
  BY <1>3, <1>4, <1>6

\* A fenced replacement has shown its claim before it changes anything.
Fenced ==
    /\ call = Idle => tx = NoTx
    /\ engine = "duckdb" /\ call.kind = "scope" /\ call.fence # 0 =>
         \/ tx = NoTx /\ todo = <<>>
         \/ ~failing /\ tx = NoTx /\ todo = <<"begin">> \o (<<"verify_fence">> \o ScopeRows)
         \/ ~failing /\ tx # NoTx /\ todo = <<"verify_fence">> \o ScopeRows
         \/ /\ ~failing /\ tx # NoTx /\ read = call.fence
            /\ todo \in {ScopeRows, <<"insert_state", "commit">>, <<"commit">>}

LEMMA FencedStatements ==
  LET fence == <<"verify_fence">> \o ScopeRows
  IN  /\ Head(fence) = "verify_fence" /\ Tail(fence) = ScopeRows /\ fence # <<>>
      /\ Head(<<"begin">> \o fence) = "begin" /\ Tail(<<"begin">> \o fence) = fence
      /\ <<"begin">> \o fence # <<>>
      /\ Head(ScopeRows) = "clear_state" /\ Tail(ScopeRows) = <<"insert_state", "commit">>
      /\ ScopeRows # <<>>
<1>1. \A s \in Seq(Bracketed) :
         /\ Head(<<"verify_fence">> \o s) = "verify_fence" /\ Tail(<<"verify_fence">> \o s) = s
         /\ <<"verify_fence">> \o s # <<>> /\ <<"verify_fence">> \o s \in Seq(Bracketed)
  BY AfterHead DEF Bracketed, Statements
<1>2. \A s \in Seq(Bracketed) :
         /\ Head(<<"begin">> \o s) = "begin" /\ Tail(<<"begin">> \o s) = s
         /\ <<"begin">> \o s # <<>>
  BY AfterHead DEF Bracketed
<1>3. Head(ScopeRows) = "clear_state" /\ Tail(ScopeRows) = <<"insert_state", "commit">>
      /\ ScopeRows # <<>>
  BY DEF ScopeRows
<1> QED
  BY <1>1, <1>2, <1>3, BracketedPieces

LEMMA FencedStep == TypeOK /\ Fenced /\ [Next]_vars => Fenced'
<1> SUFFICES ASSUME TypeOK, Fenced, [Next]_vars PROVE Fenced'
  OBVIOUS
<1>0. /\ db # NoTx
      /\ Head(<<"insert_state", "commit">>) = "insert_state" /\ <<"insert_state", "commit">> # <<>>
      /\ Tail(<<"insert_state", "commit">>) = <<"commit">>
      /\ Head(<<"commit">>) = "commit" /\ Tail(<<"commit">>) = <<>> /\ <<"commit">> # <<>>
  <2>1. DOMAIN db = {"target", "staging", "replacement", "state"} /\ DOMAIN NoTx = {"kind"}
    <3>1. db \in Databases
      BY DEF TypeOK
    <3> QED
      BY <3>1 DEF Databases, NoTx
  <2>2. db # NoTx
    BY <2>1
  <2>3. /\ Head(<<"insert_state", "commit">>) = "insert_state" /\ <<"insert_state", "commit">> # <<>>
        /\ Tail(<<"insert_state", "commit">>) = <<"commit">>
    OBVIOUS
  <2>4. Head(<<"commit">>) = "commit" /\ Tail(<<"commit">>) = <<>> /\ <<"commit">> # <<>>
    OBVIOUS
  <2> QED
    BY <2>2, <2>3, <2>4
<1>1. engine' = engine
  BY DEF Next, Invoke, Execute, Begin, Commit, Fail, LoseAnswer, FailCleanup, Return, Crash, Leave,
     Reassign, OpenSnapshot, StartQuery, RecheckGeneration, ReadBatch, ValidateUnchanged, vars
<1>2. CASE Invoke
  <2>1. tx' = NoTx /\ failing' = FALSE
    BY <1>2 DEF Invoke, Fenced
  <2> SUFFICES ASSUME engine = "duckdb", call'.kind = "scope", call'.fence # 0
               PROVE  todo' = <<"begin">> \o (<<"verify_fence">> \o ScopeRows)
    BY <1>1, <2>1 DEF Fenced
  <2>2. PICK r \in Asked["duckdb"] : call' = r /\ todo' = DuckDB(r)
    BY <1>2 DEF Invoke, Program
  <2>3. DuckDB(r) = DuckScope(r)
    BY <2>2 DEF DuckDB, Replacing
  <2>4. DuckScope(r) = <<"begin">> \o (<<"verify_fence">> \o ScopeRows)
    <3>1. When(r.fence # 0, <<"verify_fence">>) = <<"verify_fence">>
      BY <2>2 DEF When
    <3> QED
      <4>1. DuckScope(r) = (<<"begin">> \o <<"verify_fence">>) \o ScopeRows
        BY <3>1 DEF DuckScope, ScopeRows
      <4> QED
        BY <4>1, BracketedPieces, Regrouped
  <2> QED
    BY <2>2, <2>3, <2>4
<1>3. CASE Execute
  <2>1. /\ call' = call /\ failing' = failing /\ call # Idle
        /\ todo' = Tail(todo) /\ todo # <<>> /\ (tx = NoTx => tx' = NoTx)
    BY <1>3 DEF Execute
  <2> SUFFICES ASSUME engine = "duckdb", call.kind = "scope", call.fence # 0
               PROVE  \/ ~failing /\ tx' # NoTx /\ todo' = <<"verify_fence">> \o ScopeRows
                      \/ /\ ~failing /\ tx' # NoTx /\ read' = call.fence
                         /\ todo' \in {ScopeRows, <<"insert_state", "commit">>, <<"commit">>}
    BY <1>1, <2>1 DEF Fenced
  <2>2. Head(todo) \notin {"begin", "commit"}
    BY <1>3 DEF Execute, Result
  <2>3. tx # NoTx => tx' # NoTx
    <3>1. call \in Shape /\ ledger \in Nat /\ last.table \in Tables /\ View \in Databases
      BY <2>1, AdapterAssumption DEF TypeOK, WellFormed, View
    <3>2. \A w \in Result(Head(todo), View) : w # NoTx
      BY <3>1, ResultTyped DEF Databases, NoTx
    <3> QED
      BY <1>3, <3>2 DEF Execute
  <2>4. Head(todo) = "verify_fence" => ledger = call.fence /\ read' = ledger
    BY <1>3 DEF Execute, Result, VerifyFence
  <2>5. Head(todo) # "verify_fence" => read' = read
    BY <1>3 DEF Execute
  <2> QED
    BY <1>0, <2>1, <2>2, <2>3, <2>4, <2>5, FencedStatements DEF Fenced
<1>4. CASE Begin
  BY <1>0, <1>1, <1>4, FencedStatements DEF Begin, Fenced
<1>5. CASE Commit
  BY <1>0, <1>1, <1>5, FencedStatements DEF Commit, Fenced
<1>6. CASE Fail
  <2>1. engine = "duckdb" /\ call.kind = "scope" => Cleanup(call) = <<>>
    BY DEF Cleanup, DuckCleanup, When
  <2> QED
    BY <1>1, <1>6, <2>1 DEF Fail, Fenced
<1>7. CASE LoseAnswer
  BY <1>1, <1>7 DEF LoseAnswer, Fenced
<1>8. CASE FailCleanup
  BY <1>1, <1>8 DEF FailCleanup, Fenced
<1>9. CASE Leave
  BY <1>9 DEF Leave, Fenced, Idle
<1>10. CASE Reassign \/ OpenSnapshot \/ StartQuery \/ RecheckGeneration \/ ReadBatch
            \/ ValidateUnchanged \/ UNCHANGED vars
  BY <1>1, <1>10 DEF Reassign, OpenSnapshot, StartQuery, RecheckGeneration, ReadBatch,
     ValidateUnchanged, vars, writer, Fenced
<1> QED
  BY <1>2, <1>3, <1>4, <1>5, <1>6, <1>7, <1>8, <1>9, <1>10 DEF Next, Return, Crash

LEMMA CommitsWithClaim ==
  ASSUME TypeOK, Fenced, [Next]_vars, engine = "duckdb", call.kind = "scope",
         db'.state # db.state, call.fence # 0
  PROVE  ledger = call.fence
<1>1. CASE Execute
  <2>1. tx = NoTx /\ Head(todo) # "begin" /\ todo # <<>>
    BY <1>1 DEF Execute, Result
  <2> QED
    BY <2>1, FencedStatements DEF Fenced
<1>2. CASE Commit
  <2>1. todo # <<>> /\ Head(todo) = "commit" /\ tx # NoTx /\ (read # 0 => read = ledger)
    BY <1>2 DEF Commit
  <2> QED
    BY <2>1, FencedStatements DEF Fenced
<1>3. CASE Leave
  BY <1>3 DEF Leave, TypeOK, Databases
<1>4. CASE LoseAnswer
  BY <1>4 DEF LoseAnswer
<1> QED
  BY <1>1, <1>2, <1>3, <1>4 DEF Next, Invoke, Begin, Fail, FailCleanup, Return, Crash, Reassign,
     OpenSnapshot, StartQuery, RecheckGeneration, ReadBatch, ValidateUnchanged, vars, writer

\* A fenced scope commits only under its claim, and a table that is read to its end and
\* validated is one version of it (adapters/duckdb.py:1428-1465, adapters/bigquery.py:1277-1503).
THEOREM WritersAndReadersGuarded == Spec => GuardedByVersion
<1>1. Init => ReaderOK /\ Fenced
  BY DEF Init, ReaderOK, Fenced, NoReader, Idle
<1>2. TypeOK /\ ReaderOK /\ Fenced /\ [Next]_vars => (ReaderOK /\ Fenced)'
  BY ReaderStep, FencedStep
<1>3. TypeOK /\ Fenced /\ [Next]_vars =>
        [engine = "duckdb" /\ call.kind = "scope" /\ db'.state # db.state
         /\ call.fence # 0 => ledger = call.fence]_vars
  BY CommitsWithClaim
<1>4. TypeOK /\ ReaderOK /\ [Next]_vars =>
        [reader.phase # "done" /\ reader'.phase = "done" =>
          /\ db'.target.cols = reader.table.cols
          /\ db'.target.rows = [k \in reader'.seen |-> reader.table.rows[k]]]_vars
  BY ReadsWhole
<1>5. Spec => FencedByClaim
  BY <1>1, <1>2, <1>3, WarehouseTypeCorrect, PTL DEF Spec, FencedByClaim
<1>6. Spec => ReadsOneVersion
  BY <1>1, <1>2, <1>4, WarehouseTypeCorrect, PTL DEF Spec, ReadsOneVersion
<1> QED
  BY <1>5, <1>6, PTL DEF GuardedByVersion

------------------------------------------------------------------------------
(* The contract, in the vocabulary of the adapters.                        *)

Widens(r, t, u) ==
    /\ r.kind \in Merging /\ r.policy = "append_new_columns" /\ Exists(t)
    /\ \E add \in SUBSET r.cols : u = Padded(t, add)
Creates(r, t, u) ==
    /\ r.kind \in {"incremental", "children"} /\ ~Exists(t)
    /\ u = Table(r.cols, {}, Null, FormOf(r))
InPlace(r, t) ==
    r.layout = "none" \/ (r.layout # "iceberg" /\ (~Exists(t) \/ r.layout = t.form))
Remakes(r, t, u) ==
    /\ r.kind \in Replacing /\ ~InPlace(r, t)
    /\ u \in {Absent, Table(r.cols \cup r.moreCols, {}, Null, FormOf(r))}

\* What a step that a consumer sees may do to the table and the state.
Moves(r, v, w) ==
    \/ w.target = v.target /\ w.state = v.state
    \/ Makes(r, v, w.target, w.state)
    \/ /\ w.state = v.state
       /\ Widens(r, v.target, w.target) \/ Creates(r, v.target, w.target)
          \/ Remakes(r, v.target, w.target)

LEMMA ContractTables ==
  /\ Promised!Absent = Absent /\ Promised!NoState = NoState /\ Promised!Null = Null
  /\ Promised!Idle = Idle /\ Promised!Replacing = Replacing /\ Promised!Merging = Merging
  /\ \A t : Promised!Exists(t) <=> Exists(t)
  /\ \A r : Promised!FormOf(r) = FormOf(r)
  /\ \A s, docs, v : Promised!Recorded(s, docs, v) = Recorded(s, docs, v)
  /\ \A s, docs : Promised!Forgotten(s, docs) = Forgotten(s, docs)
  /\ \A t, cols : Promised!Padded(t, cols) = Padded(t, cols)
  /\ \A cols, v : Promised!Row(cols, v) = Row(cols, v)
  /\ \A f, g : Promised!Over(f, g) = Over(f, g)
  /\ \A t, docs : Promised!OfDocs(t, docs) = OfDocs(t, docs)
  /\ \A t, r : Promised!Changed(t, r) = Changed(t, r)
  BY DEF Promised!Absent, Promised!NoState, Promised!Null, Promised!Idle, Promised!Replacing,
     Promised!Merging, Promised!Exists, Promised!FormOf, Promised!Recorded, Promised!Forgotten,
     Promised!Padded, Promised!Row, Promised!Docs, Promised!Over, Promised!OfDocs,
     Promised!Changed, Absent, NoState, Null, Idle, Replacing, Merging, Exists, FormOf, Recorded,
     Forgotten, Padded, Row, Docs, Over, OfDocs, Changed

LEMMA ContractPlans ==
  /\ \A t, u, p : Promised!PlanSchemaChange(t, u, p) = PlanSchemaChange(t, u, p)
  /\ \A t, keys : Promised!Without(t, keys) = Without(t, keys)
  /\ \A cols, keys, v, f : Promised!Table(cols, keys, v, f) = Table(cols, keys, v, f)
  /\ \A r : Promised!Chunk1(r) = Chunk1(r) /\ Promised!Chunked(r) = Chunked(r)
            /\ Promised!Whole(r) = Whole(r)
  /\ \A t, r, load : Promised!Upserted(t, r, load) = Upserted(t, r, load)
  /\ \A t, r, load : Promised!Updated(t, r, load) = Updated(t, r, load)
<1>1. \A t, u, p : Promised!PlanSchemaChange(t, u, p) = PlanSchemaChange(t, u, p)
  BY DEF Promised!PlanSchemaChange, PlanSchemaChange
<1>2. \A t, keys : Promised!Without(t, keys) = Without(t, keys)
  BY DEF Promised!Without, Without, Promised!Restrict, Restrict
<1>3. \A cols, keys, v, f : Promised!Table(cols, keys, v, f) = Table(cols, keys, v, f)
  BY ContractTables DEF Promised!Table, Table
<1>4. \A r : Promised!Chunk1(r) = Chunk1(r) /\ Promised!Chunked(r) = Chunked(r)
  BY ContractTables, <1>3 DEF Promised!Chunk1, Chunk1, Promised!Chunked, Chunked
<1>5. \A t, r, load : Promised!Upserted(t, r, load) = Upserted(t, r, load)
  BY ContractTables DEF Promised!Upserted, Upserted
<1>6. \A t, r, load : Promised!Updated(t, r, load) = Updated(t, r, load)
  BY ContractTables DEF Promised!Updated, Updated
<1> QED
  BY ContractTables, <1>1, <1>2, <1>3, <1>4, <1>5, <1>6 DEF Promised!Whole, Whole

\* The merge of a frame into a table, and of a query into one.
LEMMA ContractMerges ==
  ASSUME NEW r, NEW t
  PROVE  /\ Promised!Merges(r, t) =
              IF ~Exists(t) THEN {Chunk1(r)}
              ELSE IF Fits(r, t)
              THEN {Upserted(Padded(t, Plan(r, t).add), r, Plan(r, t).load)} ELSE {}
         /\ Promised!SqlMerges(r, t) =
              IF Fits(r, t) /\ Exists(t)
              THEN {Upserted(Padded(t, Plan(r, t).add), r, Plan(r, t).load),
                    Updated(Padded(t, Plan(r, t).add), r, Plan(r, t).load)}
              ELSE {}
         /\ Promised!Children(r, t) =
              IF r.keys = {} THEN {Without(t, OfDocs(t, r.parents))}
              ELSE Promised!Merges(r, Without(t, OfDocs(t, r.parents)))
  BY ContractTables, ContractPlans
  DEF Promised!Merges, Promised!SqlMerges, Promised!Children, Fits, Plan

LEMMA ContractEffects ==
  ASSUME NEW r, NEW t, NEW s
  PROVE  /\ r.kind \in {"full", "sql_full"} =>
              Promised!Effects(r, t, s) =
                {<<IF Exists(Whole(r)) THEN [Whole(r) EXCEPT !.form = f] ELSE Absent, s>>
                   : f \in {FormOf(r), t.form}}
         /\ r.kind = "chunks" => Promised!Effects(r, t, s) = {<<Whole(r), s>>}
         /\ r.kind = "incremental" /\ r.clean =>
              Promised!Effects(r, t, s) = Promised!Merges(r, t) \X {s}
         /\ r.kind = "sql_incremental" /\ r.clean =>
              Promised!Effects(r, t, s) = Promised!SqlMerges(r, t) \X {s}
         /\ r.kind = "children" /\ r.clean =>
              Promised!Effects(r, t, s) =
                Promised!Children(r, t) \X {Recorded(s, r.records, r.value)}
         /\ r.kind = "delete" =>
              Promised!Effects(r, t, s) = {<<Without(t, r.keys), Forgotten(s, r.records)>>}
         /\ r.kind = "scope" /\ r.clean =>
              Promised!Effects(r, t, s) = {<<t, Recorded(NoState, r.records, r.value)>>}
         /\ r.kind \in Merging \cup {"scope"} /\ ~r.clean => Promised!Effects(r, t, s) = {}
  BY ContractTables, ContractPlans DEF Promised!Effects, Merging

------------------------------------------------------------------------------
(* Running a program.                                                      *)

\* The place after the statement at the head, and what a consumer sees of it.
Executed(w) ==
    IF tx = NoTx
    THEN /\ Place(engine, call, last.table, Tail(todo), w, NoTx,
                  dropped \/ DropsForSwap(Head(todo)))
         /\ Moves(call, db, w)
    ELSE Place(engine, call, last.table, Tail(todo), db, w, dropped)
Started == Place(engine, call, last.table, Tail(todo), db, db, dropped)
Committed ==
    Place(engine, call, last.table, Tail(todo), tx, NoTx, dropped) /\ Moves(call, db, tx)
Runs ==
    /\ \A w \in Result(Head(todo), View) : Executed(w)
    /\ Head(todo) = "begin" /\ tx = NoTx => Started
    /\ Head(todo) = "commit" /\ tx # NoTx => Committed

LEMMA Here ==
  ASSUME TypeOK, call # Idle
  PROVE  /\ call \in Shape /\ WellFormed(call) /\ last.request = call
         /\ call.keys \in SUBSET Keys /\ call.cols \in SUBSET Columns
         /\ call.moreCols \in SUBSET Columns /\ call.value \in Nat
         /\ FormOf(call) \in {"plain", "part", "iceberg"}
         /\ last.table \in Tables /\ ledger \in Nat /\ engine \in {"duckdb", "bigquery"}
         /\ db \in Databases /\ View \in Databases /\ db # NoTx
         /\ db.target \in Tables /\ db.staging \in Tables /\ db.replacement \in Tables
         /\ db.state \in States
         /\ tx # NoTx => tx \in Databases
<1>1. call \in Shape /\ WellFormed(call) /\ last.request = call
  BY AdapterAssumption DEF TypeOK, WellFormed
<1>2. db # NoTx /\ View \in Databases /\ db \in Databases /\ (tx # NoTx => tx \in Databases)
  BY DEF TypeOK, View, Databases, NoTx
<1>3. /\ db.target \in Tables /\ db.staging \in Tables /\ db.replacement \in Tables
      /\ db.state \in States
  BY <1>2 DEF Databases
<1> QED
  BY <1>1, <1>2, <1>3, ShapeFacts DEF TypeOK

LEMMA Results ==
  \A v :
    /\ Result("begin", v) = {} /\ Result("commit", v) = {} /\ Result("reject", v) = {}
    /\ Result("create_or_replace", v) = Replace(v, Chunk1(call))
    /\ Result("load_truncate", v) = LoadTruncate(v)
    /\ Result("load_append", v) = Target(v, Chunk1(call))
    /\ Result("stage", v) = Staging(v, Chunk1(call))
    /\ Result("stage_next", v) = Staging(v, Chunked(call))
    /\ Result("swap", v) = Replace(v, v.staging)
    /\ Result("drop_target", v) = Target(v, Absent)
    /\ Result("rename_staging", v) = {[v EXCEPT !.target = v.staging, !.staging = Absent]}
    /\ Result("build", v) = {[v EXCEPT !.replacement = v.staging]}
    /\ Result("rename_replacement", v) =
          {[v EXCEPT !.target = v.replacement, !.replacement = Absent]}
    /\ Result("create_target", v) =
          Target(v, Table(call.cols \cup call.moreCols, {}, Null, "iceberg"))
    /\ Result("append_target", v) = Target(v, [v.target EXCEPT !.rows = Chunk1(call).rows])
    /\ Result("append_staged", v) = Target(v, [v.target EXCEPT !.rows = v.staging.rows])
    /\ Result("create_missing", v) = CreateMissing(v)
    /\ Result("reconcile", v) = Reconcile(v)
    /\ Result("check_keys", v) = (IF call.clean THEN {v} ELSE {})
    /\ Result("check_watch", v) = CheckWatch(v)
    /\ Result("delete_matching", v) = DeleteMatching(v)
    /\ Result("insert", v) = Insert(v)
    /\ Result("merge", v) = Merge(v) /\ Result("merge_sql", v) = MergeSql(v)
    /\ Result("delete_parents", v) = DeleteParents(v)
    /\ Result("upsert_state", v) = UpsertState(v)
    /\ Result("script_children", v) = ScriptChildren(v)
    /\ Result("delete_keys", v) = DeleteKeys(v)
    /\ Result("delete_state", v) = DeleteState(v)
    /\ Result("script_delete", v) = ScriptDelete(v)
    /\ Result("verify_fence", v) = VerifyFence(v)
    /\ Result("clear_state", v) = Records(v, NoState)
    /\ Result("insert_state", v) = InsertState(v)
    /\ Result("merge_scope", v) = ReplaceState(v)
    /\ Result("drop_staging", v) = Staging(v, Absent)
    /\ Result("drop_replacement", v) = {[v EXCEPT !.replacement = Absent]}
    /\ Result("stage_records", v) = {v} /\ Result("post_options", v) = {v}
    /\ Result("count", v) = {v}
  BY DEF Result

LEMMA NothingBefore ==
  ASSUME NEW S, NEW u \in Seq(S)
  PROVE  <<>> \o u = u
  BY ConcatEmptySeq

\* A load whose second chunk is empty is its first.
LEMMA OneChunk ==
  ASSUME NEW r \in Shape, r.more = {}, r.moreCols = {}
  PROVE  Chunked(r) = Chunk1(r)
<1>1. Chunk1(r).rows \in Rows /\ Chunk1(r) \in Tables
  BY ChunksTyped DEF Tables
<1>2. Chunk1(r).rows = [k \in DOMAIN Chunk1(r).rows |-> Chunk1(r).rows[k]]
  BY <1>1, RowsElim
<1> DEFINE f == [k \in r.more |-> Row(r.moreCols, r.value)]
<1>3. DOMAIN f = {}
  OBVIOUS
<1> HIDE DEF f
<1>4. Over(f, Chunk1(r).rows) = Chunk1(r).rows
  BY <1>2, <1>3 DEF Over
<1>5. Chunked(r) = [cols |-> r.cols, form |-> FormOf(r), rows |-> Chunk1(r).rows]
  BY <1>4 DEF Chunked, f
<1>6. Chunk1(r) = [cols |-> r.cols, rows |-> Chunk1(r).rows, form |-> FormOf(r)]
  BY <1>1, ChunksTyped DEF Tables
<1> QED
  BY <1>5, <1>6

LEMMA WholeForm ==
  ASSUME NEW r, WellFormed(r)
  PROVE  /\ r.cols = {} => Whole(r) = Absent
         /\ r.cols # {} => /\ Whole(r) \in Tables /\ Whole(r).form = FormOf(r) /\ Exists(Whole(r))
                           /\ [Whole(r) EXCEPT !.form = FormOf(r)] = Whole(r)
                           /\ Whole(r).cols = r.cols \cup r.moreCols
                           /\ r.more = {} => Whole(r) = Chunk1(r)
                           /\ r.kind = "chunks" => Whole(r) = Chunked(r)
<1>1. r \in Shape /\ (r.more = {} => r.moreCols = {}) /\ (r.kind # "chunks" => r.more = {})
  BY DEF WellFormed
<1>2. ASSUME r.cols # {}
      PROVE  /\ Whole(r) \in Tables /\ Whole(r).form = FormOf(r) /\ Exists(Whole(r))
             /\ Whole(r).cols = r.cols \cup r.moreCols
             /\ r.more = {} => Whole(r) = Chunk1(r)
  BY <1>1, <1>2, ChunksTyped, OneChunk DEF Whole, Exists
<1>3. \A t \in Tables : [t EXCEPT !.form = t.form] = t
  BY DEF Tables
<1> QED
  BY <1>2, <1>3 DEF Whole

\* What a replacement makes of the table.
LEMMA MakesWhole ==
  ASSUME NEW r, WellFormed(r), r.kind \in Replacing, NEW v \in Databases, NEW f,
         (f \in {FormOf(r), v.target.form} /\ r.kind # "chunks") \/ f = FormOf(r)
  PROVE  r.cols # {} => Makes(r, v, [Whole(r) EXCEPT !.form = f], v.state)
<1> SUFFICES ASSUME r.cols # {} PROVE Makes(r, v, [Whole(r) EXCEPT !.form = f], v.state)
  OBVIOUS
<1>1. CASE r.kind = "chunks"
  BY <1>1, WholeForm, ContractEffects DEF Makes
<1>2. CASE r.kind \in {"full", "sql_full"}
  <2>1. Exists(Whole(r)) /\ f \in {FormOf(r), v.target.form}
    BY <1>2, WholeForm
  <2>2. Promised!Effects(r, v.target, v.state) =
           {<<IF Exists(Whole(r)) THEN [Whole(r) EXCEPT !.form = g] ELSE Absent, v.state>>
              : g \in {FormOf(r), v.target.form}}
    BY <1>2, ContractEffects
  <2> QED
    BY <2>1, <2>2 DEF Makes
<1> QED
  BY <1>1, <1>2 DEF Replacing

LEMMA DuckReplacesRuns ==
  ASSUME TypeOK, call # Idle, todo # <<>>, engine = "duckdb",
         DuckReplaces(call, last.table, todo, db, tx)
  PROVE  Runs
<1>1. tx = NoTx /\ View = db /\ call.kind \in {"full", "sql_full"}
  BY DEF DuckReplaces, View
<1>2. CASE todo = <<"reject">>
  <2>1. Head(todo) = "reject"
    BY <1>2
  <2> QED
    BY <1>1, <2>1, Results DEF Runs
<1>3. CASE todo = <<"create_or_replace">> /\ call.cols # {}
  <2>1. Head(todo) = "create_or_replace" /\ Tail(todo) = <<>>
    BY <1>3
  <2>2. ASSUME NEW w \in Replace(db, Chunk1(call)) PROVE Executed(w)
    <3>1. Whole(call) = Chunk1(call)
      BY <1>1, <1>3, Here, WholeForm DEF WellFormed
    <3>2. /\ w.target = [Whole(call) EXCEPT !.form = FormOf(call)] /\ w.state = db.state
      BY <2>2, <3>1, Here DEF Replace, Target, Databases
    <3>3. Moves(call, db, w)
      BY <1>1, <1>3, <3>2, Here, MakesWhole DEF Moves, Makes, Replacing
    <3>4. SameRows(w.target, Whole(call))
      BY <1>3, <3>2, Here, WholeForm DEF SameRows
    <3> QED
      BY <1>1, <2>1, <3>3, <3>4 DEF Executed, Place, DuckPlace, DuckReplaces
  <2>3. Result(Head(todo), View) = Replace(db, Chunk1(call))
    BY <1>1, <2>1, Results
  <2> QED
    BY <2>1, <2>2, <2>3 DEF Runs
<1> QED
  BY <1>2, <1>3 DEF DuckReplaces

LEMMA DuckChunkStatements ==
  ASSUME NEW r
  PROVE  LET next == <<"stage_next">> \o DuckSwap
             rest == When(r.more # {}, <<"stage_next">>) \o DuckSwap
         IN  /\ Head(next) = "stage_next" /\ Tail(next) = DuckSwap /\ next # <<>>
             /\ Head(<<"stage">> \o rest) = "stage" /\ Tail(<<"stage">> \o rest) = rest
             /\ rest = IF r.more # {} THEN next ELSE DuckSwap
             /\ Head(DuckSwap) = "begin"
             /\ Tail(DuckSwap) = <<"drop_target", "rename_staging", "commit">>
<1>1. "stage" \in Bracketed /\ "stage_next" \in Bracketed /\ DuckSwap \in Seq(Bracketed)
  BY BracketedPieces DEF Bracketed, Statements
<1>2. When(r.more # {}, <<"stage_next">>) \o DuckSwap
        = IF r.more # {} THEN <<"stage_next">> \o DuckSwap ELSE DuckSwap
  BY <1>1, NothingBefore DEF When
<1>3. Head(DuckSwap) = "begin" /\ Tail(DuckSwap) = <<"drop_target", "rename_staging", "commit">>
  BY DEF DuckSwap
<1>4. \A s \in Seq(Bracketed) :
         /\ Head(<<"stage">> \o s) = "stage" /\ Tail(<<"stage">> \o s) = s
         /\ Head(<<"stage_next">> \o s) = "stage_next" /\ Tail(<<"stage_next">> \o s) = s
         /\ <<"stage_next">> \o s # <<>> /\ <<"stage_next">> \o s \in Seq(Bracketed)
  BY <1>1, AfterHead
<1> QED
  BY <1>1, <1>2, <1>3, <1>4

LEMMA DuckReplacesChunksRuns ==
  ASSUME TypeOK, call # Idle, todo # <<>>, engine = "duckdb",
         DuckReplacesChunks(call, last.table, todo, db, tx)
  PROVE  Runs
<1> DEFINE r == call t0 == last.table
<1>0. /\ r.kind = "chunks" /\ r.keys # {} /\ r.cols # {} /\ Whole(r) = Chunked(r)
      /\ r.more = {} => Whole(r) = Chunk1(r)
      /\ [Whole(r) EXCEPT !.form = FormOf(r)] = Whole(r)
  BY Here, WholeForm DEF DuckReplacesChunks, WellFormed
<1>1. \A w : DuckReplacesChunks(r, t0, Tail(todo), w, NoTx) /\ w.target = db.target
              /\ w.state = db.state /\ tx = NoTx => Executed(w)
  BY DEF Executed, Place, DuckPlace, Moves
<1>2. \A w : DuckReplacesChunks(r, t0, Tail(todo), db, w) /\ tx # NoTx => Executed(w)
  BY DEF Executed, Place, DuckPlace
<1>3. \A t : [db EXCEPT !.staging = t].target = db.target
             /\ [db EXCEPT !.staging = t].state = db.state
             /\ [db EXCEPT !.staging = t].staging = t
  BY Here DEF Databases
<1>4. CASE db.target = t0 /\ tx = NoTx
           /\ todo = <<"stage">> \o (When(r.more # {}, <<"stage_next">>) \o DuckSwap)
  <2>1. Head(todo) = "stage" /\ View = db
        /\ Tail(todo) = IF r.more # {} THEN <<"stage_next">> \o DuckSwap ELSE DuckSwap
    BY <1>4, DuckChunkStatements DEF View
  <2>2. ASSUME NEW w \in Staging(db, Chunk1(r)) PROVE Executed(w)
    <3>1. /\ w.target = db.target /\ w.state = db.state /\ w.staging = Chunk1(r)
      BY <1>3, <2>2 DEF Staging
    <3>2. r.kind = "chunks" /\ r.keys # {} /\ (r.more = {} => w.staging = Whole(r)) /\ w.target = t0
      BY <1>0, <1>4, <3>1
    <3>3. DuckReplacesChunks(r, t0, Tail(todo), w, NoTx)
      BY ONLY <2>1, <3>2 DEF DuckReplacesChunks
    <3> QED
      BY <1>1, <1>4, <3>1, <3>3
  <2>3. Result(Head(todo), View) = Staging(db, Chunk1(r))
    BY <2>1, Results
  <2> QED
    BY <2>1, <2>2, <2>3 DEF Runs
<1>5. CASE db.target = t0 /\ tx = NoTx /\ todo = <<"stage_next">> \o DuckSwap
  <2>1. Head(todo) = "stage_next" /\ View = db /\ Tail(todo) = DuckSwap
    BY <1>5, DuckChunkStatements DEF View
  <2>2. ASSUME NEW w \in Staging(db, Chunked(r)) PROVE Executed(w)
    <3>1. /\ w.target = db.target /\ w.state = db.state /\ w.staging = Chunked(r)
      BY <1>3, <2>2 DEF Staging
    <3>2. r.kind = "chunks" /\ r.keys # {} /\ w.staging = Whole(r) /\ w.target = t0
      BY <1>0, <1>5, <3>1
    <3>3. DuckReplacesChunks(r, t0, Tail(todo), w, NoTx)
      BY ONLY <2>1, <3>2 DEF DuckReplacesChunks
    <3> QED
      BY <1>1, <1>5, <3>1, <3>3
  <2>3. Result(Head(todo), View) = Staging(db, Chunked(r))
    BY <2>1, Results
  <2> QED
    BY <2>1, <2>2, <2>3 DEF Runs
<1>6. CASE db.target = t0 /\ db.staging = Whole(r) /\ tx = NoTx /\ todo = DuckSwap
  <2>1. Head(todo) = "begin" /\ Tail(todo) = <<"drop_target", "rename_staging", "commit">>
    BY <1>6, DuckChunkStatements
  <2>2. Started
    BY <1>0, <1>6, <2>1 DEF Started, Place, DuckPlace, DuckReplacesChunks
  <2> QED
    BY <2>1, <2>2, Results DEF Runs
<1>7. CASE db.target = t0 /\ db.staging = Whole(r) /\ tx = db
           /\ todo = <<"drop_target", "rename_staging", "commit">>
  <2>1. Head(todo) = "drop_target" /\ View = db /\ Tail(todo) = <<"rename_staging", "commit">>
        /\ tx # NoTx
    BY <1>7, Here DEF View
  <2>2. ASSUME NEW w \in Target(db, Absent) PROVE Executed(w)
    <3>1. DuckReplacesChunks(r, t0, Tail(todo), db, w)
      BY <1>0, <1>7, <2>1, <2>2 DEF Target, DuckReplacesChunks
    <3> QED
      BY <1>2, <2>1, <3>1
  <2>3. Result(Head(todo), View) = Target(db, Absent)
    BY <2>1, Results
  <2> QED
    BY <2>1, <2>2, <2>3 DEF Runs
<1>8. CASE /\ db.target = t0 /\ db.staging = Whole(r) /\ tx = [db EXCEPT !.target = Absent]
           /\ todo = <<"rename_staging", "commit">>
  <2>0. tx \in Databases /\ tx # NoTx /\ tx.staging = Whole(r)
    BY <1>8, Here, AbsentTyped DEF Databases, NoTx
  <2>1. Head(todo) = "rename_staging" /\ View = tx /\ Tail(todo) = <<"commit">>
    BY <1>8, <2>0 DEF View
  <2>2. ASSUME NEW w \in {[tx EXCEPT !.target = tx.staging, !.staging = Absent]}
        PROVE Executed(w)
    <3>1. w = [db EXCEPT !.target = Whole(r), !.staging = Absent]
      BY <1>8, <2>0, <2>2, Here DEF Databases
    <3>2. DuckReplacesChunks(r, t0, Tail(todo), db, w)
      BY <1>0, <1>8, <2>1, <3>1 DEF DuckReplacesChunks
    <3> QED
      BY <1>2, <2>0, <3>2
  <2>3. Result(Head(todo), View) = {[tx EXCEPT !.target = tx.staging, !.staging = Absent]}
    BY <2>1, Results
  <2> QED
    BY <2>1, <2>2, <2>3 DEF Runs
<1>9. CASE /\ db.target = t0 /\ db.staging = Whole(r) /\ todo = <<"commit">>
           /\ tx = [db EXCEPT !.target = Whole(r), !.staging = Absent]
  <2>1. Head(todo) = "commit" /\ Tail(todo) = <<>>
    BY <1>9
  <2>2. tx.target = Whole(r) /\ tx.state = db.state
    BY <1>9, Here DEF Databases
  <2>3. Moves(r, db, tx)
    BY <1>0, <2>2, Here, MakesWhole DEF Moves, Makes, Replacing
  <2>4. Committed
    BY <1>0, <2>1, <2>2, <2>3 DEF Committed, Place, DuckPlace, DuckReplacesChunks
  <2> QED
    BY <2>1, <2>4, Results DEF Runs
<1> QED
  BY <1>4, <1>5, <1>6, <1>7, <1>8, <1>9 DEF DuckReplacesChunks

\* A load without a chunk, or without a column, empties the table.
LEMMA EmptiesRuns ==
  ASSUME TypeOK, call # Idle, todo # <<>>, Empties(call, todo, db, tx),
         engine = "duckdb" => call.kind = "chunks"
  PROVE  Runs
<1>1. /\ tx = NoTx /\ View = db /\ call.kind \in Replacing /\ call.cols = {}
      /\ todo = <<"drop_target">> /\ db.staging = Absent
  BY DEF Empties, View
<1>2. Head(todo) = "drop_target" /\ Tail(todo) = <<>>
  BY <1>1
<1>3. ASSUME NEW w \in Target(db, Absent) PROVE Executed(w)
  <2>1. w.target = Absent /\ w.state = db.state /\ w.staging = Absent
    BY <1>1, <1>3, Here DEF Target, Databases
  <2>2. Whole(call) = Absent /\ ~Exists(Absent)
    BY <1>1, Here, WholeForm DEF Exists, Absent
  <2>3. Makes(call, db, w.target, w.state)
    BY <1>1, <2>1, <2>2, ContractEffects DEF Makes, Replacing
  <2>4. Empties(call, Tail(todo), w, NoTx)
    BY <1>1, <1>2, <2>1 DEF Empties
  <2> QED
    BY <1>1, <2>3, <2>4, Here DEF Executed, Moves, Place, DuckPlace, BqPlace
<1>4. Result(Head(todo), View) = Target(db, Absent)
  BY <1>1, <1>2, Results
<1> QED
  BY <1>2, <1>3, <1>4 DEF Runs

\* Tables that an operation leaves as they are.
LEMMA SameTable ==
  ASSUME NEW t \in Tables
  PROVE  /\ Padded(t, {}) = t
         /\ \A K : K \cap DOMAIN t.rows = {} => Without(t, K) = t
<1>1. t = [cols |-> t.cols, rows |-> t.rows, form |-> t.form] /\ t.rows \in Rows
  BY DEF Tables
<1>2. t.rows = [k \in DOMAIN t.rows |-> t.rows[k]]
  BY <1>1, RowsElim
<1>3. ASSUME NEW K, K \cap DOMAIN t.rows = {} PROVE Without(t, K) = t
  <2>1. DOMAIN t.rows \ K = DOMAIN t.rows
    BY <1>3
  <2>2. Without(t, K).rows = t.rows
    BY <1>2, <2>1, WithoutTyped
  <2>3. Without(t, K) \in Tables /\ Without(t, K).cols = t.cols /\ Without(t, K).form = t.form
    BY WithoutTyped
  <2> QED
    BY <1>1, <2>2, <2>3 DEF Tables
<1>4. Padded(t, {}) = t
  BY <1>1 DEF Padded
<1> QED
  BY <1>3, <1>4

\* Once the columns a plan adds are there, the same rows are loaded and nothing is left to add.
LEMMA PlanAfterWidening ==
  ASSUME NEW existing, NEW staged, NEW policy \in {"fail", "append_new_columns", "ignore"},
         NEW plan, plan = PlanSchemaChange(existing, staged, policy), plan.ok
  PROVE  /\ PlanSchemaChange(existing \cup plan.add, staged, policy).ok
         /\ PlanSchemaChange(existing \cup plan.add, staged, policy).load = plan.load
         /\ PlanSchemaChange(existing \cup plan.add, staged, policy).add = {}
<1> DEFINE new == staged \ existing removed == existing \ staged
           wide == existing \cup plan.add
<1>0. ASSUME wide = existing, plan.add = {} PROVE PlanSchemaChange(wide, staged, policy) = plan
  <2> HIDE DEF wide
  <2> QED
    BY <1>0
<1>1. CASE new = {} /\ removed = {}
  <2>1. plan = [ok |-> TRUE, load |-> staged, add |-> {}]
    BY <1>1 DEF PlanSchemaChange
  <2>2. wide = existing
    BY <2>1
  <2> QED
    BY <1>0, <2>1, <2>2
<1>2. CASE ~(new = {} /\ removed = {}) /\ policy = "append_new_columns"
  <2>1. plan = [ok |-> TRUE, load |-> staged, add |-> new]
    BY <1>2 DEF PlanSchemaChange
  <2>2. staged \ (existing \cup new) = {}
    OBVIOUS
  <2>3. PlanSchemaChange(existing \cup new, staged, policy)
          = [ok |-> TRUE, load |-> staged, add |-> {}]
    BY <1>2, <2>2 DEF PlanSchemaChange
  <2> QED
    BY <2>1, <2>3
<1>3. CASE ~(new = {} /\ removed = {}) /\ policy = "ignore"
  <2>1. plan = [ok |-> TRUE, load |-> staged \cap existing, add |-> {}]
    BY <1>3 DEF PlanSchemaChange
  <2>2. wide = existing
    BY <2>1
  <2> QED
    BY <1>0, <2>1, <2>2
<1>4. ~(new = {} /\ removed = {}) => policy # "fail"
  BY DEF PlanSchemaChange
<1> QED
  BY <1>1, <1>2, <1>3, <1>4

LEMMA MadeTyped ==
  ASSUME NEW r \in Shape, NEW t \in Tables
  PROVE  /\ Made(r, t) \in Tables /\ Wide(r, t) \in Tables /\ Thinned(r, t) \in Tables
         /\ Wide(r, t).cols = Made(r, t).cols \cup Plan(r, Made(r, t)).add
         /\ Wide(r, t).rows = Made(r, t).rows /\ Wide(r, t).form = Made(r, t).form
         /\ Thinned(r, t).cols = Wide(r, t).cols /\ Thinned(r, t).form = Wide(r, t).form
         /\ Thinned(r, t).rows = [k \in DOMAIN Wide(r, t).rows \ Changed(Wide(r, t), r)
                                    |-> Wide(r, t).rows[k]]
<1>1. Made(r, t) \in Tables
  BY ShapeFacts, TableTyped DEF Made, Null
<1>2. Plan(r, Made(r, t)).add \in SUBSET Columns
  BY <1>1, PlanTyped DEF Plan, Tables
<1>3. /\ Wide(r, t) \in Tables
      /\ Wide(r, t).cols = Made(r, t).cols \cup Plan(r, Made(r, t)).add
      /\ Wide(r, t).rows = Made(r, t).rows /\ Wide(r, t).form = Made(r, t).form
  BY <1>1, <1>2, PaddedTyped DEF Wide
<1> QED
  BY <1>1, <1>3, WithoutTyped DEF Thinned

\* Deleting the rows that changed and inserting the batch is the upsert.
LEMMA Reinserted ==
  ASSUME NEW r \in Shape, NEW t \in Tables, Fits(r, Made(r, t))
  PROVE  LET load == PlanSchemaChange(Thinned(r, t).cols, r.cols, r.policy).load
         IN  [Thinned(r, t) EXCEPT !.rows =
                Over([k \in r.keys \ DOMAIN @ |-> Row(load, r.value)], @)]
             = Upserted(Wide(r, t), r, Plan(r, Made(r, t)).load)
<1> DEFINE w == Wide(r, t) u == Thinned(r, t) C == Changed(w, r)
           load == PlanSchemaChange(u.cols, r.cols, r.policy).load
           F == [k \in r.keys \ DOMAIN u.rows |-> Row(load, r.value)]
           G == [k \in C |-> Row(load, r.value)]
<1>1. load = Plan(r, Made(r, t)).load
  <2>1. r.policy \in {"fail", "append_new_columns", "ignore"}
    BY DEF Shape
  <2> DEFINE P == PlanSchemaChange(Made(r, t).cols, r.cols, r.policy)
  <2>2. u.cols = Made(r, t).cols \cup P.add /\ P.ok
    BY MadeTyped DEF Plan, Fits
  <2>3. PlanSchemaChange(Made(r, t).cols \cup P.add, r.cols, r.policy).load = P.load
    BY <2>1, <2>2, PlanAfterWidening
  <2> QED
    BY <2>2, <2>3 DEF Plan
<1>2. u.rows = [k \in DOMAIN w.rows \ C |-> w.rows[k]]
  BY MadeTyped
<1>3. C \subseteq r.keys /\ r.keys \ DOMAIN w.rows \subseteq C
  BY DEF Changed
<1>4. r.keys \ DOMAIN u.rows = C
  BY <1>2, <1>3
<1>5. F = G
  BY <1>4
<1>6. DOMAIN G = C /\ DOMAIN u.rows = DOMAIN w.rows \ C
  BY <1>2
<1>7. Over(G, u.rows) = Over(G, w.rows)
  <2> HIDE DEF C, G
  <2>1. DOMAIN G \cup DOMAIN u.rows = DOMAIN G \cup DOMAIN w.rows
    BY <1>6
  <2>2. \A k \in DOMAIN G \cup DOMAIN w.rows : k \notin DOMAIN G => u.rows[k] = w.rows[k]
    BY <1>2, <1>6
  <2> QED
    BY <2>1, <2>2 DEF Over
<1>8. Upserted(w, r, load) = [w EXCEPT !.rows = Over(G, w.rows)]
  BY DEF Upserted
<1> HIDE DEF F, G, C, load
<1>9. [u EXCEPT !.rows = Over(F, @)] = [w EXCEPT !.rows = Over(G, w.rows)]
  <2>1. u \in Tables /\ w \in Tables /\ u.cols = w.cols /\ u.form = w.form
    BY MadeTyped
  <2> HIDE DEF u, w
  <2> QED
    BY <1>5, <1>7, <2>1 DEF Tables
<1> QED
  BY <1>1, <1>8, <1>9 DEF F, load

\* A frame merged into a table that was not there is the table of the frame.
LEMMA MergedIntoNothing ==
  ASSUME NEW r \in Shape, NEW t \in Tables, ~Exists(t)
  PROVE  /\ Fits(r, Made(r, t))
         /\ Upserted(Wide(r, t), r, Plan(r, Made(r, t)).load) = Chunk1(r)
<1> DEFINE m == Made(r, t)
<1>1. m = Table(r.cols, {}, Null, FormOf(r)) /\ m \in Tables
  BY MadeTyped DEF Made
<1>2. m.cols = r.cols /\ DOMAIN m.rows = {} /\ m.form = FormOf(r)
  BY <1>1 DEF Table
<1>3. Plan(r, m) = [ok |-> TRUE, load |-> r.cols, add |-> {}]
  <2>1. r.cols \ r.cols = {}
    OBVIOUS
  <2>2. PlanSchemaChange(r.cols, r.cols, r.policy) = [ok |-> TRUE, load |-> r.cols, add |-> {}]
    BY <2>1 DEF PlanSchemaChange
  <2> QED
    BY <1>2, <2>2 DEF Plan
<1>4. Wide(r, t) = m
  BY <1>1, <1>3, SameTable DEF Wide
<1>5. Changed(m, r) = r.keys
  BY <1>2 DEF Changed
<1> DEFINE G == [k \in r.keys |-> Row(r.cols, r.value)]
<1>6. Over(G, m.rows) = G
  <2>1. DOMAIN G = r.keys /\ G = [k \in r.keys |-> G[k]]
    OBVIOUS
  <2> HIDE DEF G
  <2> QED
    BY <1>2, <2>1 DEF Over
<1>7. Upserted(m, r, r.cols) = [m EXCEPT !.rows = G]
  BY <1>5, <1>6 DEF Upserted
<1>8. [m EXCEPT !.rows = G] = Chunk1(r)
  <2>1. [m EXCEPT !.rows = G] = [cols |-> r.cols, rows |-> G, form |-> FormOf(r)]
    BY <1>1, <1>2 DEF Tables
  <2> QED
    BY <2>1 DEF Chunk1, Table
<1> QED
  BY <1>3, <1>4, <1>7, <1>8 DEF Fits

\* What the statements of a merge make of the table is what the contract asks for.
LEMMA MergedAsPromised ==
  ASSUME NEW r \in Shape, NEW t \in Tables, r.kind \in Merging, Fits(r, Made(r, Base(r, t))),
         IF r.kind = "sql_incremental" THEN Exists(Base(r, t)) ELSE r.keys # {}
  PROVE  LET b == Base(r, t)
         IN  Upserted(Wide(r, b), r, Plan(r, Made(r, b)).load) \in Gets(r, t)
<1> DEFINE b == Base(r, t) u == Upserted(Wide(r, b), r, Plan(r, Made(r, b)).load)
<1>1. b \in Tables
  BY WithoutTyped DEF Base
<1>2. ASSUME Exists(b)
      PROVE  Made(r, b) = b /\ u = Upserted(Padded(b, Plan(r, b).add), r, Plan(r, b).load)
  BY <1>2 DEF Made, Wide
<1>3. r.kind # "sql_incremental" => u \in Promised!Merges(r, b)
  BY <1>1, <1>2, MergedIntoNothing, ContractMerges
<1>4. CASE r.kind = "incremental"
  BY <1>3, <1>4 DEF Gets, Base
<1>5. CASE r.kind = "children"
  BY <1>3, <1>5, ContractMerges DEF Gets, Base
<1>6. CASE r.kind = "sql_incremental"
  BY <1>2, <1>6, ContractMerges DEF Gets, Base
<1> QED
  BY <1>4, <1>5, <1>6 DEF Merging

LEMMA MergeStatements ==
  ASSUME NEW K \in Seq(Bracketed)
  PROVE  /\ Head(MergeRows \o K) = "create_missing"
         /\ Tail(MergeRows \o K) = <<"reconcile", "delete_matching", "insert">> \o K
         /\ Head(<<"reconcile", "delete_matching", "insert">> \o K) = "reconcile"
         /\ Tail(<<"reconcile", "delete_matching", "insert">> \o K)
              = <<"delete_matching", "insert">> \o K
         /\ Head(<<"delete_matching", "insert">> \o K) = "delete_matching"
         /\ Tail(<<"delete_matching", "insert">> \o K) = <<"insert">> \o K
         /\ Head(<<"insert">> \o K) = "insert" /\ Tail(<<"insert">> \o K) = K
<1>1. Head(MergeRows \o K) = "create_missing"
  BY DEF MergeRows
<1>2. Tail(MergeRows \o K) = <<"reconcile", "delete_matching", "insert">> \o K
  BY DEF MergeRows
<1>3. /\ Head(<<"reconcile", "delete_matching", "insert">> \o K) = "reconcile"
      /\ Tail(<<"reconcile", "delete_matching", "insert">> \o K)
            = <<"delete_matching", "insert">> \o K
  OBVIOUS
<1>4. /\ Head(<<"delete_matching", "insert">> \o K) = "delete_matching"
      /\ Tail(<<"delete_matching", "insert">> \o K) = <<"insert">> \o K
  OBVIOUS
<1>5. Head(<<"insert">> \o K) = "insert" /\ Tail(<<"insert">> \o K) = K
  OBVIOUS
<1> QED
  BY <1>1, <1>2, <1>3, <1>4, <1>5

LEMMA AfterMergeStatements ==
  ASSUME NEW r
  PROVE  /\ r.kind = "incremental" => AfterMerge(r) = <<"commit">>
         /\ r.kind = "sql_incremental" =>
              AfterMerge(r) = <<"commit", "count", "drop_staging">>
         /\ r.kind = "children" =>
              /\ r.records = {} => AfterMerge(r) = <<"commit">>
              /\ r.records # {} => AfterMerge(r) = <<"upsert_state">> \o <<"commit">>
         /\ r.kind \in Merging => AfterMerge(r) \in Seq(Bracketed)
<1>1. <<"commit", "count", "drop_staging">> \in Seq(Bracketed) /\ <<"commit">> \in Seq(Bracketed)
  BY DEF Bracketed, Statements
<1>2. <<"upsert_state">> \o <<"commit">> \in Seq(Bracketed) /\ <<>> \o <<"commit">> = <<"commit">>
  BY <1>1, BracketedPieces, NothingBefore, ConcatProperties
<1> QED
  BY <1>1, <1>2 DEF AfterMerge, Merging, When

\* The transaction's own view and the database it began on.
LEMMA OpenedFields ==
  ASSUME NEW v \in Databases, NEW x \in Databases, NEW t, NEW s, Opened(v, x, t, s)
  PROVE  /\ x.target = t /\ x.state = s
         /\ \A u : /\ [x EXCEPT !.target = u] = [v EXCEPT !.target = u, !.state = s]
                   /\ [x EXCEPT !.state = u] = [v EXCEPT !.target = t, !.state = u]
  BY DEF Opened, Databases

LEMMA OpenedNow == \A v \in Databases : Opened(v, v, v.target, v.state)
  BY DEF Opened, Databases

LEMMA CommitMerge ==
  ASSUME TypeOK, call # Idle, call.kind \in Merging, call.clean, tx # NoTx,
         NEW w \in Gets(call, db.target), NEW s, Opened(db, tx, w, s),
         s = IF call.kind = "children" THEN Recorded(db.state, call.records, call.value)
             ELSE db.state
  PROVE  Moves(call, db, tx)
<1>0. db \in Databases /\ tx \in Databases
  BY Here
<1>1. tx.target = w /\ tx.state = s
  BY <1>0, OpenedFields
<1>2. <<w, s>> \in Promised!Effects(call, db.target, db.state)
  BY ContractEffects DEF Gets, Merging
<1> QED
  BY <1>1, <1>2 DEF Moves, Makes

LEMMA DuckMergesRuns ==
  ASSUME TypeOK, call # Idle, todo # <<>>, engine = "duckdb", tx # NoTx,
         DuckMerges(call, todo, db, tx)
  PROVE  Runs
<1> DEFINE r == call K == AfterMerge(r) t == Base(r, db.target) s == db.state
<1>0. /\ r \in Shape /\ r.kind \in Merging /\ r.clean /\ K \in Seq(Bracketed)
      /\ db \in Databases /\ tx \in Databases /\ View = tx /\ t \in Tables
      /\ r.value \in Nat
  <2>1. db.target \in Tables /\ db \in Databases /\ tx \in Databases
    BY Here
  <2> QED
    BY <2>1, Here, WithoutTyped, AfterMergeStatements DEF DuckMerges, View, Base
<1>1. \A w : DuckMerges(r, Tail(todo), db, w) => Executed(w)
  BY DEF Executed, Place, DuckPlace
<1>2. CASE /\ r.kind # "sql_incremental" /\ r.keys # {}
           /\ todo = MergeRows \o K /\ Opened(db, tx, t, s)
  <2>1. Head(todo) = "create_missing"
        /\ Tail(todo) = <<"reconcile", "delete_matching", "insert">> \o K
    BY <1>0, <1>2, MergeStatements
  <2>2. ASSUME NEW w \in CreateMissing(tx) PROVE Executed(w)
    <3>1. w = [db EXCEPT !.target = Made(r, t), !.state = s]
      <4>1. /\ tx.target = t /\ tx = [db EXCEPT !.target = t, !.state = s]
            /\ \A u : [tx EXCEPT !.target = u] = [db EXCEPT !.target = u, !.state = s]
        <5> HIDE DEF t, s
        <5>1. Opened(db, tx, t, s)
          BY <1>2 DEF t, s
        <5>2. /\ tx.target = t /\ \A u : [tx EXCEPT !.target = u] = [db EXCEPT !.target = u, !.state = s]
          BY <1>0, <5>1 DEF Opened, Databases
        <5> QED
          BY <5>1, <5>2 DEF Opened
      <4>2. w = IF Exists(t) THEN tx ELSE [tx EXCEPT !.target = Made(r, t)]
        BY <2>2, <4>1 DEF CreateMissing, Target, Made
      <4>3. Exists(t) => Made(r, t) = t
        BY DEF Made
      <4> QED
        BY <4>1, <4>2, <4>3
    <3>2. DuckMerges(r, Tail(todo), db, w)
      BY <1>0, <1>2, <2>1, <3>1 DEF DuckMerges, Opened
    <3> QED
      BY <1>1, <3>2
  <2>3. Result(Head(todo), View) = CreateMissing(tx)
    BY <1>0, <2>1, Results
  <2> QED
    BY <2>1, <2>2, <2>3 DEF Runs
<1>3. CASE /\ r.kind # "sql_incremental" /\ r.keys # {} /\ Opened(db, tx, Made(r, t), s)
           /\ todo = <<"reconcile", "delete_matching", "insert">> \o K
  <2>1. Head(todo) = "reconcile" /\ Tail(todo) = <<"delete_matching", "insert">> \o K
    BY <1>0, <1>3, MergeStatements
  <2>2. ASSUME NEW w \in Reconcile(tx) PROVE Executed(w)
    <3>0. tx.target = Made(r, t)
      BY <1>0, <1>3, OpenedFields
    <3>1. Fits(r, Made(r, t)) /\ w = [tx EXCEPT !.target = Wide(r, t)]
      BY <2>2, <3>0 DEF Reconcile, Target, Fits, Plan, Wide
    <3>2. Opened(db, w, Wide(r, t), s)
      BY <1>0, <1>3, <3>1, OpenedFields DEF Opened
    <3>3. DuckMerges(r, Tail(todo), db, w)
      BY <1>0, <1>3, <2>1, <3>1, <3>2 DEF DuckMerges
    <3> QED
      BY <1>1, <3>3
  <2>3. Result(Head(todo), View) = Reconcile(tx)
    BY <1>0, <2>1, Results
  <2> QED
    BY <2>1, <2>2, <2>3 DEF Runs
<1>4. CASE /\ Fits(r, Made(r, t)) /\ Opened(db, tx, Wide(r, t), s)
           /\ IF r.kind = "sql_incremental" THEN Exists(t) ELSE r.keys # {}
           /\ todo = <<"delete_matching", "insert">> \o K
  <2>1. Head(todo) = "delete_matching" /\ Tail(todo) = <<"insert">> \o K
    BY <1>0, <1>4, MergeStatements
  <2>2. ASSUME NEW w \in DeleteMatching(tx) PROVE Executed(w)
    <3>1. w = [tx EXCEPT !.target = Thinned(r, t)]
      <4>1. tx.target = Wide(r, t)
        BY <1>0, <1>4, OpenedFields
      <4> QED
        BY <2>2, <4>1 DEF DeleteMatching, Target, Thinned
    <3>2. Opened(db, w, Thinned(r, t), s)
      BY <1>0, <1>4, <3>1, OpenedFields DEF Opened
    <3>3. DuckMerges(r, Tail(todo), db, w)
      BY <1>0, <1>4, <2>1, <3>2 DEF DuckMerges
    <3> QED
      BY <1>1, <3>3
  <2>3. Result(Head(todo), View) = DeleteMatching(tx)
    BY <1>0, <2>1, Results
  <2> QED
    BY <2>1, <2>2, <2>3 DEF Runs
<1>5. CASE /\ Fits(r, Made(r, t)) /\ Opened(db, tx, Thinned(r, t), s)
           /\ IF r.kind = "sql_incremental" THEN Exists(t) ELSE r.keys # {}
           /\ todo = <<"insert">> \o K
  <2>1. Head(todo) = "insert" /\ Tail(todo) = K
    BY <1>0, <1>5, MergeStatements
  <2> DEFINE m == Upserted(Wide(r, t), r, Plan(r, Made(r, t)).load)
  <2>2. ASSUME NEW w \in Insert(tx) PROVE Executed(w)
    <3>1. w = [tx EXCEPT !.target = [Thinned(r, t) EXCEPT !.rows =
                 Over([k \in r.keys \ DOMAIN @ |->
                         Row(PlanSchemaChange(Thinned(r, t).cols, r.cols, r.policy).load, r.value)], @)]]
      <4>1. tx.target = Thinned(r, t)
        BY <1>0, <1>5, OpenedFields
      <4> QED
        BY <2>2, <4>1 DEF Insert, Target, Load
    <3>2. w = [tx EXCEPT !.target = m]
      BY <1>0, <1>5, <3>1, Reinserted
    <3> HIDE DEF m
    <3>3. Opened(db, w, m, s)
      BY <1>0, <1>5, <3>2, OpenedFields DEF Opened
    <3>4. m \in Gets(r, db.target)
      BY <1>0, <1>5, Here, MergedAsPromised DEF m
    <3>5. DuckMerges(r, Tail(todo), db, w)
      BY <1>0, <2>1, <3>3, <3>4 DEF DuckMerges
    <3> QED
      BY <1>1, <3>5
  <2>3. Result(Head(todo), View) = Insert(tx)
    BY <1>0, <2>1, Results
  <2> QED
    BY <2>1, <2>2, <2>3 DEF Runs
<1>6. ASSUME todo = K, NEW w \in Gets(r, db.target), Opened(db, tx, w, s)
      PROVE  Runs
  <2>1. CASE r.kind \in {"incremental", "sql_incremental"}
    <3>1. Head(todo) = "commit" /\ Tail(todo) \in {<<>>, <<"count", "drop_staging">>}
          /\ (r.kind = "incremental" => Tail(todo) = <<>>)
      <4>1. CASE r.kind = "incremental"
        <5>1. todo = <<"commit">>
          BY <1>6, <4>1, AfterMergeStatements
        <5> QED
          BY <5>1
      <4>2. CASE r.kind = "sql_incremental"
        <5>1. todo = <<"commit", "count", "drop_staging">>
          BY <1>6, <4>2, AfterMergeStatements
        <5> QED
          BY <4>2, <5>1
      <4> QED
        BY <2>1, <4>1, <4>2
    <3>2. Moves(r, db, tx)
      BY <1>0, <1>6, <2>1, CommitMerge
    <3>3. Committed
      BY <2>1, <3>1, <3>2 DEF Committed, Place, DuckPlace, DuckIncrements, DuckIncrementsSql
    <3> QED
      BY <3>1, <3>3, Results DEF Runs
  <2>2. CASE r.kind = "children" /\ r.records = {}
    <3>1. Head(todo) = "commit" /\ Tail(todo) = <<>>
      <4>1. todo = <<"commit">>
        BY <1>6, <2>2, AfterMergeStatements
      <4> QED
        BY <4>1
    <3>2. s = Recorded(s, r.records, r.value)
      BY <2>2, Here DEF Recorded, States
    <3>3. Moves(r, db, tx)
      BY <1>0, <1>6, <2>2, <3>2, CommitMerge
    <3>4. Committed
      BY <2>2, <3>1, <3>3 DEF Committed, Place, DuckPlace, DuckReplacesChildren
    <3> QED
      BY <3>1, <3>4, Results DEF Runs
  <2>3. CASE r.kind = "children" /\ r.records # {}
    <3>1. Head(todo) = "upsert_state" /\ Tail(todo) = <<"commit">>
      <4>1. todo = <<"upsert_state">> \o <<"commit">>
        BY <1>6, <2>3, AfterMergeStatements
      <4>2. "upsert_state" \in Bracketed /\ <<"commit">> \in Seq(Bracketed)
        BY BracketedPieces DEF Bracketed, Statements
      <4> QED
        BY <4>1, <4>2, AfterHead
    <3>2. ASSUME NEW u \in UpsertState(tx) PROVE Executed(u)
      <4>1. u = [tx EXCEPT !.state = Recorded(s, r.records, r.value)]
        <5>1. tx.state = s
          BY <1>0, <1>6, OpenedFields
        <5> QED
          BY <3>2, <5>1 DEF UpsertState, Records
      <4>2. Opened(db, u, w, Recorded(s, r.records, r.value))
        BY <1>0, <1>6, <4>1, OpenedFields DEF Opened
      <4>3. DuckReplacesChildren(r, Tail(todo), db, u)
        BY <1>0, <1>6, <2>3, <3>1, <4>2 DEF DuckReplacesChildren
      <4> QED
        BY <4>3 DEF Executed, Place, DuckPlace
    <3>3. Result(Head(todo), View) = UpsertState(tx)
      BY <1>0, <3>1, Results
    <3> QED
      BY <3>1, <3>2, <3>3 DEF Runs
  <2> QED
    BY <1>0, <2>1, <2>2, <2>3 DEF Merging
<1> QED
  BY <1>2, <1>3, <1>4, <1>5, <1>6 DEF DuckMerges

LEMMA DuckIncrementsRuns ==
  ASSUME TypeOK, call # Idle, todo # <<>>, engine = "duckdb",
         DuckIncrements(call, todo, db, tx)
  PROVE  Runs
<1>1. tx = NoTx /\ View = db /\ call.kind = "incremental"
  BY DEF DuckIncrements, View
<1>2. CASE todo = <<"reject">>
  <2>1. Head(todo) = "reject"
    BY <1>2
  <2> QED
    BY <2>1, Results DEF Runs
<1>3. CASE todo = <<"begin">> \o (MergeRows \o <<"commit">>) /\ call.clean /\ call.keys # {}
  <2>1. Head(todo) = "begin" /\ Tail(todo) = MergeRows \o <<"commit">>
    <3>1. MergeRows \o <<"commit">> \in Seq(Bracketed) /\ "begin" \in Bracketed
      BY BracketedPieces, ConcatProperties DEF Bracketed
    <3> QED
      BY <1>3, <3>1, AfterHead
  <2>2. AfterMerge(call) = <<"commit">> /\ Base(call, db.target) = db.target
    BY <1>1, AfterMergeStatements DEF Base
  <2>3. Opened(db, db, db.target, db.state)
    BY Here, OpenedNow
  <2>4. DuckMerges(call, Tail(todo), db, db)
    BY <1>1, <1>3, <2>1, <2>2, <2>3 DEF DuckMerges, Merging
  <2>5. Started
    BY <2>4 DEF Started, Place, DuckPlace
  <2> QED
    BY <2>1, <2>5, Results DEF Runs
<1> QED
  BY <1>2, <1>3 DEF DuckIncrements

LEMMA SqlStatements ==
  /\ Head(<<"stage", "check_keys", "reconcile", "begin">> \o SqlMerge) = "stage"
  /\ Tail(<<"stage", "check_keys", "reconcile", "begin">> \o SqlMerge)
       = <<"check_keys", "reconcile", "begin">> \o SqlMerge
  /\ Head(<<"check_keys", "reconcile", "begin">> \o SqlMerge) = "check_keys"
  /\ Tail(<<"check_keys", "reconcile", "begin">> \o SqlMerge) = <<"reconcile", "begin">> \o SqlMerge
  /\ Head(<<"reconcile", "begin">> \o SqlMerge) = "reconcile"
  /\ Tail(<<"reconcile", "begin">> \o SqlMerge) = <<"begin">> \o SqlMerge
  /\ Head(<<"begin">> \o SqlMerge) = "begin" /\ Tail(<<"begin">> \o SqlMerge) = SqlMerge
<1>1. SqlMerge \in Seq(Bracketed)
  <2>1. <<"delete_matching", "insert">> \in Seq(Bracketed)
        /\ <<"commit", "count", "drop_staging">> \in Seq(Bracketed)
    BY DEF Bracketed, Statements
  <2> QED
    BY <2>1, ConcatProperties DEF SqlMerge
<1>2. ASSUME NEW s \in Seq(Bracketed)
      PROVE  /\ Head(<<"stage", "check_keys", "reconcile", "begin">> \o s) = "stage"
             /\ Tail(<<"stage", "check_keys", "reconcile", "begin">> \o s)
                  = <<"check_keys", "reconcile", "begin">> \o s
  OBVIOUS
<1>3. ASSUME NEW s \in Seq(Bracketed)
      PROVE  /\ Head(<<"check_keys", "reconcile", "begin">> \o s) = "check_keys"
             /\ Tail(<<"check_keys", "reconcile", "begin">> \o s) = <<"reconcile", "begin">> \o s
  OBVIOUS
<1>4. ASSUME NEW s \in Seq(Bracketed)
      PROVE  /\ Head(<<"reconcile", "begin">> \o s) = "reconcile"
             /\ Tail(<<"reconcile", "begin">> \o s) = <<"begin">> \o s
             /\ Head(<<"begin">> \o s) = "begin" /\ Tail(<<"begin">> \o s) = s
  OBVIOUS
<1> QED
  BY <1>1, <1>2, <1>3, <1>4

\* A plan carried out once finds nothing more to do.
LEMMA ReadyAfterReconcile ==
  ASSUME NEW r \in Shape, NEW t \in Tables, Fits(r, t)
  PROVE  /\ Exists(t) => Ready(r, Padded(t, Plan(r, t).add))
         /\ Padded(t, Plan(r, t).add) = t
            \/ (r.policy = "append_new_columns" /\ Plan(r, t).add \in SUBSET r.cols)
         /\ Padded(t, Plan(r, t).add) \in Tables
<1> DEFINE P == PlanSchemaChange(t.cols, r.cols, r.policy) u == Padded(t, P.add)
<1>1. r.policy \in {"fail", "append_new_columns", "ignore"} /\ P.ok
  BY DEF Shape, Fits, Plan
<1>2. P.add \in SUBSET Columns /\ P.add \in SUBSET r.cols
  BY PlanTyped DEF Tables
<1>3. u \in Tables /\ u.cols = t.cols \cup P.add
  BY <1>2, PaddedTyped
<1>4. P.add = {} \/ r.policy = "append_new_columns"
  BY <1>1 DEF PlanSchemaChange
<1>5. P.add = {} => u = t
  BY SameTable
<1>6. Exists(t) => Ready(r, u)
  <2>1. /\ PlanSchemaChange(t.cols \cup P.add, r.cols, r.policy).ok
        /\ PlanSchemaChange(t.cols \cup P.add, r.cols, r.policy).add = {}
    BY <1>1, PlanAfterWidening
  <2>2. Exists(t) => Exists(u)
    BY <1>3 DEF Exists
  <2> HIDE DEF u
  <2> QED
    BY <1>3, <2>1, <2>2 DEF Ready, Fits, Plan
<1> QED
  BY <1>2, <1>3, <1>4, <1>5, <1>6 DEF Plan

LEMMA ReconciledMoves ==
  ASSUME TypeOK, call # Idle, call.kind \in Merging, Exists(db.target), NEW w \in Reconcile(db)
  PROVE  /\ Ready(call, w.target) /\ Moves(call, db, w) /\ w \in Databases
         /\ w.staging = db.staging /\ w.replacement = db.replacement
<1> DEFINE t == db.target u == Padded(t, Plan(call, t).add)
<1>1. Fits(call, t) /\ w = [db EXCEPT !.target = u]
  BY DEF Reconcile, Target, Fits, Plan
<1>2. t \in Tables /\ call \in Shape
  BY Here
<1>3. /\ Ready(call, u) /\ u \in Tables
      /\ u = t \/ (call.policy = "append_new_columns" /\ Plan(call, t).add \in SUBSET call.cols)
  BY <1>1, <1>2, ReadyAfterReconcile
<1>4. /\ w.target = u /\ w.state = db.state /\ w \in Databases
      /\ w.staging = db.staging /\ w.replacement = db.replacement
  <2> HIDE DEF u
  <2> QED
    BY <1>1, <1>3, Here DEF Databases
<1>5. Moves(call, db, w)
  BY <1>3, <1>4 DEF Moves, Widens
<1> QED
  BY <1>3, <1>4, <1>5

LEMMA DuckIncrementsSqlRuns ==
  ASSUME TypeOK, call # Idle, todo # <<>>, engine = "duckdb",
         DuckIncrementsSql(call, todo, db, tx)
  PROVE  Runs
<1> DEFINE r == call
<1>0. tx = NoTx /\ View = db /\ r.kind = "sql_incremental"
  BY DEF DuckIncrementsSql, View
<1>1. \A w : DuckIncrementsSql(r, Tail(todo), w, NoTx) /\ Moves(r, db, w) => Executed(w)
  BY <1>0 DEF Executed, Place, DuckPlace
<1>2. \A t : /\ Moves(r, db, [db EXCEPT !.staging = t]) /\ Moves(r, db, db)
             /\ [db EXCEPT !.staging = t].target = db.target
  BY Here DEF Databases, Moves
<1>3. CASE Exists(db.target) /\ todo = <<"stage", "check_keys", "reconcile", "begin">> \o SqlMerge
  <2>1. Head(todo) = "stage" /\ Tail(todo) = <<"check_keys", "reconcile", "begin">> \o SqlMerge
    BY <1>3, SqlStatements
  <2>2. ASSUME NEW w \in Staging(db, Chunk1(r)) PROVE Executed(w)
    BY <1>0, <1>1, <1>2, <1>3, <2>1, <2>2 DEF Staging, DuckIncrementsSql
  <2>3. Result(Head(todo), View) = Staging(db, Chunk1(r))
    BY <1>0, <2>1, Results
  <2> QED
    BY <2>1, <2>2, <2>3 DEF Runs
<1>4. CASE Exists(db.target) /\ todo = <<"check_keys", "reconcile", "begin">> \o SqlMerge
  <2>1. Head(todo) = "check_keys" /\ Tail(todo) = <<"reconcile", "begin">> \o SqlMerge
    BY <1>4, SqlStatements
  <2>2. r.clean => Executed(db)
    BY <1>0, <1>1, <1>2, <1>4, <2>1 DEF DuckIncrementsSql
  <2>3. Result(Head(todo), View) = IF r.clean THEN {db} ELSE {}
    BY <1>0, <2>1, Results
  <2> QED
    BY <2>1, <2>2, <2>3 DEF Runs
<1>5. CASE Exists(db.target) /\ todo = <<"reconcile", "begin">> \o SqlMerge /\ r.clean
  <2>1. Head(todo) = "reconcile" /\ Tail(todo) = <<"begin">> \o SqlMerge
    BY <1>5, SqlStatements
  <2>2. ASSUME NEW w \in Reconcile(db) PROVE Executed(w)
    <3>1. Ready(r, w.target) /\ Moves(r, db, w)
      BY <1>0, <1>5, <2>2, ReconciledMoves DEF Merging
    <3> QED
      BY <1>0, <1>1, <1>5, <2>1, <3>1 DEF DuckIncrementsSql, Ready
  <2>3. Result(Head(todo), View) = Reconcile(db)
    BY <1>0, <2>1, Results
  <2> QED
    BY <2>1, <2>2, <2>3 DEF Runs
<1>6. CASE todo = <<"begin">> \o SqlMerge /\ r.clean /\ Ready(r, db.target)
  <2>1. Head(todo) = "begin" /\ Tail(todo) = SqlMerge
    BY <1>6, SqlStatements
  <2>2. AfterMerge(r) = <<"commit", "count", "drop_staging">> /\ Base(r, db.target) = db.target
    BY <1>0, AfterMergeStatements DEF Base
  <2>3. Made(r, db.target) = db.target /\ Wide(r, db.target) = db.target
        /\ Fits(r, db.target) /\ Exists(db.target)
    BY <1>6, Here, SameTable DEF Ready, Made, Wide
  <2>4. Opened(db, db, db.target, db.state)
    BY Here, OpenedNow
  <2>5. DuckMerges(r, Tail(todo), db, db)
    BY <1>0, <1>6, <2>1, <2>2, <2>3, <2>4 DEF DuckMerges, Merging, SqlMerge
  <2>6. Started
    BY <2>5 DEF Started, Place, DuckPlace
  <2> QED
    BY <2>1, <2>6, Results DEF Runs
<1>7. CASE todo = <<"count", "drop_staging">>
  <2>1. Head(todo) = "count" /\ Tail(todo) = <<"drop_staging">>
    BY <1>7
  <2>2. Executed(db)
    BY <1>0, <1>1, <1>2, <2>1 DEF DuckIncrementsSql
  <2>3. Result(Head(todo), View) = {db}
    BY <1>0, <2>1, Results
  <2> QED
    BY <2>1, <2>2, <2>3 DEF Runs
<1>8. CASE todo = <<"drop_staging">>
  <2>1. Head(todo) = "drop_staging" /\ Tail(todo) = <<>>
    BY <1>8
  <2>2. ASSUME NEW w \in Staging(db, Absent) PROVE Executed(w)
    BY <1>0, <1>1, <1>2, <2>1, <2>2 DEF Staging, DuckIncrementsSql
  <2>3. Result(Head(todo), View) = Staging(db, Absent)
    BY <1>0, <2>1, Results
  <2> QED
    BY <2>1, <2>2, <2>3 DEF Runs
<1> QED
  BY <1>0, <1>3, <1>4, <1>5, <1>6, <1>7, <1>8 DEF DuckIncrementsSql

LEMMA OpenedTx ==
  ASSUME NEW v \in Databases, NEW x, NEW t, NEW s, Opened(v, x, t, s)
  PROVE  x # NoTx
  BY DEF Opened, Databases, NoTx

LEMMA ChildStatements ==
  ASSUME NEW r, r.kind = "children"
  PROVE  LET rest == DuckChildrenLeft(r)
         IN  /\ rest \in Seq(Bracketed)
             /\ r.keys # {} => rest = MergeRows \o AfterMerge(r)
             /\ r.keys = {} => rest = AfterMerge(r)
             /\ Head(<<"delete_parents">> \o rest) = "delete_parents"
             /\ Tail(<<"delete_parents">> \o rest) = rest
             /\ \A q \in {rest, <<"delete_parents">> \o rest} :
                   Head(<<"begin">> \o q) = "begin" /\ Tail(<<"begin">> \o q) = q
<1> DEFINE rest == DuckChildrenLeft(r)
<1>1. AfterMerge(r) \in Seq(Bracketed) /\ MergeRows \in Seq(Bracketed)
  BY AfterMergeStatements, BracketedPieces DEF Merging
<1>2. <<>> \o AfterMerge(r) = AfterMerge(r) /\ MergeRows \o AfterMerge(r) \in Seq(Bracketed)
  BY <1>1, NothingBefore, ConcatProperties
<1>3. /\ rest \in Seq(Bracketed)
      /\ r.keys # {} => rest = MergeRows \o AfterMerge(r)
      /\ r.keys = {} => rest = AfterMerge(r)
  BY <1>1, <1>2 DEF DuckChildrenLeft, When
<1>4. \A s \in Seq(Bracketed) :
        /\ Head(<<"delete_parents">> \o s) = "delete_parents" /\ Tail(<<"delete_parents">> \o s) = s
        /\ Head(<<"begin">> \o s) = "begin" /\ Tail(<<"begin">> \o s) = s
        /\ <<"delete_parents">> \o s \in Seq(Bracketed)
  BY AfterHead DEF Bracketed, Statements
<1> HIDE DEF rest
<1> QED
  BY <1>3, <1>4 DEF rest

\* Where a replacement of children goes on once the rows of its parents are gone.
LEMMA ChildrenGoOn ==
  ASSUME NEW r \in Shape, r.kind = "children", r.clean, NEW v \in Databases, NEW x,
         Opened(v, x, Base(r, v.target), v.state)
  PROVE  DuckMerges(r, DuckChildrenLeft(r), v, x)
<1>1. CASE r.keys # {}
  <2>1. DuckChildrenLeft(r) = MergeRows \o AfterMerge(r)
    BY <1>1, ChildStatements
  <2> QED
    BY <1>1, <2>1 DEF DuckMerges, Merging
<1>2. CASE r.keys = {}
  <2>1. DuckChildrenLeft(r) = AfterMerge(r)
    BY <1>2, ChildStatements
  <2>2. Base(r, v.target) \in Gets(r, v.target)
    BY <1>2, ContractMerges DEF Gets, Base
  <2> QED
    BY <2>1, <2>2 DEF DuckMerges, Merging
<1> QED
  BY <1>1, <1>2

LEMMA DuckReplacesChildrenRuns ==
  ASSUME TypeOK, call # Idle, todo # <<>>, engine = "duckdb", Sane(db.target),
         DuckReplacesChildren(call, todo, db, tx)
  PROVE  Runs
<1> DEFINE r == call rest == DuckChildrenLeft(r)
<1>0. r.kind = "children" /\ r \in Shape /\ db \in Databases /\ db # NoTx /\ db.target \in Tables
  BY Here DEF DuckReplacesChildren
<1>1. CASE todo = <<"reject">> /\ tx = NoTx
  <2>1. Head(todo) = "reject"
    BY <1>1
  <2> QED
    BY <2>1, Results DEF Runs
<1>2. CASE /\ tx = NoTx /\ r.clean
           /\ todo = <<"begin">> \o (When(Exists(db.target) /\ r.parents # {}, <<"delete_parents">>)
                                     \o DuckChildrenLeft(r))
  <2>1. CASE Exists(db.target) /\ r.parents # {}
    <3>1. When(Exists(db.target) /\ r.parents # {}, <<"delete_parents">>) = <<"delete_parents">>
      BY <2>1 DEF When
    <3>2. Head(todo) = "begin" /\ Tail(todo) = <<"delete_parents">> \o rest
      BY <1>0, <1>2, <3>1, ChildStatements
    <3>3. Started
      BY <1>0, <1>2, <3>2 DEF Started, Place, DuckPlace, DuckReplacesChildren
    <3> QED
      BY <3>2, <3>3, Results DEF Runs
  <2>2. CASE ~(Exists(db.target) /\ r.parents # {})
    <3>1. When(Exists(db.target) /\ r.parents # {}, <<"delete_parents">>) = <<>>
      BY <2>2 DEF When
    <3>2. <<>> \o rest = rest
      BY <1>0, ChildStatements, NothingBefore
    <3>3. Head(todo) = "begin" /\ Tail(todo) = rest
      BY <1>0, <1>2, <3>1, <3>2, ChildStatements
    <3>4. OfDocs(db.target, r.parents) \cap DOMAIN db.target.rows = {}
      BY <2>2 DEF OfDocs, Exists, Sane
    <3>5. Base(r, db.target) = db.target
      BY <1>0, <3>4, SameTable DEF Base
    <3>6. Opened(db, db, Base(r, db.target), db.state)
      BY <1>0, <3>5, OpenedNow
    <3>7. DuckMerges(r, rest, db, db)
      BY <1>0, <1>2, <3>6, ChildrenGoOn
    <3>8. Started
      BY <3>3, <3>7 DEF Started, Place, DuckPlace
    <3> QED
      BY <3>3, <3>8, Results DEF Runs
  <2> QED
    BY <2>1, <2>2
<1>3. CASE tx = db /\ r.clean /\ todo = <<"delete_parents">> \o rest
  <2>1. Head(todo) = "delete_parents" /\ Tail(todo) = rest /\ View = db /\ tx # NoTx
    BY <1>0, <1>3, ChildStatements DEF View
  <2>2. ASSUME NEW w \in DeleteParents(db) PROVE Executed(w)
    <3>1. w = [db EXCEPT !.target = Base(r, db.target)]
      BY <1>0, <2>2 DEF DeleteParents, Target, Base
    <3>2. Opened(db, w, Base(r, db.target), db.state)
      BY <1>0, <3>1 DEF Opened, Databases
    <3>3. DuckMerges(r, rest, db, w)
      BY <1>0, <1>3, <3>2, ChildrenGoOn
    <3> QED
      BY <2>1, <3>3 DEF Executed, Place, DuckPlace
  <2>3. Result(Head(todo), View) = DeleteParents(db)
    BY <2>1, Results
  <2> QED
    BY <2>1, <2>2, <2>3 DEF Runs
<1>4. ASSUME r.clean, todo = <<"commit">>, NEW w \in Gets(r, db.target),
             Opened(db, tx, w, Recorded(db.state, r.records, r.value))
      PROVE  Runs
  <2>1. Head(todo) = "commit" /\ Tail(todo) = <<>>
    BY <1>4
  <2>2. tx # NoTx
    BY <1>0, <1>4, OpenedTx
  <2>3. Moves(r, db, tx)
    BY <1>0, <1>4, <2>2, CommitMerge DEF Merging
  <2>4. Committed
    BY <1>0, <2>1, <2>3 DEF Committed, Place, DuckPlace, DuckReplacesChildren
  <2> QED
    BY <2>1, <2>4, Results DEF Runs
<1> QED
  BY <1>1, <1>2, <1>3, <1>4 DEF DuckReplacesChildren

LEMMA DeleteStatements ==
  ASSUME NEW r
  PROVE  LET rest == When(r.records # {}, <<"delete_state">>) \o <<"commit">>
         IN  /\ rest \in Seq(Bracketed)
             /\ r.records = {} => rest = <<"commit">>
             /\ r.records # {} => Head(rest) = "delete_state" /\ Tail(rest) = <<"commit">>
             /\ Head(<<"delete_keys">> \o rest) = "delete_keys"
             /\ Tail(<<"delete_keys">> \o rest) = rest
             /\ \A q \in {rest, <<"delete_keys">> \o rest} :
                   Head(<<"begin">> \o q) = "begin" /\ Tail(<<"begin">> \o q) = q
<1> DEFINE rest == When(r.records # {}, <<"delete_state">>) \o <<"commit">>
<1>1. \A s \in Seq(Bracketed) :
        /\ Head(<<"delete_keys">> \o s) = "delete_keys" /\ Tail(<<"delete_keys">> \o s) = s
        /\ Head(<<"delete_state">> \o s) = "delete_state" /\ Tail(<<"delete_state">> \o s) = s
        /\ Head(<<"begin">> \o s) = "begin" /\ Tail(<<"begin">> \o s) = s
        /\ <<"delete_keys">> \o s \in Seq(Bracketed) /\ <<"delete_state">> \o s \in Seq(Bracketed)
  BY AfterHead DEF Bracketed, Statements
<1>2. <<"commit">> \in Seq(Bracketed) /\ <<>> \o <<"commit">> = <<"commit">>
  BY BracketedPieces, NothingBefore
<1>3. /\ r.records = {} => rest = <<"commit">>
      /\ r.records # {} => rest = <<"delete_state">> \o <<"commit">>
  BY <1>2 DEF When
<1> HIDE DEF rest
<1>4. rest \in Seq(Bracketed)
  BY <1>1, <1>2, <1>3
<1>5. r.records # {} => Head(rest) = "delete_state" /\ Tail(rest) = <<"commit">>
  BY <1>1, <1>2, <1>3
<1>6. /\ Head(<<"delete_keys">> \o rest) = "delete_keys"
      /\ Tail(<<"delete_keys">> \o rest) = rest
      /\ <<"delete_keys">> \o rest \in Seq(Bracketed)
  BY <1>1, <1>4
<1>7. \A q \in {rest, <<"delete_keys">> \o rest} :
        Head(<<"begin">> \o q) = "begin" /\ Tail(<<"begin">> \o q) = q
  BY <1>1, <1>4, <1>6
<1>8. /\ rest \in Seq(Bracketed)
      /\ r.records = {} => rest = <<"commit">>
      /\ r.records # {} => Head(rest) = "delete_state" /\ Tail(rest) = <<"commit">>
      /\ Head(<<"delete_keys">> \o rest) = "delete_keys"
      /\ Tail(<<"delete_keys">> \o rest) = rest
      /\ \A q \in {rest, <<"delete_keys">> \o rest} :
            Head(<<"begin">> \o q) = "begin" /\ Tail(<<"begin">> \o q) = q
  BY <1>3, <1>4, <1>5, <1>6, <1>7
<1> QED
  BY <1>8, Zenon DEF rest

LEMMA DuckDeletesRuns ==
  ASSUME TypeOK, call # Idle, todo # <<>>, engine = "duckdb", Sane(db.target),
         DuckDeletes(call, todo, db, tx)
  PROVE  Runs
<1> DEFINE r == call rest == When(r.records # {}, <<"delete_state">>) \o <<"commit">>
           t == Without(db.target, r.keys)
<1>0. /\ r.kind = "delete" /\ r \in Shape /\ db \in Databases /\ db # NoTx
      /\ db.target \in Tables /\ db.state \in States
  BY Here DEF DuckDeletes
<1>1. \A w : DuckDeletes(r, Tail(todo), db, w) /\ tx # NoTx => Executed(w)
  BY DEF Executed, Place, DuckPlace
<1>2. CASE /\ tx = NoTx
           /\ todo = <<"begin">> \o (When(Exists(db.target) /\ r.keys # {}, <<"delete_keys">>) \o rest)
  <2>1. CASE Exists(db.target) /\ r.keys # {}
    <3>1. When(Exists(db.target) /\ r.keys # {}, <<"delete_keys">>) = <<"delete_keys">>
      BY <2>1 DEF When
    <3>2. Head(todo) = "begin" /\ Tail(todo) = <<"delete_keys">> \o rest
      BY <1>2, <3>1, DeleteStatements
    <3>3. Started
      BY <1>0, <1>2, <3>2 DEF Started, Place, DuckPlace, DuckDeletes
    <3> QED
      BY <3>2, <3>3, Results DEF Runs
  <2>2. CASE ~(Exists(db.target) /\ r.keys # {})
    <3>1. When(Exists(db.target) /\ r.keys # {}, <<"delete_keys">>) = <<>>
      BY <2>2 DEF When
    <3>2. <<>> \o rest = rest
      BY DeleteStatements, NothingBefore
    <3>3. Head(todo) = "begin" /\ Tail(todo) = rest
      <4>1. todo = <<"begin">> \o rest
        BY <1>2, <3>1, <3>2
      <4>2. Head(<<"begin">> \o rest) = "begin" /\ Tail(<<"begin">> \o rest) = rest
        BY DeleteStatements
      <4> QED
        BY ONLY <4>1, <4>2
    <3>4. r.keys \cap DOMAIN db.target.rows = {}
      BY <2>2 DEF Exists, Sane
    <3>5. t = db.target
      BY <1>0, <3>4, SameTable
    <3>6. Opened(db, db, t, db.state)
      BY <1>0, <3>5, OpenedNow
    <3>7. DuckDeletes(r, rest, db, db)
      BY <1>0, <3>6 DEF DuckDeletes
    <3>8. Started
      BY <3>3, <3>7 DEF Started, Place, DuckPlace
    <3> QED
      BY <3>3, <3>8, Results DEF Runs
  <2> QED
    BY <2>1, <2>2
<1>3. CASE tx = db /\ todo = <<"delete_keys">> \o rest
  <2>1. Head(todo) = "delete_keys" /\ Tail(todo) = rest /\ View = db /\ tx # NoTx
    BY <1>0, <1>3, DeleteStatements DEF View
  <2>2. ASSUME NEW w \in DeleteKeys(db) PROVE Executed(w)
    <3>1. w = [db EXCEPT !.target = t]
      BY <2>2 DEF DeleteKeys, Target
    <3>2. Opened(db, w, t, db.state)
      BY <1>0, <3>1 DEF Opened, Databases
    <3>3. DuckDeletes(r, Tail(todo), db, w)
      BY <1>0, <2>1, <3>2 DEF DuckDeletes
    <3> QED
      BY <1>1, <2>1, <3>3
  <2>3. Result(Head(todo), View) = DeleteKeys(db)
    BY <2>1, Results
  <2> QED
    BY <2>1, <2>2, <2>3 DEF Runs
<1>4. CASE Opened(db, tx, t, Forgotten(db.state, r.records)) /\ todo = <<"commit">>
  <2>1. Head(todo) = "commit" /\ Tail(todo) = <<>> /\ tx # NoTx
    BY <1>0, <1>4, OpenedTx
  <2>2. tx.target = t /\ tx.state = Forgotten(db.state, r.records)
    BY <1>0, <1>4, <2>1, Here, OpenedFields
  <2>3. Moves(r, db, tx)
    BY <1>0, <2>2, ContractEffects DEF Moves, Makes
  <2>4. Committed
    BY <1>0, <2>1, <2>3 DEF Committed, Place, DuckPlace, DuckDeletes
  <2> QED
    BY <2>1, <2>4, Results DEF Runs
<1>5. CASE Opened(db, tx, t, db.state) /\ todo = rest
  <2>1. tx # NoTx /\ tx \in Databases /\ View = tx
    BY <1>0, <1>5, OpenedTx, Here DEF View
  <2>2. CASE r.records = {}
    <3>1. Forgotten(db.state, r.records) = db.state
      BY <1>0, <2>2 DEF Forgotten, Recorded, States
    <3>2. todo = <<"commit">>
      BY <1>5, <2>2, DeleteStatements
    <3> QED
      BY <1>4, <1>5, <3>1, <3>2
  <2>3. CASE r.records # {}
    <3>1. Head(todo) = "delete_state" /\ Tail(todo) = <<"commit">>
      BY <1>5, <2>3, DeleteStatements
    <3>2. ASSUME NEW w \in DeleteState(tx) PROVE Executed(w)
      <4>1. w = [tx EXCEPT !.state = Forgotten(db.state, r.records)]
        <5>1. tx.state = db.state
          BY <1>0, <1>5, <2>1 DEF Opened, Databases
        <5> QED
          BY <3>2, <5>1 DEF DeleteState, Records
      <4>2. Opened(db, w, t, Forgotten(db.state, r.records))
        BY <1>0, <1>5, <2>1, <4>1, OpenedFields DEF Opened
      <4>3. DuckDeletes(r, Tail(todo), db, w)
        BY <1>0, <3>1, <4>2 DEF DuckDeletes
      <4> QED
        BY <1>1, <2>1, <4>3
    <3>3. Result(Head(todo), View) = DeleteState(tx)
      BY <2>1, <3>1, Results
    <3> QED
      BY <3>1, <3>2, <3>3 DEF Runs
  <2> QED
    BY <2>2, <2>3
<1> QED
  BY <1>2, <1>3, <1>4, <1>5 DEF DuckDeletes

LEMMA DuckReplacesScopeRuns ==
  ASSUME TypeOK, call # Idle, todo # <<>>, engine = "duckdb",
         DuckReplacesScope(call, todo, db, tx)
  PROVE  Runs
<1> DEFINE r == call fence == <<"verify_fence">> \o ScopeRows
           all == Recorded(NoState, r.records, r.value)
<1>0. r.kind = "scope" /\ db \in Databases /\ db # NoTx /\ Opened(db, db, db.target, db.state)
  BY Here, OpenedNow DEF DuckReplacesScope
<1>1. \A w : DuckReplacesScope(r, Tail(todo), db, w) /\ tx # NoTx => Executed(w)
  BY DEF Executed, Place, DuckPlace
<1>2. /\ \A q \in {fence, ScopeRows} : Head(<<"begin">> \o q) = "begin" /\ Tail(<<"begin">> \o q) = q
      /\ Head(fence) = "verify_fence" /\ Tail(fence) = ScopeRows
      /\ <<>> \o ScopeRows = ScopeRows
  <2>1. ScopeRows \in Seq(Bracketed) /\ fence \in Seq(Bracketed)
    BY BracketedPieces, AfterHead DEF Bracketed, Statements
  <2> QED
    BY <2>1, AfterHead, NothingBefore DEF Bracketed, Statements
<1>3. CASE tx = NoTx /\ todo = <<"begin">> \o (When(r.fence # 0, <<"verify_fence">>) \o ScopeRows)
  <2>1. Head(todo) = "begin" /\ Tail(todo) \in {fence, ScopeRows}
    BY <1>2, <1>3 DEF When
  <2>2. Started
    BY <1>0, <2>1 DEF Started, Place, DuckPlace, DuckReplacesScope
  <2> QED
    BY <2>1, <2>2, Results DEF Runs
<1>4. CASE tx = db /\ todo = fence
  <2>1. Head(todo) = "verify_fence" /\ Tail(todo) = ScopeRows /\ View = db /\ tx # NoTx
    BY <1>0, <1>2, <1>4 DEF View
  <2>2. Executed(db)
    BY <1>0, <1>1, <2>1 DEF DuckReplacesScope
  <2>3. Result(Head(todo), View) = VerifyFence(db)
    BY <2>1, Results
  <2> QED
    BY <2>1, <2>2, <2>3 DEF Runs, VerifyFence
<1>5. CASE tx = db /\ todo = ScopeRows
  <2>1. Head(todo) = "clear_state" /\ Tail(todo) = <<"insert_state", "commit">>
        /\ View = db /\ tx # NoTx
    BY <1>0, <1>5, FencedStatements DEF View
  <2>2. ASSUME NEW w \in Records(db, NoState) PROVE Executed(w)
    <3>1. Opened(db, w, db.target, NoState)
      BY <1>0, <2>2 DEF Records, Opened, Databases
    <3> QED
      BY <1>0, <1>1, <2>1, <3>1 DEF DuckReplacesScope
  <2>3. Result(Head(todo), View) = Records(db, NoState)
    BY <2>1, Results
  <2> QED
    BY <2>1, <2>2, <2>3 DEF Runs
<1>6. CASE Opened(db, tx, db.target, NoState) /\ todo = <<"insert_state", "commit">>
  <2>1. Head(todo) = "insert_state" /\ Tail(todo) = <<"commit">> /\ tx # NoTx /\ View = tx
        /\ tx \in Databases
    BY <1>0, <1>6, OpenedTx, Here DEF View
  <2>2. ASSUME NEW w \in InsertState(tx) PROVE Executed(w)
    <3>1. r.clean /\ w = [tx EXCEPT !.state = all]
      BY <1>0, <1>6, <2>1, <2>2 DEF InsertState, Records, Opened, Databases
    <3>2. Opened(db, w, db.target, all)
      BY <1>0, <1>6, <3>1 DEF Opened, Databases
    <3> QED
      BY <1>0, <1>1, <2>1, <3>1, <3>2 DEF DuckReplacesScope
  <2>3. Result(Head(todo), View) = InsertState(tx)
    BY <2>1, Results
  <2> QED
    BY <2>1, <2>2, <2>3 DEF Runs
<1>7. CASE r.clean /\ todo = <<"commit">> /\ Opened(db, tx, db.target, all)
  <2>1. Head(todo) = "commit" /\ Tail(todo) = <<>> /\ tx # NoTx
    BY <1>0, <1>7, OpenedTx
  <2>2. tx.target = db.target /\ tx.state = all
    BY <1>0, <1>7 DEF Opened, Databases
  <2>3. Moves(r, db, tx)
    BY <1>0, <1>7, <2>2, ContractEffects DEF Moves, Makes
  <2>4. Committed
    BY <1>0, <2>1, <2>3 DEF Committed, Place, DuckPlace, DuckReplacesScope
  <2> QED
    BY <2>1, <2>4, Results DEF Runs
<1> QED
  BY <1>3, <1>4, <1>5, <1>6, <1>7 DEF DuckReplacesScope

LEMMA DuckRuns ==
  ASSUME TypeOK, call # Idle, todo # <<>>, engine = "duckdb", Sane(db.target),
         Place(engine, call, last.table, todo, db, tx, dropped)
  PROVE  Runs
<1>1. ASSUME DuckMerges(call, todo, db, tx) PROVE tx # NoTx
  <2>1. \E t, s : Opened(db, tx, t, s)
    BY <1>1 DEF DuckMerges
  <2> QED
    BY <2>1, Here, OpenedTx
<1>2. DuckPlace(call, last.table, todo, db, tx)
  BY DEF Place
<1> QED
  BY <1>1, <1>2, DuckReplacesRuns, DuckReplacesChunksRuns, EmptiesRuns, DuckMergesRuns,
     DuckIncrementsRuns, DuckIncrementsSqlRuns, DuckReplacesChildrenRuns, DuckDeletesRuns,
     DuckReplacesScopeRuns
  DEF DuckPlace

\* The program of an SQL increment, in its two parts.
LEMMA SqlMergeWhole ==
  <<"delete_matching", "insert">> \o <<"commit", "count", "drop_staging">>
    = <<"delete_matching", "insert", "commit", "count", "drop_staging">>
<1> DEFINE before == <<"delete_matching", "insert">>
           after == <<"commit", "count", "drop_staging">>
           all == <<"delete_matching", "insert", "commit", "count", "drop_staging">>
<1>1. before \in Seq(Bracketed) /\ after \in Seq(Bracketed) /\ all \in Seq(Bracketed)
  BY DEF Bracketed, Statements
<1>2. before \o after \in Seq(Bracketed)
  BY <1>1, ConcatProperties
<1>3. Len(before \o after) = 5 /\ Len(all) = 5
  OBVIOUS
<1>4. \A i \in 1 .. 5 : (before \o after)[i] = all[i]
  <2> TAKE i \in 1 .. 5
  <2>1. CASE i = 1
    BY <2>1
  <2>2. CASE i = 2
    BY <2>2
  <2>3. CASE i = 3
    BY <2>3
  <2>4. CASE i = 4
    BY <2>4
  <2>5. CASE i = 5
    BY <2>5
  <2> QED
    BY <2>1, <2>2, <2>3, <2>4, <2>5
<1> QED
  BY <1>1, <1>2, <1>3, <1>4, SeqEqual

LEMMA SqlProgramWhole ==
  <<"stage", "check_keys", "reconcile", "begin">> \o <<"delete_matching", "insert", "commit", "count", "drop_staging">>
    = <<"stage", "check_keys", "reconcile", "begin", "delete_matching", "insert",
        "commit", "count", "drop_staging">>
<1> DEFINE before == <<"stage", "check_keys", "reconcile", "begin">>
           after == <<"delete_matching", "insert", "commit", "count", "drop_staging">>
           all == <<"stage", "check_keys", "reconcile", "begin", "delete_matching", "insert",
                    "commit", "count", "drop_staging">>
<1>1. before \in Seq(Bracketed) /\ after \in Seq(Bracketed) /\ all \in Seq(Bracketed)
  BY DEF Bracketed, Statements
<1>2. before \o after \in Seq(Bracketed)
  BY <1>1, ConcatProperties
<1>3. Len(before \o after) = 9 /\ Len(all) = 9
  OBVIOUS
<1>4. \A i \in 1 .. 9 : (before \o after)[i] = all[i]
  <2> TAKE i \in 1 .. 9
  <2>1. CASE i = 1
    BY <2>1
  <2>2. CASE i = 2
    BY <2>2
  <2>3. CASE i = 3
    BY <2>3
  <2>4. CASE i = 4
    BY <2>4
  <2>5. CASE i = 5
    BY <2>5
  <2>6. CASE i = 6
    BY <2>6
  <2>7. CASE i = 7
    BY <2>7
  <2>8. CASE i = 8
    BY <2>8
  <2>9. CASE i = 9
    BY <2>9
  <2> QED
    BY <2>1, <2>2, <2>3, <2>4, <2>5, <2>6, <2>7, <2>8, <2>9
<1> QED
  BY <1>1, <1>2, <1>3, <1>4, SeqEqual

\* A DuckDB call starts where its program starts.
LEMMA DuckStarts ==
  ASSUME TypeOK, NEW r \in Asked["duckdb"], Sane(db.target), db.staging = Absent,
         r.kind = "sql_incremental" => Exists(db.target)
  PROVE  DuckPlace(r, db.target, DuckDB(r), db, NoTx)
<1>0. r \in Shape /\ WellFormed(r)
  BY AdapterAssumption DEF WellFormed
<1>1. CASE r.kind \in {"full", "sql_full"}
  BY <1>1 DEF DuckDB, DuckFull, DuckPlace, DuckReplaces
<1>2. CASE r.kind = "chunks"
  <2>1. CASE r.keys = {}
    <3>1. DuckDB(r) = <<"drop_target">> /\ r.cols = {}
      BY <1>0, <1>2, <2>1 DEF DuckDB, DuckChunks, WellFormed
    <3> QED
      BY <1>2, <3>1 DEF DuckPlace, Empties, Replacing
  <2>2. CASE r.keys # {}
    <3> DEFINE next == When(r.more # {}, <<"stage_next">>)
    <3>1. DuckDB(r) = (<<"stage">> \o next) \o DuckSwap
      BY <1>2, <2>2 DEF DuckDB, DuckChunks, DuckSwap
    <3>2. next \in Seq(Bracketed)
      BY BracketedPieces DEF When
    <3> HIDE DEF next
    <3>3. DuckDB(r) = <<"stage">> \o (next \o DuckSwap)
      BY <3>1, <3>2, BracketedPieces, Regrouped
    <3> QED
      BY <1>2, <2>2, <3>3 DEF DuckPlace, DuckReplacesChunks, next
  <2> QED
    BY <2>1, <2>2
<1>3. CASE r.kind = "incremental"
  <2>1. DuckDB(r) \in {<<>>, <<"reject">>}
        \/ (r.keys # {} /\ r.clean /\ DuckDB(r) = (<<"begin">> \o MergeRows) \o <<"commit">>)
    BY <1>3 DEF DuckDB, DuckIncremental
  <2>2. (<<"begin">> \o MergeRows) \o <<"commit">> = <<"begin">> \o (MergeRows \o <<"commit">>)
    BY BracketedPieces, Regrouped
  <2> QED
    BY <1>3, <2>1, <2>2 DEF DuckPlace, DuckIncrements
<1>4. CASE r.kind = "sql_incremental"
  <2>1. DuckDB(r) = <<"stage", "check_keys", "reconcile", "begin", "delete_matching", "insert",
                      "commit", "count", "drop_staging">>
    BY <1>4 DEF DuckDB, DuckSqlIncremental
  <2> QED
    BY <1>4, <2>1, SqlMergeWhole, SqlProgramWhole DEF DuckPlace, DuckIncrementsSql, SqlMerge
<1>5. CASE r.kind = "children"
  <2>1. CASE r.keys # {} /\ ~r.clean
    BY <1>5, <2>1 DEF DuckDB, DuckChildren, DuckPlace, DuckReplacesChildren
  <2>2. CASE ~(r.keys # {} /\ ~r.clean)
    <3> DEFINE gone == When(Exists(db.target) /\ r.parents # {}, <<"delete_parents">>)
               rows == When(r.keys # {}, MergeRows)
               marks == When(r.records # {}, <<"upsert_state">>)
    <3>1. DuckDB(r) = (((<<"begin">> \o gone) \o rows) \o marks) \o <<"commit">>
      BY <1>5, <2>2 DEF DuckDB, DuckChildren
    <3>2. /\ gone \in Seq(Bracketed) /\ rows \in Seq(Bracketed) /\ marks \in Seq(Bracketed)
          /\ <<"begin">> \in Seq(Bracketed) /\ <<"commit">> \in Seq(Bracketed)
      BY BracketedPieces DEF When
    <3>3. DuckChildrenLeft(r) = rows \o (marks \o <<"commit">>)
      BY <1>5 DEF DuckChildrenLeft, AfterMerge
    <3> HIDE DEF gone, rows, marks
    <3>4. DuckDB(r) = <<"begin">> \o (gone \o (rows \o (marks \o <<"commit">>)))
      <4>1. ASSUME NEW bg \in Seq(Bracketed), NEW e \in Seq(Bracketed)
            PROVE  ((bg \o rows) \o marks) \o e = bg \o (rows \o (marks \o e))
        <5>1. \A a, b, c, d \in Seq(Bracketed) : ((a \o b) \o c) \o d = a \o (b \o (c \o d))
          BY FourPieces
        <5>2. \A c, d \in Seq(Bracketed) : ((bg \o rows) \o c) \o d = bg \o (rows \o (c \o d))
          BY <3>2, <5>1
        <5> QED
          BY <3>2, <5>2
      <4>2. ASSUME NEW rest \in Seq(Bracketed)
            PROVE  (<<"begin">> \o gone) \o rest = <<"begin">> \o (gone \o rest)
        BY <3>2, Regrouped
      <4>3. /\ <<"begin">> \o gone \in Seq(Bracketed) /\ marks \o <<"commit">> \in Seq(Bracketed)
            /\ rows \o (marks \o <<"commit">>) \in Seq(Bracketed)
        BY <3>2, ConcatProperties
      <4>4. DuckDB(r) = (<<"begin">> \o gone) \o (rows \o (marks \o <<"commit">>))
        BY <3>1, <3>2, <4>1, <4>3
      <4> QED
        BY <4>2, <4>3, <4>4
    <3>5. r.clean
      BY <1>0, <1>5, <2>2 DEF WellFormed
    <3> QED
      BY <1>5, <3>3, <3>4, <3>5 DEF DuckPlace, DuckReplacesChildren, gone
  <2> QED
    BY <2>1, <2>2
<1>6. CASE r.kind = "delete"
  <2> DEFINE gone == When(Exists(db.target) /\ r.keys # {}, <<"delete_keys">>)
             marks == When(r.records # {}, <<"delete_state">>)
  <2>1. DuckDB(r) = ((<<"begin">> \o gone) \o marks) \o <<"commit">>
    BY <1>6 DEF DuckDB, DuckDelete
  <2>2. /\ gone \in Seq(Bracketed) /\ marks \in Seq(Bracketed)
        /\ <<"begin">> \in Seq(Bracketed) /\ <<"commit">> \in Seq(Bracketed)
    BY BracketedPieces DEF When
  <2> HIDE DEF gone, marks
  <2>3. DuckDB(r) = <<"begin">> \o (gone \o (marks \o <<"commit">>))
    <3>1. <<"begin">> \o gone \in Seq(Bracketed) /\ marks \o <<"commit">> \in Seq(Bracketed)
      BY <2>2, ConcatProperties
    <3>2. DuckDB(r) = (<<"begin">> \o gone) \o (marks \o <<"commit">>)
      BY <2>1, <2>2, <3>1, Regrouped
    <3> QED
      BY <2>2, <3>1, <3>2, Regrouped
  <2> QED
    BY <1>6, <2>3 DEF DuckPlace, DuckDeletes, gone, marks
<1>7. CASE r.kind = "scope"
  <2> DEFINE fence == When(r.fence # 0, <<"verify_fence">>)
  <2>1. DuckDB(r) = (<<"begin">> \o fence) \o ScopeRows
    BY <1>7 DEF DuckDB, DuckScope, ScopeRows, Replacing
  <2>2. fence \in Seq(Bracketed)
    BY BracketedPieces DEF When
  <2> HIDE DEF fence
  <2>3. DuckDB(r) = <<"begin">> \o (fence \o ScopeRows)
    BY <2>1, <2>2, BracketedPieces, Regrouped
  <2> QED
    BY <1>7, <2>3 DEF DuckPlace, DuckReplacesScope, fence
<1> QED
  BY <1>0, <1>1, <1>2, <1>3, <1>4, <1>5, <1>6, <1>7 DEF Shape, Replacing, Merging

------------------------------------------------------------------------------
(* BigQuery.                                                               *)

LEMMA BqHere ==
  ASSUME TypeOK, call # Idle, engine = "bigquery"
  PROVE  tx = NoTx /\ View = db
  BY DEF TypeOK, View

\* A statement that leaves the table and the state alone.
LEMMA BqQuiet ==
  ASSUME TypeOK, call # Idle, engine = "bigquery",
         NEW w, w.target = db.target, w.state = db.state,
         BqPlace(call, last.table, Tail(todo), w, dropped \/ DropsForSwap(Head(todo)))
  PROVE  Executed(w)
  BY BqHere DEF Executed, Place, Moves

LEMMA BqMoves ==
  ASSUME TypeOK, call # Idle, engine = "bigquery", NEW w, Moves(call, db, w),
         BqPlace(call, last.table, Tail(todo), w, dropped \/ DropsForSwap(Head(todo)))
  PROVE  Executed(w)
  BY BqHere DEF Executed, Place

\* What each kind of statement leaves alone.
LEMMA Fields ==
  ASSUME NEW v \in Databases, NEW t
  PROVE  /\ \A w \in Target(v, t) : /\ w.target = t /\ w.state = v.state
                                    /\ w.staging = v.staging /\ w.replacement = v.replacement
         /\ \A w \in Staging(v, t) : /\ w.staging = t /\ w.target = v.target
                                     /\ w.state = v.state /\ w.replacement = v.replacement
         /\ \A w \in Records(v, t) : /\ w.state = t /\ w.target = v.target
                                     /\ w.staging = v.staging /\ w.replacement = v.replacement
         /\ \A w \in {[v EXCEPT !.replacement = t]} :
               /\ w.replacement = t /\ w.target = v.target
               /\ w.state = v.state /\ w.staging = v.staging
         /\ \A w \in {[v EXCEPT !.target = t, !.staging = Absent]} :
               w.target = t /\ w.state = v.state /\ w.replacement = v.replacement
         /\ \A w \in {[v EXCEPT !.target = t, !.replacement = Absent]} :
               w.target = t /\ w.state = v.state /\ w.staging = v.staging
<1>1. \A w \in Target(v, t) : /\ w.target = t /\ w.state = v.state
                              /\ w.staging = v.staging /\ w.replacement = v.replacement
  BY DEF Target, Databases
<1>2. \A w \in Staging(v, t) : /\ w.staging = t /\ w.target = v.target
                               /\ w.state = v.state /\ w.replacement = v.replacement
  BY DEF Staging, Databases
<1>3. \A w \in Records(v, t) : /\ w.state = t /\ w.target = v.target
                               /\ w.staging = v.staging /\ w.replacement = v.replacement
  BY DEF Records, Databases
<1>4. /\ \A w \in {[v EXCEPT !.replacement = t]} :
            /\ w.replacement = t /\ w.target = v.target
            /\ w.state = v.state /\ w.staging = v.staging
      /\ \A w \in {[v EXCEPT !.target = t, !.staging = Absent]} :
            w.target = t /\ w.state = v.state /\ w.replacement = v.replacement
      /\ \A w \in {[v EXCEPT !.target = t, !.replacement = Absent]} :
            w.target = t /\ w.state = v.state /\ w.staging = v.staging
  BY DEF Databases
<1> QED
  BY <1>1, <1>2, <1>3, <1>4

LEMMA SwapInCases ==
  ASSUME NEW r, NEW t, r.kind \in Replacing,
         r.kind = "full" => r.layout \notin {"none", "iceberg"},
         r.kind = "sql_full" => r.layout = "iceberg"
  PROVE  \/ /\ r.layout = "iceberg" /\ r.kind = "sql_full"
            /\ SwapIn(r, t) =
                 <<"drop_target", "create_target", "append_staged", "drop_staging", "count">>
         \/ /\ r.layout = "iceberg" /\ r.kind = "chunks"
            /\ SwapIn(r, t) = <<"drop_target", "create_target", "append_staged", "drop_staging">>
         \/ r.layout # "iceberg" /\ SwapIn(r, t) = <<"swap", "drop_staging">>
         \/ /\ r.layout \notin {"none", "iceberg"} /\ ~Matching(r, t)
            /\ \/ /\ r.kind = "full"
                  /\ SwapIn(r, t) = <<"post_options", "drop_target", "rename_staging">>
               \/ /\ r.kind = "chunks"
                  /\ SwapIn(r, t) = <<"build", "drop_target", "rename_replacement", "drop_staging">>
<1>1. CASE r.layout = "iceberg"
  BY <1>1 DEF SwapIn, Replacing
<1>2. CASE r.layout # "iceberg" /\ (r.layout = "none" \/ Matching(r, t))
  BY <1>2 DEF SwapIn
<1>3. CASE r.layout # "iceberg" /\ r.layout # "none" /\ ~Matching(r, t)
  BY <1>3 DEF SwapIn, Replacing
<1> QED
  BY <1>1, <1>2, <1>3

LEMMA StagingStatements ==
  ASSUME NEW r, NEW mine \in Seq(Bracketed)
  PROVE  /\ Head(<<"stage_next">> \o mine) = "stage_next" /\ Tail(<<"stage_next">> \o mine) = mine
         /\ Head(<<"stage">> \o (When(r.more # {}, <<"stage_next">>) \o mine)) = "stage"
         /\ Tail(<<"stage">> \o (When(r.more # {}, <<"stage_next">>) \o mine))
              = IF r.more # {} THEN <<"stage_next">> \o mine ELSE mine
<1> DEFINE rest == When(r.more # {}, <<"stage_next">>) \o mine
<1>1. "stage" \in Bracketed /\ "stage_next" \in Bracketed
  BY DEF Bracketed, Statements
<1>2. rest = IF r.more # {} THEN <<"stage_next">> \o mine ELSE mine
  BY NothingBefore DEF When
<1>3. \A s \in Seq(Bracketed) :
         /\ Head(<<"stage">> \o s) = "stage" /\ Tail(<<"stage">> \o s) = s
         /\ Head(<<"stage_next">> \o s) = "stage_next" /\ Tail(<<"stage_next">> \o s) = s
         /\ <<"stage_next">> \o s \in Seq(Bracketed)
  BY <1>1, AfterHead
<1>4. rest \in Seq(Bracketed)
  BY <1>2, <1>3
<1>5. Head(<<"stage">> \o rest) = "stage" /\ Tail(<<"stage">> \o rest) = rest
  <2> HIDE DEF rest
  <2> QED
    BY <1>3, <1>4
<1> QED
  BY <1>2, <1>3, <1>5

LEMMA SwapInTyped ==
  ASSUME NEW r, NEW t
  PROVE  SwapIn(r, t) \in Seq(Bracketed)
<1>1. /\ <<"drop_target", "create_target", "append_staged", "drop_staging", "count">> \in Seq(Bracketed)
      /\ <<"drop_target", "create_target", "append_staged", "drop_staging">> \in Seq(Bracketed)
      /\ <<"swap", "drop_staging">> \in Seq(Bracketed)
      /\ <<"post_options", "drop_target", "rename_staging">> \in Seq(Bracketed)
      /\ <<"build", "drop_target", "rename_replacement", "drop_staging">> \in Seq(Bracketed)
  BY DEF Bracketed, Statements
<1>2. CASE r.layout = "iceberg" /\ r.kind = "sql_full"
  BY <1>1, <1>2 DEF SwapIn
<1>3. CASE r.layout = "iceberg" /\ r.kind = "chunks"
  BY <1>1, <1>3 DEF SwapIn
<1>4. CASE r.layout # "iceberg" /\ (r.layout = "none" \/ Matching(r, t))
  BY <1>1, <1>4 DEF SwapIn
<1>5. CASE ~((r.layout = "iceberg" /\ r.kind = "sql_full")
             \/ (r.layout = "iceberg" /\ r.kind = "chunks")
             \/ (r.layout # "iceberg" /\ (r.layout = "none" \/ Matching(r, t))))
  BY <1>1, <1>5 DEF SwapIn
<1> QED
  BY <1>2, <1>3, <1>4, <1>5

\* The layouts that are dropped and made again.
LEMMA RemakeMoves ==
  ASSUME TypeOK, call # Idle, call.kind \in Replacing, NEW w, w.state = db.state,
         w.target \in {Absent, Table(call.cols \cup call.moreCols, {}, Null, FormOf(call))},
         call.layout = "iceberg"
         \/ (call.layout \notin {"none", "iceberg"} /\ ~Matching(call, db.target))
  PROVE  Moves(call, db, w)
<1>1. ~InPlace(call, db.target)
  BY DEF InPlace, Matching
<1> QED
  BY <1>1 DEF Moves, Remakes

LEMMA WholeMoves ==
  ASSUME TypeOK, call # Idle, call.kind \in Replacing, call.cols # {}, NEW w,
         w.state = db.state, w.target = Whole(call)
  PROVE  Moves(call, db, w) /\ SameRows(w.target, Whole(call))
<1>1. [Whole(call) EXCEPT !.form = FormOf(call)] = Whole(call)
  BY Here, WholeForm
<1>2. Makes(call, db, [Whole(call) EXCEPT !.form = FormOf(call)], db.state)
  BY Here, MakesWhole
<1> QED
  BY <1>1, <1>2 DEF Moves, Makes, SameRows

\* Rows appended to the table made again.
LEMMA FreshFilled ==
  ASSUME NEW r, WellFormed(r), r.cols # {}, r.layout = "iceberg"
  PROVE  /\ [Fresh(r) EXCEPT !.rows = Whole(r).rows] = Whole(r)
         /\ Fresh(r) = Table(r.cols \cup r.moreCols, {}, Null, FormOf(r))
         /\ Fresh(r).cols = Whole(r).cols
<1>1. /\ Whole(r) \in Tables /\ Whole(r).form = "iceberg" /\ FormOf(r) = "iceberg"
      /\ Whole(r).cols = r.cols \cup r.moreCols
  BY WholeForm DEF FormOf
<1>2. Whole(r) = [cols |-> Whole(r).cols, rows |-> Whole(r).rows, form |-> Whole(r).form]
  BY <1>1 DEF Tables
<1>3. Fresh(r) = Table(r.cols \cup r.moreCols, {}, Null, "iceberg")
  BY DEF Fresh
<1>4. Fresh(r) \in Tables
  <2>1. r \in Shape
    BY DEF WellFormed
  <2> QED
    BY <1>3, <2>1, ShapeFacts, TableTyped DEF Null
<1>5. Fresh(r).cols = r.cols \cup r.moreCols /\ Fresh(r).form = "iceberg"
  BY <1>3 DEF Table
<1> DEFINE rows == Whole(r).rows
<1>6. [Fresh(r) EXCEPT !.rows = rows] = [cols |-> Fresh(r).cols, rows |-> rows, form |-> Fresh(r).form]
  <2> HIDE DEF rows
  <2> QED
    BY <1>4 DEF Tables
<1> QED
  BY <1>1, <1>2, <1>3, <1>5, <1>6

LEMMA BqStagesRuns ==
  ASSUME TypeOK, call # Idle, todo # <<>>, engine = "bigquery", call.kind \in Replacing,
         call.cols # {}, BqStages(call, last.table, todo, db)
  PROVE  Runs
<1> DEFINE r == call t0 == last.table mine == SwapIn(r, t0)
           d == dropped \/ DropsForSwap(Head(todo))
<1>0. /\ View = db /\ db \in Databases /\ db.target = t0 /\ mine \in Seq(Bracketed)
      /\ r.kind = "full" => r.layout \notin {"none", "iceberg"}
      /\ r.kind = "sql_full" => r.layout = "iceberg"
      /\ Whole(r) = Chunked(r) /\ (r.more = {} => Whole(r) = Chunk1(r))
  <2>1. View = db /\ db \in Databases /\ WellFormed(r) /\ r \in Shape
    BY BqHere, Here
  <2>2. Whole(r) = Chunked(r)
    <3>1. r.more = {} => r.moreCols = {}
      BY <2>1 DEF WellFormed
    <3>2. CASE r.more = {}
      BY <2>1, <3>1, <3>2, OneChunk, WholeForm
    <3>3. CASE r.more # {}
      BY <2>1, <3>3, WholeForm DEF WellFormed
    <3> QED
      BY <3>2, <3>3
  <2> QED
    BY <2>1, <2>2, SwapInTyped, WholeForm DEF BqStages
<1>1. \A w : BqStages(r, t0, Tail(todo), w) /\ w.target = db.target /\ w.state = db.state
              => Executed(w)
  BY BqQuiet DEF BqPlace, BqReplaces
<1>2. \A w : BqReplaces(r, t0, Tail(todo), w, d) /\ Moves(r, db, w) => Executed(w)
  BY BqMoves DEF BqPlace
<1>3. CASE todo = <<"stage">> \o (When(r.more # {}, <<"stage_next">>) \o mine)
  <2>1. Head(todo) = "stage" /\ Tail(todo) = IF r.more # {} THEN <<"stage_next">> \o mine ELSE mine
    <3> HIDE DEF mine
    <3> QED
      BY <1>0, <1>3, StagingStatements
  <2>2. ASSUME NEW w \in Staging(db, Chunk1(r)) PROVE Executed(w)
    <3>1. w.staging = Chunk1(r) /\ w.target = db.target /\ w.state = db.state
      BY <1>0, <2>2, Fields
    <3>2. BqStages(r, t0, Tail(todo), w)
      BY <1>0, <2>1, <3>1 DEF BqStages
    <3> QED
      BY <1>1, <3>1, <3>2
  <2>3. Result(Head(todo), View) = Staging(db, Chunk1(r))
    BY <1>0, <2>1, Results
  <2> QED
    BY <2>1, <2>2, <2>3 DEF Runs
<1>4. CASE todo = <<"stage_next">> \o mine
  <2>1. Head(todo) = "stage_next" /\ Tail(todo) = mine
    <3> HIDE DEF mine
    <3> QED
      BY <1>0, <1>4, StagingStatements
  <2>2. ASSUME NEW w \in Staging(db, Chunked(r)) PROVE Executed(w)
    <3>1. w.staging = Chunked(r) /\ w.target = db.target /\ w.state = db.state
      BY <1>0, <2>2, Fields
    <3>2. BqStages(r, t0, Tail(todo), w)
      BY <1>0, <2>1, <3>1 DEF BqStages
    <3> QED
      BY <1>1, <3>1, <3>2
  <2>3. Result(Head(todo), View) = Staging(db, Chunked(r))
    BY <1>0, <2>1, Results
  <2> QED
    BY <2>1, <2>2, <2>3 DEF Runs
<1>5. CASE db.staging = Whole(r) /\ r.layout = "iceberg"
           /\ todo \in {<<"drop_target", "create_target", "append_staged", "drop_staging", "count">>,
                        <<"drop_target", "create_target", "append_staged", "drop_staging">>}
  <2>1. Head(todo) = "drop_target"
        /\ Tail(todo) \in {<<"create_target", "append_staged", "drop_staging", "count">>,
                           <<"create_target", "append_staged", "drop_staging">>}
    <3>1. CASE todo = <<"drop_target", "create_target", "append_staged", "drop_staging", "count">>
      BY <3>1
    <3>2. CASE todo = <<"drop_target", "create_target", "append_staged", "drop_staging">>
      BY <3>2
    <3> QED
      BY <1>5, <3>1, <3>2
  <2>2. ASSUME NEW w \in Target(db, Absent) PROVE Executed(w)
    <3>1. w.target = Absent /\ w.state = db.state /\ w.staging = Whole(r)
      BY <1>0, <1>5, <2>2, Fields
    <3>2. Moves(r, db, w)
      BY <1>5, <3>1, RemakeMoves
    <3>3. BqReplaces(r, t0, Tail(todo), w, d)
      BY <1>5, <2>1, <3>1 DEF BqReplaces
    <3> QED
      BY <1>2, <3>2, <3>3
  <2>3. Result(Head(todo), View) = Target(db, Absent)
    BY <1>0, <2>1, Results
  <2> QED
    BY <2>1, <2>2, <2>3 DEF Runs
<1>6. CASE db.staging = Whole(r) /\ todo = <<"swap", "drop_staging">>
  <2>1. Head(todo) = "swap" /\ Tail(todo) = <<"drop_staging">>
    BY <1>6
  <2>2. ASSUME NEW w \in Replace(db, db.staging) PROVE Executed(w)
    <3>1. w \in Target(db, [Whole(r) EXCEPT !.form = FormOf(r)])
      BY <1>6, <2>2 DEF Replace
    <3>2. w.target = Whole(r) /\ w.state = db.state
      BY <1>0, <3>1, Fields, Here, WholeForm
    <3>3. Moves(r, db, w) /\ SameRows(w.target, Whole(r))
      BY <3>2, WholeMoves
    <3>4. BqReplaces(r, t0, Tail(todo), w, d)
      BY <2>1, <3>3 DEF BqReplaces
    <3> QED
      BY <1>2, <3>3, <3>4
  <2>3. Result(Head(todo), View) = Replace(db, db.staging)
    BY <1>0, <2>1, Results
  <2> QED
    BY <2>1, <2>2, <2>3 DEF Runs
<1>7. CASE /\ r.layout \notin {"none", "iceberg"} /\ ~Matching(r, t0) /\ r.kind = "full"
           /\ db.staging = Whole(r)
           /\ todo \in {<<"post_options", "drop_target", "rename_staging">>,
                        <<"drop_target", "rename_staging">>}
  <2>1. CASE todo = <<"post_options", "drop_target", "rename_staging">>
    <3>1. Head(todo) = "post_options" /\ Tail(todo) = <<"drop_target", "rename_staging">>
      BY <2>1
    <3>2. BqStages(r, t0, Tail(todo), db)
      BY <1>0, <1>7, <3>1 DEF BqStages
    <3>3. Executed(db)
      BY <1>1, <3>2
    <3>4. Result(Head(todo), View) = {db}
      BY <1>0, <3>1, Results
    <3> QED
      BY <3>1, <3>3, <3>4 DEF Runs
  <2>2. CASE todo = <<"drop_target", "rename_staging">>
    <3>1. Head(todo) = "drop_target" /\ Tail(todo) = <<"rename_staging">>
      BY <2>2
    <3>2. d
      BY <1>7, <3>1 DEF DropsForSwap
    <3>3. ASSUME NEW w \in Target(db, Absent) PROVE Executed(w)
      <4>1. w.target = Absent /\ w.state = db.state /\ w.staging = Whole(r)
        BY <1>0, <1>7, <3>3, Fields
      <4>2. Moves(r, db, w)
        BY <1>0, <1>7, <4>1, RemakeMoves
      <4>3. BqReplaces(r, t0, Tail(todo), w, d)
        BY <1>7, <3>1, <3>2, <4>1 DEF BqReplaces
      <4> QED
        BY <1>2, <4>2, <4>3
    <3>4. Result(Head(todo), View) = Target(db, Absent)
      BY <1>0, <3>1, Results
    <3> QED
      BY <3>1, <3>3, <3>4 DEF Runs
  <2> QED
    BY <1>7, <2>1, <2>2
<1>8. CASE /\ r.layout \notin {"none", "iceberg"} /\ ~Matching(r, t0) /\ r.kind = "chunks"
           /\ db.staging = Whole(r)
           /\ todo = <<"build", "drop_target", "rename_replacement", "drop_staging">>
  <2>1. Head(todo) = "build" /\ Tail(todo) = <<"drop_target", "rename_replacement", "drop_staging">>
    BY <1>8
  <2>2. ASSUME NEW w \in {[db EXCEPT !.replacement = db.staging]} PROVE Executed(w)
    <3>1. w.replacement = Whole(r) /\ w.target = db.target /\ w.state = db.state
      BY <1>0, <1>8, <2>2 DEF Databases
    <3>2. BqStages(r, t0, Tail(todo), w)
      BY <1>0, <1>8, <2>1, <3>1 DEF BqStages
    <3> QED
      BY <1>1, <3>1, <3>2
  <2>3. Result(Head(todo), View) = {[db EXCEPT !.replacement = db.staging]}
    BY <1>0, <2>1, Results
  <2> QED
    BY <2>1, <2>2, <2>3 DEF Runs
<1>9. CASE /\ r.layout \notin {"none", "iceberg"} /\ ~Matching(r, t0) /\ r.kind = "chunks"
           /\ db.replacement = Whole(r)
           /\ todo = <<"drop_target", "rename_replacement", "drop_staging">>
  <2>1. Head(todo) = "drop_target" /\ Tail(todo) = <<"rename_replacement", "drop_staging">>
    BY <1>9
  <2>2. d
    BY <1>9, <2>1 DEF DropsForSwap
  <2>3. ASSUME NEW w \in Target(db, Absent) PROVE Executed(w)
    <3>1. w.target = Absent /\ w.state = db.state /\ w.replacement = Whole(r)
      BY <1>0, <1>9, <2>3, Fields
    <3>2. Moves(r, db, w)
      BY <1>0, <1>9, <3>1, RemakeMoves
    <3>3. BqReplaces(r, t0, Tail(todo), w, d)
      BY <1>9, <2>1, <2>2, <3>1 DEF BqReplaces
    <3> QED
      BY <1>2, <3>2, <3>3
  <2>4. Result(Head(todo), View) = Target(db, Absent)
    BY <1>0, <2>1, Results
  <2> QED
    BY <2>1, <2>3, <2>4 DEF Runs
<1>10. CASE todo = mine /\ db.staging = Whole(r)
  BY <1>0, <1>5, <1>6, <1>7, <1>8, <1>10, SwapInCases
<1> QED
  BY <1>3, <1>4, <1>7, <1>9, <1>10 DEF BqStages

LEMMA BqReplacesRuns ==
  ASSUME TypeOK, call # Idle, todo # <<>>, engine = "bigquery",
         BqReplaces(call, last.table, todo, db, dropped)
  PROVE  Runs
<1> DEFINE r == call t0 == last.table d == dropped \/ DropsForSwap(Head(todo))
           done == {<<"drop_staging">>, <<"drop_staging", "count">>, <<"count">>, <<>>}
<1>0. /\ View = db /\ db \in Databases /\ r.kind \in Replacing /\ r.cols # {}
      /\ WellFormed(r) /\ r \in Shape
  BY BqHere, Here DEF BqReplaces
<1>1. \A w : BqReplaces(r, t0, Tail(todo), w, d) /\ Moves(r, db, w) => Executed(w)
  BY BqMoves DEF BqPlace
<1>2. \A w : SameRows(w.target, Whole(r)) /\ Tail(todo) \in done /\ Moves(r, db, w) => Executed(w)
  BY <1>0, <1>1 DEF BqReplaces
<1>3. /\ r.kind # "chunks" => Whole(r) = Chunk1(r)
      /\ Whole(r).form = FormOf(r)
      /\ \A f \in {FormOf(r), db.target.form} : r.kind # "chunks" =>
            Makes(r, db, [Whole(r) EXCEPT !.form = f], db.state)
  BY <1>0, WholeForm, MakesWhole DEF WellFormed
<1>4. CASE BqStages(r, t0, todo, db)
  BY <1>0, <1>4, BqStagesRuns
<1>5. CASE r.kind = "full" /\ r.layout = "none" /\ todo = <<"load_truncate">>
  <2>1. Head(todo) = "load_truncate" /\ Tail(todo) = <<>>
    BY <1>5
  <2>2. ASSUME NEW w \in LoadTruncate(db) PROVE Executed(w)
    <3>1. w.target = [Whole(r) EXCEPT !.form = db.target.form] /\ w.state = db.state
      BY <1>0, <1>3, <1>5, <2>2, Fields DEF LoadTruncate
    <3>2. Moves(r, db, w)
      BY <1>3, <1>5, <3>1 DEF Moves, Makes
    <3>3. SameRows(w.target, Whole(r))
      BY <3>1, <1>0, WholeForm DEF SameRows, Tables
    <3> QED
      BY <1>2, <2>1, <3>2, <3>3
  <2>3. Result(Head(todo), View) = LoadTruncate(db)
    BY <1>0, <2>1, Results
  <2> QED
    BY <2>1, <2>2, <2>3 DEF Runs
<1>6. CASE r.kind = "sql_full" /\ r.layout # "iceberg" /\ todo = <<"create_or_replace", "count">>
  <2>1. Head(todo) = "create_or_replace" /\ Tail(todo) = <<"count">>
    BY <1>6
  <2>2. ASSUME NEW w \in Replace(db, Chunk1(r)) PROVE Executed(w)
    <3>1. w \in Target(db, [Whole(r) EXCEPT !.form = FormOf(r)])
      BY <1>3, <1>6, <2>2 DEF Replace
    <3>2. w.target = Whole(r) /\ w.state = db.state
      BY <1>0, <3>1, Fields, WholeForm
    <3>3. Moves(r, db, w) /\ SameRows(w.target, Whole(r))
      BY <1>0, <3>2, WholeMoves
    <3> QED
      BY <1>2, <2>1, <3>3
  <2>3. Result(Head(todo), View) = Replace(db, Chunk1(r))
    BY <1>0, <2>1, Results
  <2> QED
    BY <2>1, <2>2, <2>3 DEF Runs
<1>7. CASE r.kind = "full" /\ todo = <<"rename_staging">> /\ db.staging = Whole(r)
  <2>1. Head(todo) = "rename_staging" /\ Tail(todo) = <<>>
    BY <1>7
  <2>2. ASSUME NEW w \in {[db EXCEPT !.target = db.staging, !.staging = Absent]}
        PROVE Executed(w)
    <3>1. w.target = Whole(r) /\ w.state = db.state
      BY <1>0, <1>7, <2>2 DEF Databases
    <3>2. Moves(r, db, w) /\ SameRows(w.target, Whole(r))
      BY <1>0, <3>1, WholeMoves
    <3> QED
      BY <1>2, <2>1, <3>2
  <2>3. Result(Head(todo), View) = {[db EXCEPT !.target = db.staging, !.staging = Absent]}
    BY <1>0, <2>1, Results
  <2> QED
    BY <2>1, <2>2, <2>3 DEF Runs
<1>8. CASE /\ r.kind = "chunks" /\ db.replacement = Whole(r)
           /\ todo = <<"rename_replacement", "drop_staging">>
  <2>1. Head(todo) = "rename_replacement" /\ Tail(todo) = <<"drop_staging">>
    BY <1>8
  <2>2. ASSUME NEW w \in {[db EXCEPT !.target = db.replacement, !.replacement = Absent]}
        PROVE Executed(w)
    <3>1. w.target = Whole(r) /\ w.state = db.state
      BY <1>0, <1>8, <2>2 DEF Databases
    <3>2. Moves(r, db, w) /\ SameRows(w.target, Whole(r))
      BY <1>0, <3>1, WholeMoves
    <3> QED
      BY <1>2, <2>1, <3>2
  <2>3. Result(Head(todo), View) = {[db EXCEPT !.target = db.replacement, !.replacement = Absent]}
    BY <1>0, <2>1, Results
  <2> QED
    BY <2>1, <2>2, <2>3 DEF Runs
<1>9. CASE /\ r.layout = "iceberg" /\ r.kind = "full"
           /\ todo = <<"drop_target", "create_target", "append_target">>
  <2>1. Head(todo) = "drop_target" /\ Tail(todo) = <<"create_target", "append_target">>
    BY <1>9
  <2>2. ASSUME NEW w \in Target(db, Absent) PROVE Executed(w)
    <3>1. w.target = Absent /\ w.state = db.state
      BY <1>0, <2>2, Fields
    <3>2. Moves(r, db, w)
      BY <1>0, <1>9, <3>1, RemakeMoves
    <3>3. BqReplaces(r, t0, Tail(todo), w, d)
      BY <1>0, <1>9, <2>1 DEF BqReplaces
    <3> QED
      BY <1>1, <3>2, <3>3
  <2>3. Result(Head(todo), View) = Target(db, Absent)
    BY <1>0, <2>1, Results
  <2> QED
    BY <2>1, <2>2, <2>3 DEF Runs
<1>10. CASE /\ r.layout = "iceberg"
            /\ \/ r.kind = "full" /\ todo = <<"create_target", "append_target">>
               \/ /\ db.staging = Whole(r)
                  /\ todo \in {<<"create_target", "append_staged", "drop_staging">>,
                               <<"create_target", "append_staged", "drop_staging", "count">>}
  <2>1. /\ Head(todo) = "create_target"
        /\ \/ r.kind = "full" /\ Tail(todo) = <<"append_target">>
           \/ /\ db.staging = Whole(r)
              /\ Tail(todo) \in {<<"append_staged", "drop_staging">>,
                                 <<"append_staged", "drop_staging", "count">>}
    <3>1. CASE todo = <<"create_target", "append_target">> /\ r.kind = "full"
      BY <3>1
    <3>2. CASE todo = <<"create_target", "append_staged", "drop_staging">> /\ db.staging = Whole(r)
      BY <3>2
    <3>3. CASE todo = <<"create_target", "append_staged", "drop_staging", "count">>
               /\ db.staging = Whole(r)
      BY <3>3
    <3> QED
      BY <1>10, <3>1, <3>2, <3>3
  <2>2. ASSUME NEW w \in Target(db, Fresh(r)) PROVE Executed(w)
    <3>1. w.target = Fresh(r) /\ w.state = db.state /\ w.staging = db.staging
      BY <1>0, <2>2, Fields
    <3>2. Moves(r, db, w)
      BY <1>0, <1>10, <3>1, RemakeMoves, FreshFilled
    <3>3. BqReplaces(r, t0, Tail(todo), w, d)
      BY <1>0, <1>10, <2>1, <3>1 DEF BqReplaces
    <3> QED
      BY <1>1, <3>2, <3>3
  <2>3. Result(Head(todo), View) = Target(db, Fresh(r))
    BY <1>0, <2>1, Results DEF Fresh
  <2> QED
    BY <2>1, <2>2, <2>3 DEF Runs
<1>11. CASE r.layout = "iceberg" /\ r.kind = "full" /\ todo = <<"append_target">>
            /\ db.target = Fresh(r)
  <2>1. Head(todo) = "append_target" /\ Tail(todo) = <<>>
    BY <1>11
  <2>2. ASSUME NEW w \in Target(db, [db.target EXCEPT !.rows = Chunk1(r).rows]) PROVE Executed(w)
    <3>1. [db.target EXCEPT !.rows = Chunk1(r).rows] = Whole(r)
      BY <1>0, <1>3, <1>11, FreshFilled
    <3>2. w.target = Whole(r) /\ w.state = db.state
      BY <1>0, <2>2, <3>1, Fields
    <3>3. Moves(r, db, w) /\ SameRows(w.target, Whole(r))
      BY <1>0, <3>2, WholeMoves
    <3> QED
      BY <1>2, <2>1, <3>3
  <2>3. Result(Head(todo), View) = Target(db, [db.target EXCEPT !.rows = Chunk1(r).rows])
    BY <1>0, <2>1, Results
  <2> QED
    BY <2>1, <2>2, <2>3 DEF Runs
<1>12. CASE /\ r.layout = "iceberg" /\ db.staging = Whole(r) /\ db.target = Fresh(r)
            /\ todo \in {<<"append_staged", "drop_staging">>,
                         <<"append_staged", "drop_staging", "count">>}
  <2>1. Head(todo) = "append_staged"
        /\ Tail(todo) \in {<<"drop_staging">>, <<"drop_staging", "count">>}
    <3>1. CASE todo = <<"append_staged", "drop_staging">>
      BY <3>1
    <3>2. CASE todo = <<"append_staged", "drop_staging", "count">>
      BY <3>2
    <3> QED
      BY <1>12, <3>1, <3>2
  <2>2. ASSUME NEW w \in Target(db, [db.target EXCEPT !.rows = db.staging.rows]) PROVE Executed(w)
    <3>1. [db.target EXCEPT !.rows = db.staging.rows] = Whole(r)
      BY <1>0, <1>12, FreshFilled
    <3>2. w.target = Whole(r) /\ w.state = db.state
      BY <1>0, <2>2, <3>1, Fields
    <3>3. Moves(r, db, w) /\ SameRows(w.target, Whole(r))
      BY <1>0, <3>2, WholeMoves
    <3> QED
      BY <1>2, <2>1, <3>3
  <2>3. Result(Head(todo), View) = Target(db, [db.target EXCEPT !.rows = db.staging.rows])
    BY <1>0, <2>1, Results
  <2> QED
    BY <2>1, <2>2, <2>3 DEF Runs
<1>13. CASE SameRows(db.target, Whole(r)) /\ todo \in done
  <2>1. Tail(todo) \in done /\ Head(todo) \in {"drop_staging", "count"}
    <3>1. CASE todo = <<"drop_staging">>
      BY <3>1
    <3>2. CASE todo = <<"drop_staging", "count">>
      BY <3>2
    <3>3. CASE todo = <<"count">>
      BY <3>3
    <3> QED
      BY <1>13, <3>1, <3>2, <3>3
  <2>2. ASSUME NEW w, w.target = db.target, w.state = db.state PROVE Executed(w)
    BY <1>2, <1>13, <2>1, <2>2 DEF Moves
  <2>3. \A w \in Result(Head(todo), View) : w.target = db.target /\ w.state = db.state
    <3>1. Result("drop_staging", db) = Staging(db, Absent) /\ Result("count", db) = {db}
      BY Results
    <3>2. \A w \in Staging(db, Absent) : w.target = db.target /\ w.state = db.state
      BY <1>0, Fields
    <3> QED
      BY <1>0, <2>1, <3>1, <3>2
  <2> QED
    BY <2>1, <2>2, <2>3 DEF Runs
<1> QED
  BY <1>0, <1>4, <1>5, <1>6, <1>7, <1>8, <1>9, <1>10, <1>11, <1>12, <1>13 DEF BqReplaces

LEMMA CheckStatements ==
  ASSUME NEW r
  PROVE  LET merge == <<"merge", "drop_staging">>
             check == When(r.watch # {}, <<"check_watch">>) \o merge
         IN  /\ r.watch = {} => check = merge
             /\ r.watch # {} => Head(check) = "check_watch" /\ Tail(check) = merge
             /\ Head(<<"stage">> \o check) = "stage" /\ Tail(<<"stage">> \o check) = check
             /\ Head(<<"reconcile", "stage">> \o check) = "reconcile"
             /\ Tail(<<"reconcile", "stage">> \o check) = <<"stage">> \o check
<1> DEFINE merge == <<"merge", "drop_staging">>
           check == When(r.watch # {}, <<"check_watch">>) \o merge
<1>1. merge \in Seq(Bracketed) /\ "check_watch" \in Bracketed /\ "stage" \in Bracketed
  BY DEF Bracketed, Statements
<1> HIDE DEF merge
<1>2. r.watch = {} => check = merge
  BY <1>1, NothingBefore DEF When
<1>3. r.watch # {} => check = <<"check_watch">> \o merge
  BY DEF When
<1>4. /\ Head(<<"check_watch">> \o merge) = "check_watch"
      /\ Tail(<<"check_watch">> \o merge) = merge
      /\ <<"check_watch">> \o merge \in Seq(Bracketed)
  BY <1>1, AfterHead
<1>5. check \in Seq(Bracketed)
  BY <1>1, <1>2, <1>3, <1>4
<1> HIDE DEF check
<1>6. Head(<<"stage">> \o check) = "stage" /\ Tail(<<"stage">> \o check) = check
  BY <1>1, <1>5, AfterHead
<1>7. Head(<<"reconcile", "stage">> \o check) = "reconcile"
      /\ Tail(<<"reconcile", "stage">> \o check) = <<"stage">> \o check
  BY <1>5
<1> QED
  BY <1>2, <1>3, <1>4, <1>6, <1>7 DEF merge, check

\* A merge finds the columns its plan adds.
LEMMA ReadyMerges ==
  ASSUME NEW r \in Shape, NEW t \in Tables, Ready(r, t)
  PROVE  /\ Promised!Merges(r, t) = {Upserted(t, r, Plan(r, t).load)}
         /\ Updated(t, r, Plan(r, t).load) \in Promised!SqlMerges(r, t)
<1>1. Padded(t, Plan(r, t).add) = t
  BY SameTable DEF Ready
<1> QED
  BY <1>1, ContractMerges DEF Ready

\* The frame appended to the table that was made for it.
LEMMA FreshMerged ==
  ASSUME NEW r, WellFormed(r), r.kind \in Merging, r.layout = "iceberg", r.cols # {}
  PROVE  /\ Exists(Fresh(r)) /\ Fresh(r) = Table(r.cols, {}, Null, FormOf(r))
         /\ Promised!Merges(r, Fresh(r)) = {Chunk1(r)}
         /\ [Fresh(r) EXCEPT !.rows = Chunk1(r).rows] = Chunk1(r)
<1>1. r \in Shape /\ r.more = {} /\ r.moreCols = {}
  BY DEF WellFormed, Merging
<1>2. Whole(r) = Chunk1(r) /\ Exists(Whole(r))
  BY <1>1, WholeForm
<1>3. r.cols \cup r.moreCols = r.cols
  BY <1>1
<1>4. Fresh(r) = Table(r.cols, {}, Null, FormOf(r))
  BY <1>3, FreshFilled
<1>5. Exists(Fresh(r)) /\ [Fresh(r) EXCEPT !.rows = Chunk1(r).rows] = Chunk1(r)
  BY <1>2, FreshFilled DEF Exists
<1> DEFINE m == Made(r, Absent)
<1>6. m = Fresh(r) /\ Absent \in Tables /\ ~Exists(Absent)
  BY <1>4, AbsentTyped DEF Made, Exists, Absent
<1>7. Fits(r, m) /\ Upserted(Padded(m, Plan(r, m).add), r, Plan(r, m).load) = Chunk1(r)
  BY <1>1, <1>6, MergedIntoNothing DEF Wide
<1> QED
  BY <1>4, <1>5, <1>6, <1>7, ContractMerges

LEMMA BqIncrementsRuns ==
  ASSUME TypeOK, call # Idle, todo # <<>>, engine = "bigquery",
         BqIncrements(call, todo, db)
  PROVE  Runs
<1> DEFINE r == call d == dropped \/ DropsForSwap(Head(todo))
           merge == <<"merge", "drop_staging">>
           check == When(r.watch # {}, <<"check_watch">>) \o merge
<1>0. /\ View = db /\ db \in Databases /\ r.kind = "incremental" /\ tx = NoTx
      /\ WellFormed(r) /\ r \in Shape /\ db.target \in Tables
      /\ r.keys # {} => r.cols # {}
      /\ \A t : r.clean => Promised!Effects(r, t, db.state) = Promised!Merges(r, t) \X {db.state}
  BY BqHere, Here, ContractEffects DEF BqIncrements, WellFormed
<1>1. \A w : BqIncrements(r, Tail(todo), w) /\ Moves(r, db, w) => Executed(w)
  BY BqMoves DEF BqPlace
<1>2. \A w : w.target = db.target /\ w.state = db.state => Moves(r, db, w)
  BY DEF Moves
<1>3. \A w : /\ w.state = db.state /\ r.clean /\ w.target \in Promised!Merges(r, db.target)
             => Moves(r, db, w)
  BY <1>0 DEF Moves, Makes
<1>4. CASE todo = <<"reject">>
  <2>1. Head(todo) = "reject"
    BY <1>4
  <2> QED
    BY <1>0, <2>1, Results DEF Runs
<1>5. CASE todo \in {<<"post_options">>, <<"drop_staging">>}
  <2>1. Head(todo) \in {"post_options", "drop_staging"} /\ Tail(todo) = <<>>
    <3>1. CASE todo = <<"post_options">>
      BY <3>1
    <3>2. CASE todo = <<"drop_staging">>
      BY <3>2
    <3> QED
      BY <1>5, <3>1, <3>2
  <2>2. \A w \in Result(Head(todo), View) : w.target = db.target /\ w.state = db.state
    <3>1. Result("drop_staging", db) = Staging(db, Absent) /\ Result("post_options", db) = {db}
      BY Results
    <3>2. \A w \in Staging(db, Absent) : w.target = db.target /\ w.state = db.state
      BY <1>0, Fields
    <3> QED
      BY <1>0, <2>1, <3>1, <3>2
  <2>3. \A w : BqIncrements(r, Tail(todo), w)
    BY <1>0, <2>1 DEF BqIncrements
  <2> QED
    BY <1>1, <1>2, <2>1, <2>2, <2>3 DEF Runs
<1>6. CASE /\ r.clean /\ r.keys # {} /\ ~Exists(db.target) /\ r.layout = "iceberg"
           /\ todo = <<"create_target", "append_target">>
  <2>1. Head(todo) = "create_target" /\ Tail(todo) = <<"append_target">>
    BY <1>6
  <2>2. ASSUME NEW w \in Target(db, Fresh(r)) PROVE Executed(w)
    <3>1. w.target = Fresh(r) /\ w.state = db.state
      BY <1>0, <2>2, Fields
    <3>2. Fresh(r) = Table(r.cols, {}, Null, FormOf(r))
      BY <1>0, <1>6, FreshMerged DEF Merging
    <3>3. Moves(r, db, w)
      BY <1>0, <1>6, <3>1, <3>2 DEF Moves, Creates
    <3>4. BqIncrements(r, Tail(todo), w)
      BY <1>0, <1>6, <2>1, <3>1 DEF BqIncrements
    <3> QED
      BY <1>1, <3>3, <3>4
  <2>3. Result(Head(todo), View) = Target(db, Fresh(r))
    BY <1>0, <2>1, Results DEF Fresh
  <2> QED
    BY <2>1, <2>2, <2>3 DEF Runs
<1>7. CASE /\ r.clean /\ r.keys # {} /\ r.layout = "iceberg" /\ db.target = Fresh(r)
           /\ todo = <<"append_target">>
  <2>1. Head(todo) = "append_target" /\ Tail(todo) = <<>>
    BY <1>7
  <2>2. ASSUME NEW w \in Target(db, [db.target EXCEPT !.rows = Chunk1(r).rows]) PROVE Executed(w)
    <3>1. w.target = Chunk1(r) /\ w.state = db.state
          /\ Promised!Merges(r, db.target) = {Chunk1(r)}
      BY <1>0, <1>7, <2>2, Fields, FreshMerged DEF Merging
    <3>2. Moves(r, db, w)
      BY <1>3, <1>7, <3>1
    <3>3. BqIncrements(r, Tail(todo), w)
      BY <1>0, <2>1 DEF BqIncrements
    <3> QED
      BY <1>1, <3>2, <3>3
  <2>3. Result(Head(todo), View) = Target(db, [db.target EXCEPT !.rows = Chunk1(r).rows])
    BY <1>0, <2>1, Results
  <2> QED
    BY <2>1, <2>2, <2>3 DEF Runs
<1>8. CASE /\ r.clean /\ r.keys # {} /\ ~Exists(db.target)
           /\ todo = <<"load_append">> \o When(r.layout # "none", <<"post_options">>)
  <2>1. Head(todo) = "load_append" /\ Tail(todo) \in {<<>>, <<"post_options">>}
    <3>1. "load_append" \in Bracketed /\ <<"post_options">> \in Seq(Bracketed)
          /\ <<>> \in Seq(Bracketed)
      BY DEF Bracketed, Statements
    <3>2. When(r.layout # "none", <<"post_options">>) \in {<<>>, <<"post_options">>}
      BY DEF When
    <3> DEFINE rest == When(r.layout # "none", <<"post_options">>)
    <3>3. rest \in Seq(Bracketed)
      BY <3>1, <3>2
    <3> HIDE DEF rest
    <3>4. Head(<<"load_append">> \o rest) = "load_append"
          /\ Tail(<<"load_append">> \o rest) = rest
      BY <3>1, <3>3, AfterHead
    <3> QED
      BY <1>8, <3>2, <3>4 DEF rest
  <2>2. ASSUME NEW w \in Target(db, Chunk1(r)) PROVE Executed(w)
    <3>1. w.target = Chunk1(r) /\ w.state = db.state
          /\ Promised!Merges(r, db.target) = {Chunk1(r)}
      BY <1>0, <1>8, <2>2, Fields, ContractMerges
    <3>2. Moves(r, db, w)
      BY <1>3, <1>8, <3>1
    <3>3. BqIncrements(r, Tail(todo), w)
      BY <1>0, <2>1 DEF BqIncrements
    <3> QED
      BY <1>1, <3>2, <3>3
  <2>3. Result(Head(todo), View) = Target(db, Chunk1(r))
    BY <1>0, <2>1, Results
  <2> QED
    BY <2>1, <2>2, <2>3 DEF Runs
<1>9. CASE r.clean /\ r.keys # {} /\ Exists(db.target) /\ todo = <<"reconcile", "stage">> \o check
  <2>1. Head(todo) = "reconcile" /\ Tail(todo) = <<"stage">> \o check
    BY <1>9, CheckStatements
  <2>2. ASSUME NEW w \in Reconcile(db) PROVE Executed(w)
    <3>1. Ready(r, w.target) /\ Moves(r, db, w)
      BY <1>0, <1>9, <2>2, ReconciledMoves DEF Merging
    <3>2. BqIncrements(r, Tail(todo), w)
      BY <1>0, <1>9, <2>1, <3>1 DEF BqIncrements
    <3> QED
      BY <1>1, <3>1, <3>2
  <2>3. Result(Head(todo), View) = Reconcile(db)
    BY <1>0, <2>1, Results
  <2> QED
    BY <2>1, <2>2, <2>3 DEF Runs
<1>10. CASE r.clean /\ r.keys # {} /\ Ready(r, db.target) /\ todo = <<"stage">> \o check
  <2>1. Head(todo) = "stage" /\ Tail(todo) = check
    BY <1>10, CheckStatements
  <2>2. ASSUME NEW w \in Staging(db, Chunk1(r)) PROVE Executed(w)
    <3>1. w.target = db.target /\ w.state = db.state
      BY <1>0, <2>2, Fields
    <3>2. BqIncrements(r, Tail(todo), w)
      BY <1>0, <1>10, <2>1, <3>1 DEF BqIncrements
    <3> QED
      BY <1>1, <1>2, <3>1, <3>2
  <2>3. Result(Head(todo), View) = Staging(db, Chunk1(r))
    BY <1>0, <2>1, Results
  <2> QED
    BY <2>1, <2>2, <2>3 DEF Runs
<1>11. CASE r.clean /\ r.keys # {} /\ Ready(r, db.target) /\ todo = merge
  <2>1. Head(todo) = "merge" /\ Tail(todo) = <<"drop_staging">>
    BY <1>11
  <2>2. ASSUME NEW w \in Merge(db) PROVE Executed(w)
    <3>1. w.state = db.state /\ w.target = Upserted(db.target, r, Plan(r, db.target).load)
      BY <1>0, <2>2, Fields DEF Merge, Load, Plan
    <3>2. Moves(r, db, w)
      BY <1>0, <1>3, <1>11, <3>1, ReadyMerges
    <3>3. BqIncrements(r, Tail(todo), w)
      BY <1>0, <2>1 DEF BqIncrements
    <3> QED
      BY <1>1, <3>2, <3>3
  <2>3. Result(Head(todo), View) = Merge(db)
    BY <1>0, <2>1, Results
  <2> QED
    BY <2>1, <2>2, <2>3 DEF Runs
<1>12. CASE r.clean /\ r.keys # {} /\ Ready(r, db.target) /\ todo = check
  <2>1. CASE r.watch = {}
    BY <1>11, <1>12, <2>1, CheckStatements
  <2>2. CASE r.watch # {}
    <3>1. Head(todo) = "check_watch" /\ Tail(todo) = merge
      BY <1>12, <2>2, CheckStatements
    <3>2. BqIncrements(r, Tail(todo), db)
      BY <1>0, <1>12, <3>1 DEF BqIncrements
    <3>3. Executed(db)
      BY <1>1, <1>2, <3>2
    <3>4. Result(Head(todo), View) = CheckWatch(db)
      BY <1>0, <3>1, Results
    <3>5. \A w \in CheckWatch(db) : w = db
      BY DEF CheckWatch
    <3> QED
      BY <3>1, <3>3, <3>4, <3>5 DEF Runs
  <2> QED
    BY <2>1, <2>2
<1> QED
  BY <1>4, <1>5, <1>6, <1>7, <1>8, <1>9, <1>10, <1>11, <1>12 DEF BqIncrements

LEMMA BqIncrementsSqlRuns ==
  ASSUME TypeOK, call # Idle, todo # <<>>, engine = "bigquery",
         BqIncrementsSql(call, todo, db)
  PROVE  Runs
<1> DEFINE r == call
<1>0. /\ View = db /\ db \in Databases /\ r.kind = "sql_incremental" /\ tx = NoTx
      /\ r \in Shape /\ db.target \in Tables
      /\ \A t : r.clean => Promised!Effects(r, t, db.state) = Promised!SqlMerges(r, t) \X {db.state}
  BY BqHere, Here, ContractEffects DEF BqIncrementsSql
<1>1. \A w : BqIncrementsSql(r, Tail(todo), w) /\ Moves(r, db, w) => Executed(w)
  BY BqMoves DEF BqPlace
<1>2. \A w : w.target = db.target /\ w.state = db.state => Moves(r, db, w)
  BY DEF Moves
<1>3. CASE todo = <<"reject">>
  <2>1. Head(todo) = "reject"
    BY <1>3
  <2> QED
    BY <1>0, <2>1, Results DEF Runs
<1>4. CASE todo = <<"drop_staging">>
  <2>1. Head(todo) = "drop_staging" /\ Tail(todo) = <<>>
    BY <1>4
  <2>2. ASSUME NEW w \in Staging(db, Absent) PROVE Executed(w)
    <3>1. w.target = db.target /\ w.state = db.state
      BY <1>0, <2>2, Fields
    <3> QED
      BY <1>0, <1>1, <1>2, <2>1, <3>1 DEF BqIncrementsSql
  <2>3. Result(Head(todo), View) = Staging(db, Absent)
    BY <1>0, <2>1, Results
  <2> QED
    BY <2>1, <2>2, <2>3 DEF Runs
<1>5. CASE /\ Exists(db.target)
           /\ todo = <<"stage", "check_keys", "reconcile", "merge_sql", "drop_staging">>
  <2>1. Head(todo) = "stage"
        /\ Tail(todo) = <<"check_keys", "reconcile", "merge_sql", "drop_staging">>
    BY <1>5
  <2>2. ASSUME NEW w \in Staging(db, Chunk1(r)) PROVE Executed(w)
    <3>1. w.target = db.target /\ w.state = db.state
      BY <1>0, <2>2, Fields
    <3> QED
      BY <1>0, <1>1, <1>2, <1>5, <2>1, <3>1 DEF BqIncrementsSql
  <2>3. Result(Head(todo), View) = Staging(db, Chunk1(r))
    BY <1>0, <2>1, Results
  <2> QED
    BY <2>1, <2>2, <2>3 DEF Runs
<1>6. CASE /\ Exists(db.target)
           /\ todo = <<"check_keys", "reconcile", "merge_sql", "drop_staging">>
  <2>1. Head(todo) = "check_keys" /\ Tail(todo) = <<"reconcile", "merge_sql", "drop_staging">>
    BY <1>6
  <2>2. r.clean => Executed(db)
    BY <1>0, <1>1, <1>2, <1>6, <2>1 DEF BqIncrementsSql
  <2>3. Result(Head(todo), View) = IF r.clean THEN {db} ELSE {}
    BY <1>0, <2>1, Results
  <2> QED
    BY <2>1, <2>2, <2>3 DEF Runs
<1>7. CASE Exists(db.target) /\ r.clean /\ todo = <<"reconcile", "merge_sql", "drop_staging">>
  <2>1. Head(todo) = "reconcile" /\ Tail(todo) = <<"merge_sql", "drop_staging">>
    BY <1>7
  <2>2. ASSUME NEW w \in Reconcile(db) PROVE Executed(w)
    <3>1. Ready(r, w.target) /\ Moves(r, db, w) /\ Exists(w.target)
      BY <1>0, <1>7, <2>2, ReconciledMoves DEF Merging, Ready
    <3> QED
      BY <1>0, <1>1, <1>7, <2>1, <3>1 DEF BqIncrementsSql
  <2>3. Result(Head(todo), View) = Reconcile(db)
    BY <1>0, <2>1, Results
  <2> QED
    BY <2>1, <2>2, <2>3 DEF Runs
<1>8. CASE r.clean /\ todo = <<"merge_sql", "drop_staging">> /\ Ready(r, db.target)
  <2>1. Head(todo) = "merge_sql" /\ Tail(todo) = <<"drop_staging">>
    BY <1>8
  <2>2. ASSUME NEW w \in MergeSql(db) PROVE Executed(w)
    <3>1. w.state = db.state /\ w.target = Updated(db.target, r, Plan(r, db.target).load)
      BY <1>0, <2>2, Fields DEF MergeSql, Load, Plan
    <3>2. w.target \in Promised!SqlMerges(r, db.target)
      BY <1>0, <1>8, <3>1, ReadyMerges
    <3>3. Moves(r, db, w)
      BY <1>0, <1>8, <3>1, <3>2 DEF Moves, Makes
    <3> QED
      BY <1>0, <1>1, <2>1, <3>3 DEF BqIncrementsSql
  <2>3. Result(Head(todo), View) = MergeSql(db)
    BY <1>0, <2>1, Results
  <2> QED
    BY <2>1, <2>2, <2>3 DEF Runs
<1> QED
  BY <1>3, <1>4, <1>5, <1>6, <1>7, <1>8 DEF BqIncrementsSql

LEMMA BqDeletesRuns ==
  ASSUME TypeOK, call # Idle, todo # <<>>, engine = "bigquery", Sane(db.target),
         BqDeletes(call, todo)
  PROVE  Runs
<1> DEFINE r == call
<1>0. /\ View = db /\ db \in Databases /\ r.kind = "delete" /\ tx = NoTx /\ db.target \in Tables
  BY BqHere, Here DEF BqDeletes
<1>1. todo = <<"script_delete">>
  BY DEF BqDeletes
<1>2. Head(todo) = "script_delete" /\ Tail(todo) = <<>>
  BY <1>1
<1>3. ASSUME NEW w \in ScriptDelete(db) PROVE Executed(w)
  <2>1. w.target = (IF Exists(db.target) THEN Without(db.target, r.keys) ELSE db.target)
        /\ w.state = Forgotten(db.state, r.records)
    BY <1>0, <1>3 DEF ScriptDelete, Databases
  <2>2. ~Exists(db.target) => Without(db.target, r.keys) = db.target
    BY <1>0, SameTable DEF Exists, Sane
  <2>3. Moves(r, db, w)
    BY <1>0, <2>1, <2>2, ContractEffects DEF Moves, Makes
  <2>4. BqPlace(r, last.table, Tail(todo), w, dropped \/ DropsForSwap(Head(todo)))
    BY <1>0, <1>2 DEF BqPlace, BqDeletes
  <2> QED
    BY <2>3, <2>4, BqMoves
<1>4. Result(Head(todo), View) = ScriptDelete(db)
  BY <1>0, <1>2, Results
<1> QED
  BY <1>2, <1>3, <1>4 DEF Runs

LEMMA FenceStatements ==
  ASSUME NEW r
  PROVE  LET rows == <<"merge_scope", "drop_staging">>
             check == When(r.fence # 0, <<"verify_fence">>) \o rows
         IN  /\ Head(rows) = "merge_scope" /\ Tail(rows) = <<"drop_staging">>
             /\ r.fence = 0 => check = rows
             /\ r.fence # 0 => Head(check) = "verify_fence" /\ Tail(check) = rows
             /\ Head(<<"stage_records">> \o check) = "stage_records"
             /\ Tail(<<"stage_records">> \o check) = check
<1> DEFINE rows == <<"merge_scope", "drop_staging">>
           check == When(r.fence # 0, <<"verify_fence">>) \o rows
<1>1. rows \in Seq(Bracketed) /\ "verify_fence" \in Bracketed /\ "stage_records" \in Bracketed
  BY DEF Bracketed, Statements
<1>2. Head(rows) = "merge_scope" /\ Tail(rows) = <<"drop_staging">>
  OBVIOUS
<1> HIDE DEF rows
<1>3. r.fence = 0 => check = rows
  BY <1>1, NothingBefore DEF When
<1>4. r.fence # 0 => check = <<"verify_fence">> \o rows
  BY DEF When
<1>5. /\ Head(<<"verify_fence">> \o rows) = "verify_fence"
      /\ Tail(<<"verify_fence">> \o rows) = rows
      /\ <<"verify_fence">> \o rows \in Seq(Bracketed)
  BY <1>1, AfterHead
<1>6. check \in Seq(Bracketed)
  BY <1>1, <1>3, <1>4, <1>5
<1> HIDE DEF check
<1>7. Head(<<"stage_records">> \o check) = "stage_records"
      /\ Tail(<<"stage_records">> \o check) = check
  BY <1>1, <1>6, AfterHead
<1> QED
  BY <1>2, <1>3, <1>4, <1>5, <1>7 DEF rows, check

LEMMA BqReplacesScopeRuns ==
  ASSUME TypeOK, call # Idle, todo # <<>>, engine = "bigquery", BqReplacesScope(call, todo)
  PROVE  Runs
<1> DEFINE r == call rows == <<"merge_scope", "drop_staging">>
           check == When(r.fence # 0, <<"verify_fence">>) \o rows
<1>0. /\ View = db /\ db \in Databases /\ r.kind = "scope" /\ tx = NoTx
  BY BqHere, Here DEF BqReplacesScope
<1>1. \A w : BqReplacesScope(r, Tail(todo)) /\ Moves(r, db, w) => Executed(w)
  BY BqMoves DEF BqPlace
<1>2. \A w : w.target = db.target /\ w.state = db.state => Moves(r, db, w)
  BY DEF Moves
<1>3. CASE todo = <<"stage_records">> \o check
  <2>1. Head(todo) = "stage_records" /\ Tail(todo) = check
    BY <1>3, FenceStatements
  <2>2. BqReplacesScope(r, Tail(todo))
    BY <1>0, <2>1 DEF BqReplacesScope
  <2>3. Result(Head(todo), View) = {db}
    BY <1>0, <2>1, Results
  <2> QED
    BY <1>1, <1>2, <2>1, <2>2, <2>3 DEF Runs
<1>4. CASE todo = rows
  <2>1. Head(todo) = "merge_scope" /\ Tail(todo) = <<"drop_staging">>
    BY <1>4, FenceStatements
  <2>2. BqReplacesScope(r, Tail(todo))
    BY <1>0, <2>1 DEF BqReplacesScope
  <2>3. ASSUME NEW w \in ReplaceState(db) PROVE Executed(w)
    <3>1. r.clean /\ w.target = db.target
          /\ w.state = Recorded(NoState, r.records, r.value)
      BY <1>0, <2>3, Fields DEF ReplaceState
    <3>2. Moves(r, db, w)
      BY <1>0, <3>1, ContractEffects DEF Moves, Makes
    <3> QED
      BY <1>1, <2>2, <3>2
  <2>4. Result(Head(todo), View) = ReplaceState(db)
    BY <1>0, <2>1, Results
  <2> QED
    BY <2>1, <2>3, <2>4 DEF Runs
<1>5. CASE todo = check
  <2>1. CASE r.fence = 0
    BY <1>4, <1>5, <2>1, FenceStatements
  <2>2. CASE r.fence # 0
    <3>1. Head(todo) = "verify_fence" /\ Tail(todo) = rows
      BY <1>5, <2>2, FenceStatements
    <3>2. BqReplacesScope(r, Tail(todo))
      BY <1>0, <3>1 DEF BqReplacesScope
    <3>3. Result(Head(todo), View) = VerifyFence(db)
      BY <1>0, <3>1, Results
    <3>4. \A w \in VerifyFence(db) : w = db
      BY DEF VerifyFence
    <3> QED
      BY <1>1, <1>2, <3>1, <3>2, <3>3, <3>4 DEF Runs
  <2> QED
    BY <2>1, <2>2
<1>6. CASE todo = <<"drop_staging">>
  <2>1. Head(todo) = "drop_staging" /\ Tail(todo) = <<>>
    BY <1>6
  <2>2. BqReplacesScope(r, Tail(todo))
    BY <1>0, <2>1 DEF BqReplacesScope
  <2>3. \A w \in Staging(db, Absent) : w.target = db.target /\ w.state = db.state
    BY <1>0, Fields
  <2>4. Result(Head(todo), View) = Staging(db, Absent)
    BY <1>0, <2>1, Results
  <2> QED
    BY <1>1, <1>2, <2>1, <2>2, <2>3, <2>4 DEF Runs
<1> QED
  BY <1>3, <1>4, <1>5, <1>6 DEF BqReplacesScope

LEMMA ScriptStatements ==
  ASSUME NEW r
  PROVE  LET script == ScriptLeft(r)
         IN  /\ script \in Seq(Bracketed)
             /\ r.keys # {} => script = <<"script_children">> \o <<"drop_staging">>
             /\ r.keys = {} => script \in {<<>>, <<"script_children">>}
             /\ \A q \in Seq(Bracketed) :
                  /\ Head(<<"stage">> \o q) = "stage" /\ Tail(<<"stage">> \o q) = q
                  /\ Head(<<"reconcile", "stage">> \o q) = "reconcile"
                  /\ Tail(<<"reconcile", "stage">> \o q) = <<"stage">> \o q
                  /\ Head(<<"create_missing">> \o q) = "create_missing"
                  /\ Tail(<<"create_missing">> \o q) = q
<1>1. /\ <<>> \in Seq(Bracketed) /\ <<"script_children">> \in Seq(Bracketed)
      /\ <<"drop_staging">> \in Seq(Bracketed) /\ "stage" \in Bracketed
      /\ "create_missing" \in Bracketed /\ "script_children" \in Bracketed
  BY DEF Bracketed, Statements
<1>2. /\ <<>> \o <<>> = <<>> /\ <<"script_children">> \o <<>> = <<"script_children">>
      /\ <<"script_children">> \o <<"drop_staging">> \in Seq(Bracketed)
  BY <1>1, ConcatEmptySeq, ConcatProperties
<1>3. r.keys # {} => ScriptLeft(r) = <<"script_children">> \o <<"drop_staging">>
  BY DEF ScriptLeft, When
<1>4. r.keys = {} => ScriptLeft(r) \in {<<>>, <<"script_children">>}
  BY <1>2 DEF ScriptLeft, When
<1>5. ScriptLeft(r) \in Seq(Bracketed)
  BY <1>1, <1>2, <1>3, <1>4
<1>6. ASSUME NEW q \in Seq(Bracketed)
      PROVE  /\ Head(<<"stage">> \o q) = "stage" /\ Tail(<<"stage">> \o q) = q
             /\ Head(<<"reconcile", "stage">> \o q) = "reconcile"
             /\ Tail(<<"reconcile", "stage">> \o q) = <<"stage">> \o q
             /\ Head(<<"create_missing">> \o q) = "create_missing"
             /\ Tail(<<"create_missing">> \o q) = q
  <2>1. Head(<<"stage">> \o q) = "stage" /\ Tail(<<"stage">> \o q) = q
    BY <1>1, AfterHead
  <2>2. Head(<<"create_missing">> \o q) = "create_missing" /\ Tail(<<"create_missing">> \o q) = q
    BY <1>1, AfterHead
  <2>3. Head(<<"reconcile", "stage">> \o q) = "reconcile"
        /\ Tail(<<"reconcile", "stage">> \o q) = <<"stage">> \o q
    OBVIOUS
  <2> QED
    BY <2>1, <2>2, <2>3
<1> QED
  BY <1>3, <1>4, <1>5, <1>6

\* What the script makes of a table that is ready for the frame.
LEMMA ScriptMoves ==
  ASSUME TypeOK, call # Idle, call.kind = "children", call.clean, Exists(db.target),
         call.keys # {} => Ready(call, db.target), NEW w \in ScriptChildren(db)
  PROVE  Moves(call, db, w)
<1> DEFINE r == call t == db.target rest == Without(t, OfDocs(t, r.parents))
<1>1. db \in Databases /\ t \in Tables /\ r \in Shape
  BY Here
<1>2. rest \in Tables /\ rest.cols = t.cols
  BY <1>1, WithoutTyped
<1>3. /\ w.target = (IF r.keys = {} THEN rest ELSE Upserted(rest, r, Plan(r, rest).load))
      /\ w.state = Recorded(db.state, r.records, r.value)
  BY <1>1 DEF ScriptChildren, Databases, Load, Plan
<1> HIDE DEF rest
<1>4. r.keys # {} => Ready(r, rest)
  BY <1>2 DEF Ready, Exists, Fits, Plan
<1>5. w.target \in Promised!Children(r, t)
  BY <1>1, <1>2, <1>3, <1>4, ReadyMerges, ContractMerges DEF rest
<1>6. Promised!Effects(r, t, db.state)
        = Promised!Children(r, t) \X {Recorded(db.state, r.records, r.value)}
  BY ContractEffects
<1> QED
  BY <1>3, <1>5, <1>6 DEF Moves, Makes

LEMMA BqReplacesChildrenRuns ==
  ASSUME TypeOK, call # Idle, todo # <<>>, engine = "bigquery", Sane(db.target),
         BqReplacesChildren(call, todo, db)
  PROVE  Runs
<1> DEFINE r == call script == ScriptLeft(r) rows == When(r.keys # {}, <<"reconcile", "stage">>)
<1>0. /\ View = db /\ db \in Databases /\ r.kind = "children" /\ tx = NoTx
      /\ WellFormed(r) /\ r \in Shape /\ db.target \in Tables
      /\ r.keys # {} => r.cols # {}
      /\ script \in Seq(Bracketed)
      /\ r.cols \in SUBSET Columns /\ FormOf(r) \in {"plain", "part", "iceberg"}
  BY BqHere, Here, ScriptStatements DEF BqReplacesChildren, WellFormed
<1>1. \A w : BqReplacesChildren(r, Tail(todo), w) /\ Moves(r, db, w) => Executed(w)
  BY BqMoves DEF BqPlace
<1>2. \A w : w.target = db.target /\ w.state = db.state => Moves(r, db, w)
  BY DEF Moves
<1>3. CASE todo = <<"reject">>
  <2>1. Head(todo) = "reject"
    BY <1>3
  <2> QED
    BY <1>0, <2>1, Results DEF Runs
<1>4. CASE todo = <<"drop_staging">>
  <2>1. Head(todo) = "drop_staging" /\ Tail(todo) = <<>>
    BY <1>4
  <2>2. ASSUME NEW w \in Staging(db, Absent) PROVE Executed(w)
    <3>1. w.target = db.target /\ w.state = db.state
      BY <1>0, <2>2, Fields
    <3> QED
      BY <1>0, <1>1, <1>2, <2>1, <3>1 DEF BqReplacesChildren
  <2>3. Result(Head(todo), View) = Staging(db, Absent)
    BY <1>0, <2>1, Results
  <2> QED
    BY <2>1, <2>2, <2>3 DEF Runs
<1>5. CASE r.clean /\ todo = <<"upsert_state">> /\ r.keys = {} /\ ~Exists(db.target)
  <2>1. Head(todo) = "upsert_state" /\ Tail(todo) = <<>>
    BY <1>5
  <2>2. ASSUME NEW w \in UpsertState(db) PROVE Executed(w)
    <3>1. w.target = db.target /\ w.state = Recorded(db.state, r.records, r.value)
      BY <1>0, <2>2, Fields DEF UpsertState
    <3>2. Without(db.target, OfDocs(db.target, r.parents)) = db.target
      BY <1>0, <1>5, SameTable DEF Sane, Exists, OfDocs
    <3>3. db.target \in Promised!Children(r, db.target)
      BY <1>5, <3>2, ContractMerges
    <3>4. Moves(r, db, w)
      BY <1>0, <1>5, <3>1, <3>3, ContractEffects DEF Moves, Makes
    <3> QED
      BY <1>0, <1>1, <2>1, <3>4 DEF BqReplacesChildren
  <2>3. Result(Head(todo), View) = UpsertState(db)
    BY <1>0, <2>1, Results
  <2> QED
    BY <2>1, <2>2, <2>3 DEF Runs
<1>6. CASE r.clean /\ r.cols # {} /\ ~Exists(db.target) /\ todo = <<"create_missing">> \o (rows \o script)
  <2>1. rows \o script \in Seq(Bracketed)
    <3>1. <<>> \in Seq(Bracketed) /\ <<"reconcile", "stage">> \in Seq(Bracketed)
      BY DEF Bracketed, Statements
    <3>2. rows \in Seq(Bracketed)
      BY <3>1 DEF When
    <3> HIDE DEF rows, script
    <3> QED
      BY <1>0, <3>2, ConcatProperties DEF script
  <2>2. Head(todo) = "create_missing" /\ Tail(todo) = rows \o script
    <3> DEFINE next == rows \o script
    <3>1. next \in Seq(Bracketed) /\ todo = <<"create_missing">> \o next
      BY <1>6, <2>1
    <3> HIDE DEF next
    <3>2. Head(todo) = "create_missing" /\ Tail(todo) = next
      BY <3>1, ScriptStatements
    <3> QED
      BY <3>2 DEF next
  <2>3. ASSUME NEW w \in CreateMissing(db) PROVE Executed(w)
    <3>1. w.target = Table(r.cols, {}, Null, FormOf(r)) /\ w.state = db.state
      BY <1>0, <1>6, <2>3, Fields DEF CreateMissing
    <3>2. Moves(r, db, w)
      BY <1>0, <1>6, <3>1 DEF Moves, Creates
    <3>3. Exists(w.target)
      BY <1>6, <3>1 DEF Exists, Table
    <3>4. BqReplacesChildren(r, Tail(todo), w)
      BY <1>0, <1>6, <2>2, <3>3 DEF BqReplacesChildren
    <3> QED
      BY <1>1, <3>2, <3>4
  <2>4. Result(Head(todo), View) = CreateMissing(db)
    BY <1>0, <2>2, Results
  <2> QED
    BY <2>2, <2>3, <2>4 DEF Runs
<1>7. CASE r.clean /\ todo = script /\ Exists(db.target) /\ (r.keys # {} => Ready(r, db.target))
  <2>1. Head(todo) = "script_children" /\ Tail(todo) \in {<<>>, <<"drop_staging">>}
    <3>1. CASE r.keys = {}
      <4>1. todo = <<"script_children">>
        BY <1>7, <3>1, ScriptStatements
      <4> QED
        BY <4>1
    <3>2. CASE r.keys # {}
      <4>1. todo = <<"script_children">> \o <<"drop_staging">>
        BY <1>7, <3>2, ScriptStatements
      <4>2. "script_children" \in Bracketed /\ <<"drop_staging">> \in Seq(Bracketed)
        BY DEF Bracketed, Statements
      <4>3. Head(todo) = "script_children" /\ Tail(todo) = <<"drop_staging">>
        BY <4>1, <4>2, AfterHead
      <4> QED
        BY <4>3
    <3> QED
      BY <3>1, <3>2
  <2>2. ASSUME NEW w \in ScriptChildren(db) PROVE Executed(w)
    <3>1. Moves(r, db, w)
      BY <1>0, <1>7, <2>2, ScriptMoves
    <3>2. BqReplacesChildren(r, Tail(todo), w)
      BY <1>0, <2>1 DEF BqReplacesChildren
    <3> QED
      BY <1>1, <3>1, <3>2
  <2>3. Result(Head(todo), View) = ScriptChildren(db)
    BY <1>0, <2>1, Results
  <2> QED
    BY <2>1, <2>2, <2>3 DEF Runs
<1>8. CASE r.clean /\ r.keys # {} /\ todo = <<"stage">> \o script /\ Ready(r, db.target)
  <2>1. Head(todo) = "stage" /\ Tail(todo) = script
    BY <1>8, ScriptStatements
  <2>2. ASSUME NEW w \in Staging(db, Chunk1(r)) PROVE Executed(w)
    <3>1. w.target = db.target /\ w.state = db.state
      BY <1>0, <2>2, Fields
    <3>2. BqReplacesChildren(r, Tail(todo), w)
      BY <1>0, <1>8, <2>1, <3>1 DEF BqReplacesChildren, Ready
    <3> QED
      BY <1>1, <1>2, <3>1, <3>2
  <2>3. Result(Head(todo), View) = Staging(db, Chunk1(r))
    BY <1>0, <2>1, Results
  <2> QED
    BY <2>1, <2>2, <2>3 DEF Runs
<1>9. CASE r.clean /\ todo = rows \o script /\ Exists(db.target)
  <2>1. CASE r.keys = {}
    <3>1. rows \o script = script
      <4>1. rows = <<>>
        BY <2>1 DEF When
      <4> HIDE DEF rows, script
      <4> QED
        BY <1>0, <4>1, NothingBefore DEF script
    <3> QED
      BY <1>7, <1>9, <2>1, <3>1
  <2>2. CASE r.keys # {}
    <3>1. Head(todo) = "reconcile" /\ Tail(todo) = <<"stage">> \o script
      BY <1>9, <2>2, ScriptStatements DEF When
    <3>2. ASSUME NEW w \in Reconcile(db) PROVE Executed(w)
      <4>1. Ready(r, w.target) /\ Moves(r, db, w)
        BY <1>0, <1>9, <3>2, ReconciledMoves DEF Merging
      <4>2. BqReplacesChildren(r, Tail(todo), w)
        BY <1>0, <1>9, <2>2, <3>1, <4>1 DEF BqReplacesChildren
      <4> QED
        BY <1>1, <4>1, <4>2
    <3>3. Result(Head(todo), View) = Reconcile(db)
      BY <1>0, <3>1, Results
    <3> QED
      BY <3>1, <3>2, <3>3 DEF Runs
  <2> QED
    BY <2>1, <2>2
<1> QED
  BY <1>3, <1>4, <1>5, <1>6, <1>7, <1>8, <1>9 DEF BqReplacesChildren

LEMMA BqRuns ==
  ASSUME TypeOK, call # Idle, todo # <<>>, engine = "bigquery", Sane(db.target),
         Place(engine, call, last.table, todo, db, tx, dropped)
  PROVE  Runs
<1>1. tx = NoTx /\ BqPlace(call, last.table, todo, db, dropped)
  BY DEF Place
<1> QED
  BY <1>1, EmptiesRuns, BqReplacesRuns, BqIncrementsRuns, BqIncrementsSqlRuns,
     BqReplacesChildrenRuns, BqDeletesRuns, BqReplacesScopeRuns
  DEF BqPlace

\* What becomes of a table as a request is served.
LEMMA PaddedSane ==
  ASSUME NEW t \in Tables, Sane(t), NEW cols \in SUBSET Columns
  PROVE  Sane(Padded(t, cols))
  BY PaddedTyped DEF Sane

LEMMA MergedColumns ==
  ASSUME NEW r \in Shape, NEW t \in Tables, NEW cols \in SUBSET Columns, NEW load
  PROVE  /\ Upserted(Padded(t, cols), r, load).cols = t.cols \cup cols
         /\ Updated(Padded(t, cols), r, load).cols = t.cols \cup cols
<1>1. Padded(t, cols) \in Tables /\ Padded(t, cols).cols = t.cols \cup cols
  BY PaddedTyped
<1> QED
  BY <1>1 DEF Upserted, Updated, Tables

LEMMA MovesSane ==
  ASSUME NEW r, WellFormed(r), NEW v \in Databases, NEW w \in Databases, Sane(v.target),
         Moves(r, v, w)
  PROVE  Sane(w.target)
<1> DEFINE t == v.target u == w.target
<1>0. r \in Shape /\ t \in Tables /\ u \in Tables /\ Sane(Absent)
  BY DEF WellFormed, Databases, Sane, Absent
<1>1. CASE u = t
  BY <1>1
<1>2. CASE Makes(r, v, u, w.state)
  <2>0. <<u, w.state>> \in Promised!Effects(r, t, v.state)
    BY <1>2 DEF Makes
  <2>1. Sane(Whole(r))
    BY <1>0, WholeForm DEF Sane, Exists
  <2>2. CASE r.kind \in {"full", "sql_full"}
    <3>0. Promised!Effects(r, t, v.state) =
            {<<IF Exists(Whole(r)) THEN [Whole(r) EXCEPT !.form = f] ELSE Absent, v.state>>
               : f \in {FormOf(r), t.form}}
      BY <2>2, ContractEffects
    <3>1. \E f : u = (IF Exists(Whole(r)) THEN [Whole(r) EXCEPT !.form = f] ELSE Absent)
      BY <2>0, <3>0
    <3> QED
      BY <1>0, <3>1, ChunksTyped DEF Sane, Exists, Tables
  <2>3. CASE r.kind = "chunks"
    BY <2>0, <2>1, <2>3, ContractEffects
  <2>4. ASSUME NEW b \in Tables, Sane(b), u \in Promised!Merges(r, b), r.keys # {} => r.cols # {}
        PROVE  Sane(u)
    <3>1. CASE ~Exists(b)
      <4>1. u = Chunk1(r)
        BY <2>4, <3>1, ContractMerges
      <4> QED
        <5>1. u.cols = r.cols /\ u.rows = [k \in r.keys |-> Row(r.cols, r.value)]
          BY <1>0, <4>1, ChunksTyped
        <5>2. DOMAIN u.rows = r.keys
          BY <5>1
        <5> QED
          BY <2>4, <5>1, <5>2 DEF Sane
    <3>2. CASE Exists(b)
      <4>1. u = Upserted(Padded(b, Plan(r, b).add), r, Plan(r, b).load)
        BY <2>4, <3>2, ContractMerges
      <4>2. Plan(r, b).add \in SUBSET Columns
        BY <1>0, PlanTyped DEF Plan, Tables
      <4>3. u.cols = b.cols \cup Plan(r, b).add
        BY <1>0, <2>4, <4>1, <4>2, MergedColumns
      <4> QED
        BY <3>2, <4>3 DEF Sane, Exists
    <3> QED
      BY <3>1, <3>2
  <2>5. CASE r.kind = "incremental"
    <3>1. u \in Promised!Merges(r, t)
      BY <2>0, <2>5, ContractEffects DEF Merging
    <3> QED
      BY <1>0, <2>4, <2>5, <3>1 DEF WellFormed
  <2>6. CASE r.kind = "sql_incremental"
    <3>1. u \in Promised!SqlMerges(r, t)
      BY <2>0, <2>6, ContractEffects DEF Merging
    <3>2. /\ Exists(t)
          /\ \/ u = Upserted(Padded(t, Plan(r, t).add), r, Plan(r, t).load)
             \/ u = Updated(Padded(t, Plan(r, t).add), r, Plan(r, t).load)
      BY <3>1, ContractMerges
    <3>3. Plan(r, t).add \in SUBSET Columns
      BY <1>0, PlanTyped DEF Plan, Tables
    <3>4. u.cols = t.cols \cup Plan(r, t).add
      BY <1>0, <3>2, <3>3, MergedColumns
    <3> QED
      BY <3>2, <3>4 DEF Sane, Exists
  <2>7. \A keys : Without(t, keys) \in Tables /\ Sane(Without(t, keys))
    <3> SUFFICES ASSUME NEW keys PROVE Without(t, keys) \in Tables /\ Sane(Without(t, keys))
      OBVIOUS
    <3>1. /\ Without(t, keys) \in Tables /\ Without(t, keys).cols = t.cols
          /\ Without(t, keys).rows = [k \in DOMAIN t.rows \ keys |-> t.rows[k]]
      BY <1>0, WithoutTyped
    <3>2. DOMAIN Without(t, keys).rows = DOMAIN t.rows \ keys
      BY <3>1
    <3> QED
      BY <1>0, <3>1, <3>2 DEF Sane
  <2>8. CASE r.kind = "children"
    <3>1. u \in Promised!Children(r, t)
      BY <2>0, <2>8, ContractEffects DEF Merging
    <3> DEFINE rest == Without(t, OfDocs(t, r.parents))
    <3>2. rest \in Tables /\ Sane(rest)
      BY <2>7
    <3>3. u = rest \/ u \in Promised!Merges(r, rest)
      BY <3>1, ContractMerges
    <3> HIDE DEF rest
    <3> QED
      BY <1>0, <2>4, <2>8, <3>2, <3>3 DEF WellFormed
  <2>9. CASE r.kind = "delete"
    BY <2>0, <2>7, <2>9, ContractEffects
  <2>10. CASE r.kind = "scope"
    BY <2>0, <2>10, ContractEffects
  <2> QED
    BY <1>0, <2>2, <2>3, <2>5, <2>6, <2>8, <2>9, <2>10 DEF Shape, Replacing, Merging
<1>3. CASE Widens(r, t, u)
  BY <1>0, <1>3, PaddedSane, ShapeFacts DEF Widens, Padded, Sane, Exists, Tables
<1>4. CASE Creates(r, t, u) \/ Remakes(r, t, u)
  BY <1>0, <1>4 DEF Creates, Remakes, Table, Sane
<1> QED
  BY <1>1, <1>2, <1>3, <1>4 DEF Moves

\* The program of an SQL model stored in Iceberg, in its two parts.
LEMMA IcebergProgramWhole ==
  <<"stage">> \o <<"drop_target", "create_target", "append_staged", "drop_staging", "count">>
    = <<"stage", "drop_target", "create_target", "append_staged", "drop_staging", "count">>
<1> DEFINE after == <<"drop_target", "create_target", "append_staged", "drop_staging", "count">>
           all == <<"stage", "drop_target", "create_target", "append_staged", "drop_staging",
                    "count">>
<1>1. <<"stage">> \in Seq(Bracketed) /\ after \in Seq(Bracketed) /\ all \in Seq(Bracketed)
  BY DEF Bracketed, Statements
<1>2. <<"stage">> \o after \in Seq(Bracketed)
  BY <1>1, ConcatProperties
<1>3. Len(<<"stage">> \o after) = 6 /\ Len(all) = 6
  OBVIOUS
<1>4. \A i \in 1 .. 6 : (<<"stage">> \o after)[i] = all[i]
  <2> TAKE i \in 1 .. 6
  <2>1. CASE i = 1
    BY <2>1
  <2>2. CASE i = 2
    BY <2>2
  <2>3. CASE i = 3
    BY <2>3
  <2>4. CASE i = 4
    BY <2>4
  <2>5. CASE i = 5
    BY <2>5
  <2>6. CASE i = 6
    BY <2>6
  <2> QED
    BY <2>1, <2>2, <2>3, <2>4, <2>5, <2>6
<1> QED
  BY <1>1, <1>2, <1>3, <1>4, SeqEqual

LEMMA BqReplacementStarts ==
  ASSUME TypeOK, NEW r \in Asked["bigquery"], r.kind \in Replacing, db.staging = Absent, NEW d
  PROVE  BqPlace(r, db.target, BigQuery(r), db, d)
<1> DEFINE t == db.target mine == SwapIn(r, t) next == When(r.more # {}, <<"stage_next">>)
<1>0. r \in Shape /\ WellFormed(r) /\ mine \in Seq(Bracketed)
      /\ r.layout \in {"none", "plain", "part", "iceberg"}
  BY AdapterAssumption, SwapInTyped, TableAssumption DEF WellFormed, Shape
<1>1. r.kind # "chunks" => next \o mine = mine
  <2>1. r.kind # "chunks" => next = <<>>
    BY <1>0 DEF When, WellFormed
  <2> HIDE DEF mine, next
  <2> QED
    BY <1>0, <2>1, NothingBefore DEF mine
<1>2. SpecMatches(r) <=> Matching(r, t)
  BY DEF SpecMatches, Matching
<1>3. CASE r.cols = {} /\ r.kind # "sql_full"
  <2>1. BigQuery(r) = <<"drop_target">>
    <3>1. CASE r.kind = "full"
      BY <1>3, <3>1 DEF BigQuery, BqFull
    <3>2. CASE r.kind = "chunks"
      BY <1>0, <1>3, <3>2 DEF BigQuery, BqChunks, WellFormed
    <3> QED
      BY <1>3, <3>1, <3>2 DEF Replacing
  <2> QED
    BY <1>3, <2>1 DEF BqPlace, Empties
<1>4. CASE r.kind = "full" /\ r.cols # {} /\ r.layout \in {"none", "iceberg"}
  <2>1. BigQuery(r) = BqFull(r)
    BY <1>4 DEF BigQuery
  <2>2. /\ r.layout = "none" => BqFull(r) = <<"load_truncate">>
        /\ r.layout = "iceberg" =>
              BqFull(r) = <<"drop_target", "create_target", "append_target">>
    BY <1>4 DEF BqFull, IcebergFull
  <2>3. BqReplaces(r, t, BigQuery(r), db, d)
    BY <1>4, <2>1, <2>2 DEF BqReplaces, Replacing
  <2> QED
    BY <2>3 DEF BqPlace
<1>5. CASE r.kind = "full" /\ r.cols # {} /\ r.layout \notin {"none", "iceberg"}
  <2>1. BigQuery(r) = BqFull(r)
    BY <1>5 DEF BigQuery
  <2>2. BqFull(r) = <<"stage">> \o (IF SpecMatches(r) THEN <<"swap", "drop_staging">>
                                  ELSE <<"post_options", "drop_target", "rename_staging">>)
    BY <1>5 DEF BqFull
  <2>3. mine = IF SpecMatches(r) THEN <<"swap", "drop_staging">>
               ELSE <<"post_options", "drop_target", "rename_staging">>
    BY <1>2, <1>5 DEF SwapIn
  <2>4. BigQuery(r) = <<"stage">> \o (next \o mine)
    BY <1>1, <1>5, <2>1, <2>2, <2>3
  <2>5. BqStages(r, t, BigQuery(r), db)
    BY <1>5, <2>4 DEF BqStages
  <2> QED
    BY <1>5, <2>5 DEF BqReplaces, BqPlace, Replacing
<1>6. CASE r.kind = "sql_full"
  <2>0. r.cols # {}
    BY <1>0, <1>6 DEF WellFormed
  <2>1. BigQuery(r) = BqSqlFull(r)
    BY <1>6 DEF BigQuery
  <2>2. CASE r.layout = "iceberg"
    <3>1. mine = <<"drop_target", "create_target", "append_staged", "drop_staging", "count">>
      BY <1>6, <2>2 DEF SwapIn
    <3>2. BigQuery(r) = <<"stage">> \o (next \o mine)
      BY <1>1, <1>6, <2>1, <2>2, <3>1, IcebergProgramWhole DEF BqSqlFull
    <3>3. BqStages(r, t, BigQuery(r), db)
      BY <1>6, <2>2, <3>2 DEF BqStages
    <3> QED
      BY <1>6, <2>0, <3>3 DEF BqReplaces, BqPlace, Replacing
  <2>3. CASE r.layout # "iceberg"
    BY <1>6, <2>0, <2>1, <2>3 DEF BqSqlFull, BqReplaces, BqPlace, Replacing
  <2> QED
    BY <2>2, <2>3
<1>7. CASE r.kind = "chunks" /\ r.cols # {}
  <2>1. r.keys # {} /\ BigQuery(r) = BqChunks(r)
    BY <1>0, <1>7 DEF BigQuery, WellFormed
  <2>2. mine =
         CASE r.layout = "iceberg" ->
                <<"drop_target", "create_target", "append_staged", "drop_staging">>
           [] r.layout = "none" \/ (r.layout # "iceberg" /\ SpecMatches(r)) ->
                <<"swap", "drop_staging">>
           [] OTHER -> <<"build", "drop_target", "rename_replacement", "drop_staging">>
    <3>1. CASE r.layout = "iceberg"
      BY <1>7, <3>1 DEF SwapIn
    <3>2. CASE r.layout = "none" \/ (r.layout # "iceberg" /\ SpecMatches(r))
      BY <1>2, <1>7, <3>2 DEF SwapIn
    <3>3. CASE r.layout # "none" /\ r.layout # "iceberg" /\ ~SpecMatches(r)
      BY <1>2, <1>7, <3>3 DEF SwapIn
    <3> QED
      BY <3>1, <3>2, <3>3
  <2>3. BqChunks(r) = (<<"stage">> \o next) \o mine
    BY <2>1, <2>2 DEF BqChunks
  <2>4. next \in Seq(Bracketed)
    BY BracketedPieces DEF When
  <2>5. BigQuery(r) = <<"stage">> \o (next \o mine)
    <3> HIDE DEF next, mine
    <3> QED
      BY <1>0, <2>1, <2>3, <2>4, BracketedPieces, Regrouped DEF mine
  <2>6. BqStages(r, t, BigQuery(r), db)
    BY <1>7, <2>5 DEF BqStages
  <2> QED
    BY <1>7, <2>6 DEF BqReplaces, BqPlace, Replacing
<1> QED
  BY <1>3, <1>4, <1>5, <1>6, <1>7 DEF Replacing

\* A BigQuery call starts where its program starts.
LEMMA BqStarts ==
  ASSUME TypeOK, NEW r \in Asked["bigquery"], Sane(db.target), db.staging = Absent,
         r.kind = "sql_incremental" => Exists(db.target), NEW d
  PROVE  BqPlace(r, db.target, BigQuery(r), db, d)
<1>0. r \in Shape /\ WellFormed(r)
  BY AdapterAssumption DEF WellFormed
<1>1. CASE r.kind \in Replacing
  BY <1>1, BqReplacementStarts
<1>2. CASE r.kind = "incremental"
  <2>1. BigQuery(r) = BqIncremental(r)
    BY <1>2 DEF BigQuery
  <2>2. CASE r.keys = {} \/ ~r.clean
    BY <1>2, <2>1, <2>2 DEF BqIncremental, BqIncrements, BqPlace
  <2>3. CASE r.keys # {} /\ r.clean /\ ~Exists(db.target)
    BY <1>2, <2>1, <2>3 DEF BqIncremental, BqIncrements, BqPlace
  <2>4. CASE r.keys # {} /\ r.clean /\ Exists(db.target)
    <3> DEFINE check == When(r.watch # {}, <<"check_watch">>)
               merge == <<"merge", "drop_staging">>
    <3>1. BigQuery(r) = <<"reject">>
          \/ BigQuery(r) = (<<"reconcile", "stage">> \o check) \o merge
      BY <2>1, <2>4 DEF BqIncremental
    <3>2. check \in Seq(Bracketed) /\ merge \in Seq(Bracketed)
          /\ <<"reconcile", "stage">> \in Seq(Bracketed)
      <4>1. <<>> \in Seq(Bracketed) /\ <<"check_watch">> \in Seq(Bracketed)
            /\ merge \in Seq(Bracketed) /\ <<"reconcile", "stage">> \in Seq(Bracketed)
        BY DEF Bracketed, Statements
      <4> QED
        BY <4>1 DEF When
    <3> HIDE DEF check, merge
    <3>3. (<<"reconcile", "stage">> \o check) \o merge = <<"reconcile", "stage">> \o (check \o merge)
      BY <3>2, Regrouped
    <3> QED
      BY <1>2, <2>4, <3>1, <3>3 DEF BqIncrements, BqPlace, check, merge
  <2> QED
    BY <2>2, <2>3, <2>4
<1>3. CASE r.kind = "sql_incremental"
  <2>1. BigQuery(r) = BqSqlIncremental(r)
    BY <1>3 DEF BigQuery
  <2> QED
    BY <1>3, <2>1 DEF BqSqlIncremental, BqIncrementsSql, BqPlace
<1>4. CASE r.kind = "children"
  <2>1. BigQuery(r) = BqChildren(r)
    BY <1>4 DEF BigQuery
  <2>2. CASE r.keys # {} /\ ~r.clean
    BY <1>4, <2>1, <2>2 DEF BqChildren, BqReplacesChildren, BqPlace
  <2>3. CASE ~(r.keys # {} /\ ~r.clean) /\ ~Exists(db.target) /\ r.cols = {}
    <3>1. r.keys = {} /\ r.clean
      BY <1>0, <1>4, <2>3 DEF WellFormed
    <3>2. BigQuery(r) \in {<<>>, <<"upsert_state">>}
      BY <2>1, <2>3 DEF BqChildren, When
    <3> QED
      BY <1>4, <2>3, <3>1, <3>2 DEF BqReplacesChildren, BqPlace
  <2>4. CASE ~(r.keys # {} /\ ~r.clean) /\ ~(~Exists(db.target) /\ r.cols = {})
    <3> DEFINE make == When(~Exists(db.target), <<"create_missing">>)
               rows == When(r.keys # {}, <<"reconcile", "stage">>)
               script == When(r.parents # {} \/ r.keys # {} \/ r.records # {},
                              <<"script_children">>)
               drop == When(r.keys # {}, <<"drop_staging">>)
    <3>0. r.clean
      BY <1>0, <1>4, <2>4 DEF WellFormed
    <3>1. BigQuery(r) = ((make \o rows) \o script) \o drop
      BY <2>1, <2>4 DEF BqChildren
    <3>2. /\ make \in Seq(Bracketed) /\ rows \in Seq(Bracketed)
          /\ script \in Seq(Bracketed) /\ drop \in Seq(Bracketed)
      <4>1. /\ <<>> \in Seq(Bracketed) /\ <<"create_missing">> \in Seq(Bracketed)
            /\ <<"reconcile", "stage">> \in Seq(Bracketed)
            /\ <<"script_children">> \in Seq(Bracketed) /\ <<"drop_staging">> \in Seq(Bracketed)
        BY DEF Bracketed, Statements
      <4> QED
        BY <4>1 DEF When
    <3>3. make = (IF ~Exists(db.target) THEN <<"create_missing">> ELSE <<>>)
          /\ ScriptLeft(r) = script \o drop
      BY DEF When, ScriptLeft
    <3> HIDE DEF make, rows, script, drop
    <3>4. BigQuery(r) = make \o (rows \o (script \o drop)) /\ rows \o (script \o drop) \in Seq(Bracketed)
      <4>1. /\ make \o rows \in Seq(Bracketed) /\ script \o drop \in Seq(Bracketed)
            /\ rows \o (script \o drop) \in Seq(Bracketed)
        BY <3>2, ConcatProperties
      <4>2. ((make \o rows) \o script) \o drop = make \o (rows \o (script \o drop))
        <5>1. \A a, b, c, e \in Seq(Bracketed) : ((a \o b) \o c) \o e = a \o (b \o (c \o e))
          BY FourPieces
        <5>2. \A c, e \in Seq(Bracketed) :
                 ((make \o rows) \o c) \o e = make \o (rows \o (c \o e))
          BY <3>2, <5>1
        <5> QED
          BY <3>2, <5>2
      <4> QED
        BY <3>1, <4>1, <4>2
    <3>5. Exists(db.target) => BigQuery(r) = rows \o (script \o drop)
      BY <3>3, <3>4, NothingBefore
    <3>6. CASE Exists(db.target)
      BY <1>4, <3>0, <3>3, <3>5, <3>6 DEF BqReplacesChildren, BqPlace, rows
    <3>7. CASE ~Exists(db.target)
      BY <1>4, <2>4, <3>0, <3>3, <3>4, <3>7 DEF BqReplacesChildren, BqPlace, rows
    <3> QED
      BY <3>6, <3>7
  <2> QED
    BY <2>2, <2>3, <2>4
<1>5. CASE r.kind = "delete"
  <2>1. BigQuery(r) = BqDelete(r)
    BY <1>5 DEF BigQuery
  <2>2. BqDelete(r) \in {<<"script_delete">>, <<>>}
    BY DEF BqDelete, When
  <2> QED
    BY <1>5, <2>1, <2>2 DEF BqDeletes, BqPlace
<1>6. CASE r.kind = "scope"
  <2> DEFINE fence == When(r.fence # 0, <<"verify_fence">>)
             rows == <<"merge_scope", "drop_staging">>
  <2>1. BigQuery(r) = (<<"stage_records">> \o fence) \o rows
    BY <1>6 DEF BigQuery, BqScope, Replacing
  <2>2. fence \in Seq(Bracketed) /\ rows \in Seq(Bracketed)
        /\ <<"stage_records">> \in Seq(Bracketed)
    <3>1. rows \in Seq(Bracketed) /\ <<"stage_records">> \in Seq(Bracketed)
      BY DEF Bracketed, Statements
    <3> QED
      BY <3>1, BracketedPieces DEF When
  <2> HIDE DEF fence, rows
  <2>3. BigQuery(r) = <<"stage_records">> \o (fence \o rows)
    BY <2>1, <2>2, Regrouped
  <2> QED
    BY <1>6, <2>3 DEF BqReplacesScope, BqPlace, fence, rows
<1> QED
  BY <1>0, <1>1, <1>2, <1>3, <1>4, <1>5, <1>6 DEF Shape, Replacing, Merging

------------------------------------------------------------------------------
(* Calls that fail.                                                        *)

LEMMA CleanupStatements ==
  ASSUME NEW r \in Shape
  PROVE  /\ Cleanup(r) \in {<<>>, <<"drop_staging">>, <<"drop_staging", "drop_replacement">>}
         /\ engine # "duckdb" /\ r.kind = "full" /\ dropped => Cleanup(r) = <<>>
         /\ engine # "duckdb" /\ r.kind = "chunks" /\ dropped => Cleanup(r) = <<"drop_staging">>
<1>1. <<"drop_staging">> \o <<>> = <<"drop_staging">>
  BY BracketedPieces, ConcatEmptySeq DEF Bracketed, Statements
<1>2. <<"drop_staging">> \o <<"drop_replacement">> = <<"drop_staging", "drop_replacement">>
  <2> DEFINE both == <<"drop_staging", "drop_replacement">>
  <2>1. <<"drop_staging">> \in Seq(Statements) /\ <<"drop_replacement">> \in Seq(Statements)
        /\ both \in Seq(Statements)
    BY DEF Statements
  <2>2. <<"drop_staging">> \o <<"drop_replacement">> \in Seq(Statements)
    BY <2>1, ConcatProperties
  <2>3. Len(<<"drop_staging">> \o <<"drop_replacement">>) = 2 /\ Len(both) = 2
    OBVIOUS
  <2>4. \A i \in 1 .. 2 : (<<"drop_staging">> \o <<"drop_replacement">>)[i] = both[i]
    <3> TAKE i \in 1 .. 2
    <3>1. CASE i = 1
      BY <3>1
    <3>2. CASE i = 2
      BY <3>2
    <3> QED
      BY <3>1, <3>2
  <2> QED
    BY <2>1, <2>2, <2>3, <2>4, SeqEqual
<1>3. CASE engine = "duckdb"
  BY <1>3 DEF Cleanup, DuckCleanup, When
<1>4. CASE engine # "duckdb" /\ r.kind = "full"
  BY <1>4 DEF Cleanup, BqCleanup, When
<1>5. CASE engine # "duckdb" /\ r.kind = "chunks"
  <2>1. Cleanup(r) = <<"drop_staging">> \o When(~dropped, <<"drop_replacement">>)
    BY <1>5 DEF Cleanup, BqCleanup
  <2>2. When(~dropped, <<"drop_replacement">>) = IF dropped THEN <<>> ELSE <<"drop_replacement">>
    BY DEF When
  <2> QED
    BY <1>1, <1>2, <1>5, <2>1, <2>2
<1>6. CASE engine # "duckdb" /\ r.kind \notin {"full", "chunks"}
  BY <1>6 DEF Cleanup, BqCleanup
<1> QED
  BY <1>3, <1>4, <1>5, <1>6

\* Whatever was executed, the cleanup spares what the target was dropped for.
LEMMA FailsCleanly ==
  ASSUME TypeOK, call # Idle, NEW q, NEW v, NEW x,
         Place(engine, call, last.table, q, v, x, dropped)
  PROVE  Cleaning(call, last.table, Cleanup(call), v)
<1> DEFINE r == call t0 == last.table c == Cleanup(call)
<1>0. r \in Shape /\ engine \in {"duckdb", "bigquery"}
  BY Here
<1>1. c \in {<<>>, <<"drop_staging">>, <<"drop_staging", "drop_replacement">>}
  BY <1>0, CleanupStatements
<1> SUFFICES ASSUME r.kind \in Replacing, r.layout # "iceberg"
             PROVE  \/ SameRows(v.target, Whole(r)) \/ SameRows(v.target, t0)
                    \/ r.kind = "full" /\ r.cols # {} /\ c = <<>> /\ v.staging = Whole(r)
                    \/ /\ r.kind = "chunks" /\ r.cols # {} /\ c \in {<<>>, <<"drop_staging">>}
                       /\ v.replacement = Whole(r)
                    \/ r.cols = {} /\ v.staging = Absent
  <2> HIDE DEF c
  <2> QED
    BY <1>1 DEF Cleaning, Cleanups, c
<1>2. r.kind \notin Merging /\ r.kind \notin {"delete", "scope"}
  BY DEF Replacing, Merging
<1>3. CASE engine = "duckdb"
  <2>1. DuckReplaces(r, t0, q, v, x) \/ DuckReplacesChunks(r, t0, q, v, x) \/ Empties(r, q, v, x)
    BY <1>2, <1>3 DEF Place, DuckPlace, DuckMerges, DuckIncrements, DuckIncrementsSql,
       DuckReplacesChildren, DuckDeletes, DuckReplacesScope, Merging
  <2>2. \/ v.target = t0 \/ SameRows(v.target, Whole(r)) \/ v.target = Whole(r)
        \/ r.cols = {} /\ v.staging = Absent
    BY <2>1 DEF DuckReplaces, DuckReplacesChunks, Empties
  <2> QED
    BY <2>2 DEF SameRows
<1>4. CASE engine = "bigquery"
  <2>1. Empties(r, q, v, NoTx) \/ BqReplaces(r, t0, q, v, dropped)
    BY <1>2, <1>4 DEF Place, BqPlace, BqIncrements, BqIncrementsSql, BqReplacesChildren,
       BqDeletes, BqReplacesScope, Merging
  <2>2. CASE Empties(r, q, v, NoTx)
    BY <2>2 DEF Empties
  <2>3. CASE BqReplaces(r, t0, q, v, dropped)
    <3>1. /\ r.cols # {}
          /\ \/ v.target = t0 \/ SameRows(v.target, Whole(r))
             \/ /\ dropped
                /\ \/ r.kind = "full" /\ v.staging = Whole(r)
                   \/ r.kind = "chunks" /\ v.replacement = Whole(r)
      BY <2>3 DEF BqReplaces, BqStages
    <3>2. dropped => /\ r.kind = "full" => c = <<>>
                     /\ r.kind = "chunks" => c = <<"drop_staging">>
      BY <1>0, <1>4, CleanupStatements
    <3> HIDE DEF c
    <3> QED
      BY <3>1, <3>2 DEF SameRows
  <2> QED
    BY <2>1, <2>2, <2>3
<1> QED
  BY <1>0, <1>3, <1>4

LEMMA CleaningGoesOn ==
  ASSUME NEW r, NEW t0, NEW q, NEW v \in Databases, Cleaning(r, t0, q, v), q # <<>>
  PROVE  /\ Head(q) \in {"drop_staging", "drop_replacement"}
         /\ Cleaning(r, t0, Tail(q), v)
         /\ \A u : Head(q) = "drop_staging" /\ u \in Staging(v, Absent) => Cleaning(r, t0, Tail(q), u)
         /\ \A u : Head(q) = "drop_replacement" /\ u \in {[v EXCEPT !.replacement = Absent]}
               => Cleaning(r, t0, Tail(q), u)
<1> DEFINE Saved(w, s) ==
      r.kind \in Replacing /\ r.layout # "iceberg" =>
          \/ SameRows(w.target, Whole(r)) \/ SameRows(w.target, t0)
          \/ r.kind = "full" /\ r.cols # {} /\ s = <<>> /\ w.staging = Whole(r)
          \/ /\ r.kind = "chunks" /\ r.cols # {} /\ s \in {<<>>, <<"drop_staging">>}
             /\ w.replacement = Whole(r)
          \/ r.cols = {} /\ w.staging = Absent
<1>0. Saved(v, q) /\ q \in {<<"drop_staging">>, <<"drop_staging", "drop_replacement">>,
                            <<"drop_replacement">>}
  BY DEF Cleaning, Cleanups
<1>1. \/ Head(q) = "drop_staging" /\ Tail(q) \in {<<>>, <<"drop_replacement">>}
         /\ (q = <<"drop_staging">> <=> Tail(q) = <<>>)
      \/ Head(q) = "drop_replacement" /\ Tail(q) = <<>> /\ q # <<"drop_staging">>
  <2>1. CASE q = <<"drop_staging">>
    BY <2>1
  <2>2. CASE q = <<"drop_staging", "drop_replacement">>
    BY <2>2
  <2>3. CASE q = <<"drop_replacement">>
    BY <2>3
  <2> QED
    BY <1>0, <2>1, <2>2, <2>3
<1>2. \A w : Cleaning(r, t0, Tail(q), w) <=> Saved(w, Tail(q))
  BY <1>1 DEF Cleaning, Cleanups
<1>3. \A u \in Staging(v, Absent) :
         u.target = v.target /\ u.replacement = v.replacement /\ u.staging = Absent
  BY Fields
<1>4. \A u \in {[v EXCEPT !.replacement = Absent]} : u.target = v.target /\ u.staging = v.staging
  BY DEF Databases
<1>5. Saved(v, Tail(q))
  BY <1>0, <1>1
<1>6. \A u \in Staging(v, Absent) : Head(q) = "drop_staging" => Saved(u, Tail(q))
  BY <1>0, <1>1, <1>3
<1>7. \A u \in {[v EXCEPT !.replacement = Absent]} :
         Head(q) = "drop_replacement" => Saved(u, Tail(q))
  BY <1>0, <1>1, <1>4
<1> HIDE DEF Saved
<1> QED
  BY <1>1, <1>2, <1>5, <1>6, <1>7

LEMMA CleanupGoesOn ==
  ASSUME NEW q \in Cleanups, q # <<>>
  PROVE  Head(q) \in {"drop_staging", "drop_replacement"} /\ Tail(q) \in Cleanups
<1>1. CASE q = <<"drop_staging">>
  BY <1>1 DEF Cleanups
<1>2. CASE q = <<"drop_staging", "drop_replacement">>
  <2>1. Head(q) = "drop_staging" /\ Tail(q) = <<"drop_replacement">>
    BY <1>2
  <2> QED
    BY <2>1 DEF Cleanups
<1>3. CASE q = <<"drop_replacement">>
  BY <1>3 DEF Cleanups
<1> QED
  BY <1>1, <1>2, <1>3 DEF Cleanups

LEMMA CleaningSurvives ==
  ASSUME TypeOK, call # Idle, NEW q, Cleaning(call, last.table, q, db)
  PROVE  ReplacementSurvives /\ (Leave => ReplacementSurvives')
<1> DEFINE r == call
<1>0. /\ WellFormed(r) /\ last.request = r /\ db \in Databases
      /\ r.cols = {} => Whole(r) = Absent
      /\ r.cols # {} => Exists(Whole(r))
  BY Here, WholeForm
<1> SUFFICES ASSUME r.kind \in Replacing, r.layout # "iceberg"
             PROVE  ReplacementSurvives /\ (Leave => ReplacementSurvives')
  BY <1>0 DEF ReplacementSurvives, Leave
<1>1. \/ SameRows(db.target, Whole(r)) \/ SameRows(db.target, last.table)
      \/ r.cols # {} /\ db.staging = Whole(r)
      \/ r.cols # {} /\ db.replacement = Whole(r)
      \/ Whole(r) = Absent /\ db.staging = Absent
  BY <1>0 DEF Cleaning, Cleanups
<1>2. \A t : SameRows(t, t)
  BY DEF SameRows
<1>3. ReplacementSurvives
  BY <1>0, <1>1, <1>2 DEF ReplacementSurvives
<1>4. ASSUME Leave PROVE ReplacementSurvives'
  <2>1. /\ last' = last /\ db'.target = db.target /\ db'.staging = Absent
        /\ left' = {t \in {db.staging, db.replacement} : Exists(t)}
    BY <1>0, <1>4 DEF Leave, Databases, Replacing
  <2>2. /\ r.cols # {} /\ db.staging = Whole(r) => db.staging \in left'
        /\ r.cols # {} /\ db.replacement = Whole(r) => db.replacement \in left'
    BY <1>0, <2>1
  <2>3. \E t \in {db'.target, db'.staging, db'.replacement} \cup left' :
           \/ SameRows(t, Whole(r))
           \/ t = db'.target /\ SameRows(t, last.table)
    BY <1>1, <1>2, <2>1, <2>2
  <2> QED
    BY <1>0, <2>1, <2>3 DEF ReplacementSurvives
<1> QED
  BY <1>3, <1>4

------------------------------------------------------------------------------
(* The invariant.                                                          *)

LEMMA WhereInit == Init => Where
<1> SUFFICES ASSUME Init PROVE Where
  OBVIOUS
<1>1. Sane(db.target) /\ db.staging = Absent /\ db.replacement = Absent
  BY DEF Init, Empty, Sane, Absent
<1>2. ReplacementSurvives
  BY DEF Init, ReplacementSurvives, Idle, Replacing
<1> QED
  BY <1>1, <1>2 DEF Init, Where

LEMMA WhereRuns ==
  ASSUME TypeOK, Where, call # Idle, ~failing, todo # <<>>
  PROVE  Runs
<1>1. Place(engine, call, last.table, todo, db, tx, dropped) /\ Sane(db.target)
  BY DEF Where
<1>2. engine \in {"duckdb", "bigquery"}
  BY Here
<1> QED
  BY <1>1, <1>2, DuckRuns, BqRuns

\* A statement of a cleanup.
LEMMA CleanupExecutes ==
  ASSUME TypeOK, Where, failing, Execute
  PROVE  /\ db'.target = db.target /\ db'.state = db.state /\ tx' = NoTx
         /\ Tail(todo) \in Cleanups
         /\ ~lost => Cleaning(call, last.table, Tail(todo), db')
<1>1. /\ call # Idle /\ todo # <<>> /\ tx = NoTx /\ db \in Databases
      /\ todo \in Cleanups
      /\ ~lost => Cleaning(call, last.table, todo, db)
  BY Here DEF Execute, Where
<1>2. View = db /\ db' \in Result(Head(todo), db) /\ tx' = NoTx
  BY <1>1 DEF Execute, View
<1>3. Head(todo) \in {"drop_staging", "drop_replacement"} /\ Tail(todo) \in Cleanups
  BY <1>1, CleanupGoesOn
<1>4. CASE Head(todo) = "drop_staging"
  <2>0. Result("drop_staging", db) = Staging(db, Absent)
    BY Results
  <2>1. db' \in Staging(db, Absent)
    BY <1>2, <1>4, <2>0
  <2>2. db'.target = db.target /\ db'.state = db.state
    BY <1>1, <2>1, Fields
  <2> QED
    <3>1. ASSUME ~lost PROVE Cleaning(call, last.table, Tail(todo), db')
      <4>1. Cleaning(call, last.table, todo, db)
        BY <1>1, <3>1
      <4>2. \A u : Head(todo) = "drop_staging" /\ u \in Staging(db, Absent)
                  => Cleaning(call, last.table, Tail(todo), u)
        BY <1>1, <4>1, CleaningGoesOn
      <4> QED
        BY <1>4, <2>1, <4>2
    <3> QED
      BY <1>2, <1>3, <2>2, <3>1
<1>5. CASE Head(todo) = "drop_replacement"
  <2>0. Result("drop_replacement", db) = {[db EXCEPT !.replacement = Absent]}
    BY Results
  <2>1. db' \in {[db EXCEPT !.replacement = Absent]}
    BY <1>2, <1>5, <2>0
  <2>2. db'.target = db.target /\ db'.state = db.state
    BY <1>1, <2>1 DEF Databases
  <2> QED
    <3>1. ASSUME ~lost PROVE Cleaning(call, last.table, Tail(todo), db')
      <4>1. Cleaning(call, last.table, todo, db)
        BY <1>1, <3>1
      <4>2. \A u : Head(todo) = "drop_replacement" /\ u \in {[db EXCEPT !.replacement = Absent]}
                  => Cleaning(call, last.table, Tail(todo), u)
        BY <1>1, <4>1, CleaningGoesOn
      <4> QED
        BY <1>5, <2>1, <4>2
    <3> QED
      BY <1>2, <1>3, <2>2, <3>1
<1> QED
  BY <1>3, <1>4, <1>5

\* What a statement does to what a consumer sees, and where the call is then.
LEMMA ExecuteMoves ==
  ASSUME TypeOK, Where, Execute
  PROVE  /\ Moves(call, db, db')
         /\ IF failing THEN /\ tx' = NoTx /\ todo' \in Cleanups
                            /\ ~lost => Cleaning(call, last.table, todo', db')
            ELSE Place(engine, call, last.table, todo', db', tx', dropped')
<1>1. CASE failing
  BY <1>1, CleanupExecutes DEF Execute, Moves
<1>2. CASE ~failing
  <2>1. Runs
    BY <1>2, WhereRuns DEF Execute
  <2>2. PICK w \in Result(Head(todo), View) :
           IF tx = NoTx THEN db' = w /\ UNCHANGED tx ELSE tx' = w /\ UNCHANGED db
    BY DEF Execute
  <2>3. Executed(w)
    BY <2>1, <2>2 DEF Runs
  <2>4. todo' = Tail(todo) /\ dropped' = (dropped \/ DropsForSwap(Head(todo)))
    BY DEF Execute
  <2>5. CASE tx = NoTx
    BY <1>2, <2>2, <2>3, <2>4, <2>5 DEF Executed
  <2>6. CASE tx # NoTx
    <3>1. engine = "duckdb"
      BY <2>6 DEF TypeOK
    <3>2. dropped' = dropped
      BY <2>4, <3>1 DEF DropsForSwap, TypeOK
    <3> QED
      BY <1>2, <2>2, <2>3, <2>4, <2>6, <3>2 DEF Executed, Moves
  <2> QED
    BY <2>5, <2>6
<1> QED
  BY <1>1, <1>2

LEMMA LoseAnswerMoves ==
  ASSUME TypeOK, Where, LoseAnswer
  PROVE  /\ Moves(call, db, db') /\ tx' = NoTx /\ todo' \in Cleanups
         /\ ~lost' => Cleaning(call, last.table, todo', db')
<1>1. /\ call # Idle /\ todo # <<>> /\ ~failing /\ engine = "bigquery" /\ tx = NoTx
      /\ View = db /\ db' \in Result(Head(todo), db) /\ lost' = DropsForSwap(Head(todo))
      /\ todo' = Cleanup(call) /\ tx' = NoTx
  BY BqHere DEF LoseAnswer
<1>2. Executed(db')
  BY <1>1, WhereRuns DEF Runs
<1>3. Moves(call, db, db') /\ Cleanup(call) \in Cleanups
  BY <1>1, <1>2, Here, CleanupStatements DEF Executed, Cleanups
<1>4. ASSUME ~lost' PROVE Cleaning(call, last.table, Cleanup(call), db')
  <2>1. dropped \/ DropsForSwap(Head(todo)) <=> dropped
    BY <1>1, <1>4
  <2>2. (dropped \/ DropsForSwap(Head(todo))) = dropped
    BY <2>1 DEF TypeOK, DropsForSwap
  <2>3. Place(engine, call, last.table, Tail(todo), db', NoTx, dropped)
    BY <1>1, <1>2, <2>2 DEF Executed
  <2> QED
    BY <1>1, <2>3, FailsCleanly
<1> QED
  BY <1>1, <1>3, <1>4

LEMMA CommitMoves ==
  ASSUME TypeOK, Where, Commit
  PROVE  /\ Moves(call, db, db') /\ ~failing
         /\ Place(engine, call, last.table, todo', db', tx', dropped')
<1>1. /\ call # Idle /\ todo # <<>> /\ Head(todo) = "commit" /\ tx # NoTx
      /\ db' = tx /\ tx' = NoTx /\ todo' = Tail(todo) /\ dropped' = dropped
  BY DEF Commit
<1>2. ~failing
  BY <1>1 DEF Where
<1>3. Committed
  BY <1>1, <1>2, WhereRuns DEF Runs
<1> QED
  BY <1>1, <1>2, <1>3 DEF Committed

\* Once a call is under way or done, its replacement survives it.
LEMMA LeaveKeeps ==
  ASSUME TypeOK, Where, call # Idle
  PROVE  ReplacementSurvives /\ (Leave => ReplacementSurvives')
<1>0. CASE lost
  BY <1>0 DEF Leave, ReplacementSurvives
<1>1. CASE failing /\ ~lost
  BY <1>1, CleaningSurvives DEF Where
<1>2. CASE ~failing
  <2>1. Cleaning(call, last.table, Cleanup(call), db)
    BY <1>2, FailsCleanly DEF Where
  <2> QED
    BY <2>1, CleaningSurvives
<1> QED
  BY <1>0, <1>1, <1>2

LEMMA WhereSurvives == TypeOK /\ Where => ReplacementSurvives
  BY LeaveKeeps DEF Where

LEMMA WhereStep == TypeOK /\ TypeOK' /\ Where /\ [Next]_vars => Where'
<1> SUFFICES ASSUME TypeOK, TypeOK', Where, [Next]_vars PROVE Where'
  OBVIOUS
<1>0. db' \in Databases /\ db \in Databases /\ (call # Idle => WellFormed(call))
  BY Here DEF TypeOK
<1>1. CASE Invoke
  <2>1. PICK r \in Asked[engine] :
           /\ Callable(r) /\ call' = r /\ todo' = Program(r)
           /\ last' = [request |-> r, table |-> db.target]
    BY <1>1 DEF Invoke
  <2>2. /\ call = Idle /\ dropped' = FALSE /\ failing' = FALSE
        /\ engine' = engine /\ db' = db /\ tx' = tx
    BY <1>1 DEF Invoke
  <2>3. tx = NoTx /\ Sane(db.target) /\ db.staging = Absent /\ engine \in {"duckdb", "bigquery"}
    BY <2>2 DEF Where, TypeOK
  <2>4. r.kind = "sql_incremental" => Exists(db.target)
    BY <2>1 DEF Callable
  <2>5. Place(engine, r, db.target, Program(r), db, NoTx, FALSE)
    <3>1. CASE engine = "duckdb"
      BY <2>3, <2>4, <3>1, DuckStarts DEF Place, Program
    <3>2. CASE engine = "bigquery"
      BY <2>3, <2>4, <3>2, BqStarts DEF Place, Program
    <3> QED
      BY <2>3, <3>1, <3>2
  <2>6. r # Idle
    BY <2>3, AdapterAssumption DEF WellFormed, Shape, Idle, Replacing, Merging
  <2> QED
    BY <2>1, <2>2, <2>3, <2>5, <2>6 DEF Where
<1>2. CASE Execute
  <2>1. Moves(call, db, db') /\ call # Idle /\ call' = call /\ last' = last
        /\ failing' = failing /\ lost' = lost /\ engine' = engine
    BY <1>2, ExecuteMoves DEF Execute
  <2>2. Sane(db'.target)
    BY <1>0, <2>1, MovesSane DEF Where
  <2> QED
    BY <1>2, <2>1, <2>2, ExecuteMoves DEF Where
<1>3. CASE Begin
  <2>1. /\ call # Idle /\ todo # <<>> /\ Head(todo) = "begin" /\ tx = NoTx
        /\ tx' = db /\ todo' = Tail(todo) /\ engine' = engine /\ db' = db /\ call' = call
        /\ dropped' = dropped /\ failing' = failing /\ last' = last
    BY <1>3 DEF Begin
  <2>2. ~failing
    <3>1. ASSUME failing PROVE FALSE
      BY <2>1, <3>1, CleanupGoesOn DEF Where
    <3> QED
      BY <3>1
  <2>3. Started
    BY <2>1, <2>2, WhereRuns DEF Runs
  <2> QED
    BY <2>1, <2>2, <2>3 DEF Where, Started
<1>4. CASE Commit
  <2>1. /\ Moves(call, db, db') /\ ~failing /\ call # Idle /\ call' = call /\ last' = last
        /\ failing' = failing /\ engine' = engine
        /\ Place(engine, call, last.table, todo', db', tx', dropped')
    BY <1>4, CommitMoves DEF Commit
  <2>2. Sane(db'.target)
    BY <1>0, <2>1, MovesSane DEF Where
  <2> QED
    BY <2>1, <2>2 DEF Where
<1>5. CASE Fail
  <2>1. /\ call # Idle /\ ~failing /\ tx' = NoTx /\ failing' = TRUE /\ todo' = Cleanup(call)
        /\ db' = db /\ call' = call /\ last' = last
    BY <1>5 DEF Fail
  <2>2. Cleaning(call, last.table, Cleanup(call), db) /\ Cleanup(call) \in Cleanups
    BY <2>1, FailsCleanly DEF Where, Cleaning
  <2> QED
    BY <2>1, <2>2 DEF Where
<1>6. CASE LoseAnswer
  <2>1. /\ Moves(call, db, db') /\ tx' = NoTx /\ todo' \in Cleanups
        /\ ~lost' => Cleaning(call, last.table, todo', db')
        /\ call # Idle /\ failing' = TRUE /\ call' = call /\ last' = last
    BY <1>6, LoseAnswerMoves DEF LoseAnswer
  <2>2. Sane(db'.target)
    BY <1>0, <2>1, MovesSane DEF Where
  <2> QED
    BY <2>1, <2>2 DEF Where
<1>7. CASE FailCleanup
  <2>1. /\ failing /\ todo # <<>> /\ todo' = Tail(todo) /\ db' = db /\ tx' = tx
        /\ call' = call /\ last' = last /\ failing' = failing /\ lost' = lost
    BY <1>7 DEF FailCleanup
  <2>2. call # Idle
    BY <2>1 DEF Where
  <2>3. Tail(todo) \in Cleanups /\ (~lost => Cleaning(call, last.table, Tail(todo), db))
    BY <1>0, <2>1, <2>2, CleanupGoesOn, CleaningGoesOn DEF Where
  <2> QED
    BY <2>1, <2>2, <2>3 DEF Where
<1>8. CASE Return \/ Crash
  <2>1. Leave /\ call # Idle
    BY <1>8 DEF Return, Crash
  <2>2. ReplacementSurvives'
    BY <2>1, LeaveKeeps
  <2>3. /\ db'.target = db.target /\ db'.staging = Absent /\ db'.replacement = Absent
        /\ call' = Idle /\ todo' = <<>> /\ tx' = NoTx /\ failing' = FALSE
    BY <1>0, <2>1 DEF Leave, Databases
  <2> QED
    BY <2>2, <2>3 DEF Where
<1>9. CASE UNCHANGED <<engine, db, tx, call, todo, dropped, failing, lost, last, left>>
  BY <1>9 DEF Where, ReplacementSurvives
<1> QED
  BY <1>1, <1>2, <1>3, <1>4, <1>5, <1>6, <1>7, <1>8, <1>9
  DEF Next, vars, writer, Reassign, OpenSnapshot, StartQuery, RecheckGeneration, ReadBatch,
      ValidateUnchanged

(* A replacement never costs the last good table, whichever statement of   *)
(* which adapter fails, loses its answer or is the last before a crash:    *)
(* the old table, or the whole new one, is there or under a staging name   *)
(* that no cleanup drops, unless it is the answer to the very drop of the  *)
(* old table that is lost (adapters/bigquery.py:2213-2236, 2529-2558).     *)
THEOREM ReplacementsSurvive == Spec => []ReplacementSurvives
<1>1. Spec => []Where
  BY WhereInit, WhereStep, WarehouseTypeCorrect, PTL DEF Spec
<1> QED
  BY <1>1, WhereSurvives, WarehouseTypeCorrect, PTL

------------------------------------------------------------------------------
(* The contract.                                                           *)

LEMMA MovesPromised ==
  ASSUME call # Idle, call' = call, Moves(call, db, db')
  PROVE  [Promised!ContractNext]_(Promised!contractVars)
<1>0. call # Promised!Idle
  BY ContractTables
<1>1. CASE db'.target = db.target /\ db'.state = db.state
  BY <1>1 DEF Promised!contractVars
<1>2. CASE Makes(call, db, db'.target, db'.state)
  BY <1>0, <1>2 DEF Makes, Promised!ContractNext, Promised!Apply
<1>3. CASE db'.state = db.state /\ Widens(call, db.target, db'.target)
  BY <1>0, <1>3, ContractTables DEF Widens, Promised!ContractNext, Promised!Widen
<1>4. CASE db'.state = db.state /\ Creates(call, db.target, db'.target)
  BY <1>0, <1>4, ContractTables, ContractPlans DEF Creates, Promised!ContractNext, Promised!Create
<1>5. CASE db'.state = db.state /\ Remakes(call, db.target, db'.target)
  <2>1. ~Promised!InPlace(call, db.target)
    BY <1>5, ContractTables DEF Remakes, InPlace, Promised!InPlace
  <2> QED
    BY <1>0, <1>5, <2>1, ContractTables, ContractPlans
    DEF Remakes, Promised!ContractNext, Promised!Remake
<1> QED
  BY <1>1, <1>2, <1>3, <1>4, <1>5 DEF Moves

LEMMA ContractStep ==
  TypeOK /\ Where /\ [Next]_vars => [Promised!ContractNext]_(Promised!contractVars)
<1> SUFFICES ASSUME TypeOK, Where, [Next]_vars
             PROVE  [Promised!ContractNext]_(Promised!contractVars)
  OBVIOUS
<1>1. CASE Invoke
  <2>1. /\ call = Promised!Idle /\ db'.target = db.target /\ db'.state = db.state
        /\ call' \in Asked["duckdb"] \cup Asked["bigquery"]
    BY <1>1, ContractTables DEF Invoke, TypeOK
  <2> QED
    BY <2>1 DEF Promised!ContractNext, Promised!Invoke
<1>2. CASE Execute
  <2>1. Moves(call, db, db') /\ call # Idle /\ call' = call
    BY <1>2, ExecuteMoves DEF Execute
  <2> QED
    BY <2>1, MovesPromised
<1>3. CASE Commit
  <2>1. Moves(call, db, db') /\ call # Idle /\ call' = call
    BY <1>3, CommitMoves DEF Commit
  <2> QED
    BY <2>1, MovesPromised
<1>4. CASE LoseAnswer
  <2>1. Moves(call, db, db') /\ call # Idle /\ call' = call
    BY <1>4, LoseAnswerMoves DEF LoseAnswer
  <2> QED
    BY <2>1, MovesPromised
<1>5. CASE Return \/ Crash
  <2>1. db'.target = db.target /\ db'.state = db.state /\ call # Idle /\ call' = Idle
    BY <1>5 DEF Return, Crash, Leave, TypeOK, Databases
  <2> QED
    BY <2>1, ContractTables DEF Promised!ContractNext, Promised!Return
<1>6. CASE db' = db /\ call' = call
  BY <1>6 DEF Promised!contractVars
<1> QED
  BY <1>1, <1>2, <1>3, <1>4, <1>5, <1>6
  DEF Next, vars, writer, Begin, Fail, FailCleanup, Reassign, OpenSnapshot, StartQuery,
      RecheckGeneration, ReadBatch, ValidateUnchanged

(* Both adapters implement the contract of adapters/base.py: what a        *)
(* consumer of the table and of the state sees is one whole effect of the  *)
(* request, or one of the departures the code announces, and nothing else  *)
(* (adapters/base.py:1055-1155, adapters/bigquery.py:2175-2236).           *)
THEOREM AdaptersKeepContract == Spec => ImplementsContract
<1>1. Init => Promised!ContractInit
  BY ContractTables DEF Init, Empty, Promised!ContractInit
<1>2. Spec => []Where
  BY WhereInit, WhereStep, WarehouseTypeCorrect, PTL DEF Spec
<1> QED
  BY <1>1, <1>2, ContractStep, WarehouseTypeCorrect, PTL
  DEF Spec, ImplementsContract, Promised!Contract
==============================================================================
