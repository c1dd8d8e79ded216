-------------------------- MODULE WarehouseAdapters --------------------------
(***************************************************************************)
(* The DuckDB and BigQuery adapters.  An adapter method is the sequence of *)
(* statements it sends, chosen when it is called (there is one writer per  *)
(* target); each statement is a step, and any of them may fail.  DuckDB    *)
(* groups statements in transactions of its one connection; BigQuery has   *)
(* none across statements, so it stages rows beside the target and ends in *)
(* one MERGE, script or CREATE OR REPLACE that is atomic by itself.        *)
(*                                                                         *)
(* A call that fails runs its cleanup; a process that dies does not.       *)
(***************************************************************************)
EXTENDS WarehouseTables, Sequences, SequencesExt

CONSTANTS
    Asked,          \* Asked[e]: the requests made of engine e
    MaxCalls,       \* bound: calls in a behaviour
    MaxClaim        \* bound: publication claims on the serving ledger

ASSUME AdapterAssumption ==
    /\ \A e \in {"duckdb", "bigquery"} : \A r \in Asked[e] : WellFormed(r)
    /\ MaxCalls \in Nat /\ MaxClaim \in Nat

VARIABLES
    engine,     \* which adapter the profile names
    db,         \* what is committed: target, staging, replacement, state
    tx,         \* the open transaction's own view, NoTx outside of one
    call,       \* the request being served
    todo,       \* the statements it has left
    dropped,    \* target_dropped
    failing,    \* the call is cleaning up after an error
    lost,       \* history: the last call dropped its target and was not told
    ledger,     \* the claim that owns the scope in the serving ledger
    read,       \* the claim a fenced statement has read, 0 before
    last,       \* the last request and the table it found
    left,       \* tables the last call left behind under staging names
    calls,      \* calls made so far
    reader      \* a consumer reading the target in a snapshot

writer == <<db, tx, call, todo, dropped, failing, lost, read, last, left, calls>>
vars == <<engine, writer, ledger, reader>>

Idle == [kind |-> "idle"]
NoTx == [kind |-> "none"]
View == IF tx = NoTx THEN db ELSE tx

------------------------------------------------------------------------------
(* DuckDB.                                                                 *)

When(test, statements) == IF test THEN statements ELSE <<>>

(* A table cannot be made without a column.                                *)
DuckFull(r) == IF r.cols = {} THEN <<"reject">> ELSE <<"create_or_replace">>

DuckChunks(r) ==
    IF r.keys = {} THEN <<"drop_target">>
    ELSE <<"stage">> \o When(r.more # {}, <<"stage_next">>)
         \o <<"begin", "drop_target", "rename_staging", "commit">>

Watchable(r) ==
    /\ r.watch \subseteq r.cols
    /\ Exists(db.target) => r.watch \subseteq db.target.cols

MergeRows == <<"create_missing", "reconcile", "delete_matching", "insert">>

DuckIncremental(r) ==
    IF r.keys = {} THEN <<>>
    ELSE IF ~r.clean \/ ~Watchable(r) THEN <<"reject">>
    ELSE <<"begin">> \o MergeRows \o <<"commit">>

(* The new columns are added before the transaction that merges begins.    *)
DuckSqlIncremental(r) ==
    <<"stage", "check_keys", "reconcile", "begin", "delete_matching", "insert",
      "commit", "count", "drop_staging">>

DuckChildren(r) ==
    IF r.keys # {} /\ ~r.clean THEN <<"reject">>
    ELSE <<"begin">>
         \o When(Exists(db.target) /\ r.parents # {}, <<"delete_parents">>)
         \o When(r.keys # {}, MergeRows)
         \o When(r.records # {}, <<"upsert_state">>) \o <<"commit">>

\* Mutant: rows and state are deleted outside of a transaction.
DuckDeleteSplit(r) == <<"delete_keys", "delete_state">>

DuckDelete(r) ==
    <<"begin">>
    \o When(Exists(db.target) /\ r.keys # {}, <<"delete_keys">>)
    \o When(r.records # {}, <<"delete_state">>) \o <<"commit">>

DuckScope(r) ==
    <<"begin">> \o When(r.fence # 0, <<"verify_fence">>)
    \o <<"clear_state", "insert_state", "commit">>

DuckDB(r) ==
    CASE r.kind \in {"full", "sql_full"} -> DuckFull(r)
      [] r.kind = "chunks" -> DuckChunks(r)
      [] r.kind = "incremental" -> DuckIncremental(r)
      [] r.kind = "sql_incremental" -> DuckSqlIncremental(r)
      [] r.kind = "children" -> DuckChildren(r)
      [] r.kind = "delete" -> DuckDelete(r)
      [] r.kind = "scope" -> DuckScope(r)

DuckCleanup(r) ==
    When(r.kind \in {"chunks", "sql_incremental"}, <<"drop_staging">>)

------------------------------------------------------------------------------
(* BigQuery.                                                               *)

SpecMatches(r) ==
    \/ ~Exists(db.target)
    \/ (r.layout = "part") <=> (db.target.form = "part")

IcebergFull(r) == <<"drop_target", "create_target", "append_target">>

BqFull(r) ==
    CASE r.cols = {} -> <<"drop_target">>
      [] r.cols # {} /\ r.layout = "iceberg" -> IcebergFull(r)
      [] r.cols # {} /\ r.layout = "none" -> <<"load_truncate">>
      [] OTHER -> <<"stage">> \o
            IF SpecMatches(r) THEN <<"swap", "drop_staging">>
            ELSE <<"post_options", "drop_target", "rename_staging">>

BqChunks(r) ==
    IF r.keys = {} THEN <<"drop_target">>
    ELSE <<"stage">> \o When(r.more # {}, <<"stage_next">>) \o
         CASE r.layout = "iceberg" ->
                <<"drop_target", "create_target", "append_staged", "drop_staging">>
           [] r.layout = "none" \/ (r.layout # "iceberg" /\ SpecMatches(r)) ->
                <<"swap", "drop_staging">>
           [] OTHER -> <<"build", "drop_target", "rename_replacement",
                         "drop_staging">>

BqSqlFull(r) ==
    IF r.layout = "iceberg"
    THEN <<"stage", "drop_target", "create_target", "append_staged",
           "drop_staging", "count">>
    ELSE <<"create_or_replace", "count">>

FormatAgrees(r) == (r.layout = "iceberg") <=> (db.target.form = "iceberg")

(* The plan is made before the rows are staged, and the columns it adds    *)
(* are added by a load or a statement of its own.                          *)
BqIncremental(r) ==
    IF r.keys = {} THEN <<>>
    ELSE IF ~r.clean THEN <<"reject">>
    ELSE IF ~Exists(db.target)
    THEN IF r.layout = "iceberg" THEN <<"create_target", "append_target">>
         ELSE <<"load_append">> \o When(r.layout # "none", <<"post_options">>)
    ELSE IF ~FormatAgrees(r) THEN <<"reject">>
    ELSE <<"reconcile", "stage">>
         \o When(r.watch # {}, <<"check_watch">>) \o <<"merge", "drop_staging">>

BqSqlIncremental(r) ==
    IF ~FormatAgrees(r) THEN <<"reject">>
    ELSE <<"stage", "check_keys", "reconcile", "merge_sql", "drop_staging">>

BqChildren(r) ==
    IF r.keys # {} /\ ~r.clean THEN <<"reject">>
    ELSE IF ~Exists(db.target) /\ r.cols = {}
    THEN When(r.records # {}, <<"upsert_state">>)
    ELSE When(~Exists(db.target), <<"create_missing">>)
         \o When(r.keys # {}, <<"reconcile", "stage">>)
         \o When(r.parents # {} \/ r.keys # {} \/ r.records # {},
                 <<"script_children">>)
         \o When(r.keys # {}, <<"drop_staging">>)

BqDelete(r) ==
    When((Exists(db.target) /\ r.keys # {}) \/ r.records # {}, <<"script_delete">>)

BqScope(r) ==
    <<"stage_records">> \o When(r.fence # 0, <<"verify_fence">>)
    \o <<"merge_scope", "drop_staging">>

BigQuery(r) ==
    CASE r.kind = "full" -> BqFull(r)
      [] r.kind = "chunks" -> BqChunks(r)
      [] r.kind = "sql_full" -> BqSqlFull(r)
      [] r.kind = "incremental" -> BqIncremental(r)
      [] r.kind = "sql_incremental" -> BqSqlIncremental(r)
      [] r.kind = "children" -> BqChildren(r)
      [] r.kind = "delete" -> BqDelete(r)
      [] r.kind = "scope" -> BqScope(r)

\* Mutant: the cleanup forgets that the target was dropped.
BqCleanupAll(r) == <<"drop_staging", "drop_replacement">>

(* What the target was dropped for is kept under its staging name.         *)
BqCleanup(r) ==
    CASE r.kind = "full" -> When(~dropped, <<"drop_staging">>)
      [] r.kind = "chunks" ->
            <<"drop_staging">> \o When(~dropped, <<"drop_replacement">>)
      [] OTHER -> <<"drop_staging">>

Program(r) == IF engine = "duckdb" THEN DuckDB(r) ELSE BigQuery(r)
Cleanup(r) == IF engine = "duckdb" THEN DuckCleanup(r) ELSE BqCleanup(r)

------------------------------------------------------------------------------
(* Statements: what each makes of the tables and the state it sees; none   *)
(* of its results when the engine refuses it.                              *)

Load(t) == PlanSchemaChange(t.cols, call.cols, call.policy).load
Target(v, t) == {[v EXCEPT !.target = t]}
Staging(v, t) == {[v EXCEPT !.staging = t]}
Records(v, s) == {[v EXCEPT !.state = s]}

(* CREATE OR REPLACE keeps the partitioning the table has, and neither it  *)
(* nor a truncating load works on an Iceberg table.                        *)
Replaceable(t) ==
    Exists(t) => /\ t.form # "iceberg"
                 /\ (FormOf(call) = "part") <=> (t.form = "part")

Replace(v, new) ==
    IF Replaceable(v.target) THEN Target(v, [new EXCEPT !.form = FormOf(call)])
    ELSE {}

LoadTruncate(v) ==
    IF v.target.form = "iceberg" THEN {}
    ELSE Target(v, [Chunk1(call) EXCEPT !.form = v.target.form])

CreateMissing(v) ==
    IF Exists(v.target) THEN {v}
    ELSE Target(v, Table(call.cols, {}, Null, FormOf(call)))

Reconcile(v) ==
    LET plan == PlanSchemaChange(v.target.cols, call.cols, call.policy)
    IN  IF plan.ok THEN Target(v, Padded(v.target, plan.add)) ELSE {}

DeleteMatching(v) == Target(v, Without(v.target, Changed(v.target, call)))

Insert(v) ==
    Target(v, [v.target EXCEPT !.rows =
        Over([k \in call.keys \ DOMAIN @ |-> Row(Load(v.target), call.value)], @)])

Merge(v) == Target(v, Upserted(v.target, call, Load(v.target)))
MergeSql(v) == Target(v, Updated(v.target, call, Load(v.target)))

DeleteParents(v) ==
    Target(v, Without(v.target, OfDocs(v.target, call.parents)))
UpsertState(v) == Records(v, Recorded(v.state, call.records, call.value))
DeleteKeys(v) == Target(v, Without(v.target, call.keys))
DeleteState(v) == Records(v, Forgotten(v.state, call.records))

ScriptChildren(v) ==
    LET rest == Without(v.target, OfDocs(v.target, call.parents))
        children == IF call.keys = {} THEN rest
                    ELSE Upserted(rest, call, Load(rest))
    IN  {[v EXCEPT !.target = children,
                   !.state = Recorded(@, call.records, call.value)]}

ScriptDelete(v) ==
    {[v EXCEPT !.target = IF Exists(@) THEN Without(@, call.keys) ELSE @,
               !.state = Forgotten(@, call.records)]}

(* A record key that comes in two batches is refused by the engine.        *)
ReplaceState(v) ==
    IF call.clean THEN Records(v, Recorded(NoState, call.records, call.value))
    ELSE {}

InsertState(v) ==
    IF call.clean THEN Records(v, Recorded(v.state, call.records, call.value))
    ELSE {}

\* Mutant: the claim a replacement shows is not compared.
VerifyFenceNever(v) == {v}

VerifyFence(v) == IF ledger = call.fence THEN {v} ELSE {}

CheckWatch(v) ==
    IF call.watch \subseteq Load(v.target) \cap last.table.cols THEN {v} ELSE {}

Result(statement, v) ==
    CASE statement = "create_or_replace" -> Replace(v, Chunk1(call))
      [] statement = "load_truncate" -> LoadTruncate(v)
      [] statement = "load_append" -> Target(v, Chunk1(call))
      [] statement = "stage" -> Staging(v, Chunk1(call))
      [] statement = "stage_next" -> Staging(v, Chunked(call))
      [] statement = "swap" -> Replace(v, v.staging)
      [] statement = "drop_target" -> Target(v, Absent)
      [] statement = "rename_staging" ->
            {[v EXCEPT !.target = v.staging, !.staging = Absent]}
      [] statement = "build" -> {[v EXCEPT !.replacement = v.staging]}
      [] statement = "rename_replacement" ->
            {[v EXCEPT !.target = v.replacement, !.replacement = Absent]}
      [] statement = "create_target" ->
            Target(v, Table(call.cols \cup call.moreCols, {}, Null, "iceberg"))
      [] statement = "append_target" ->
            Target(v, [v.target EXCEPT !.rows = Chunk1(call).rows])
      [] statement = "append_staged" ->
            Target(v, [v.target EXCEPT !.rows = v.staging.rows])
      [] statement = "create_missing" -> CreateMissing(v)
      [] statement = "reconcile" -> Reconcile(v)
      [] statement = "check_keys" -> IF call.clean THEN {v} ELSE {}
      [] statement = "check_watch" -> CheckWatch(v)
      [] statement = "delete_matching" -> DeleteMatching(v)
      [] statement = "insert" -> Insert(v)
      [] statement = "merge" -> Merge(v)
      [] statement = "merge_sql" -> MergeSql(v)
      [] statement = "delete_parents" -> DeleteParents(v)
      [] statement = "upsert_state" -> UpsertState(v)
      [] statement = "script_children" -> ScriptChildren(v)
      [] statement = "delete_keys" -> DeleteKeys(v)
      [] statement = "delete_state" -> DeleteState(v)
      [] statement = "script_delete" -> ScriptDelete(v)
      [] statement = "verify_fence" -> VerifyFence(v)
      [] statement = "clear_state" -> Records(v, NoState)
      [] statement = "insert_state" -> InsertState(v)
      [] statement = "merge_scope" -> ReplaceState(v)
      [] statement = "drop_staging" -> Staging(v, Absent)
      [] statement = "drop_replacement" -> {[v EXCEPT !.replacement = Absent]}
      [] statement \in {"stage_records", "post_options", "count"} -> {v}
      [] OTHER -> {}

Untouching ==
    {"stage", "stage_next", "build", "check_keys", "check_watch",
     "upsert_state", "delete_state", "verify_fence", "clear_state",
     "insert_state", "merge_scope", "drop_staging", "drop_replacement",
     "stage_records", "count"}

------------------------------------------------------------------------------
(* The writer.                                                             *)

Empty == [target |-> Absent, staging |-> Absent, replacement |-> Absent,
          state |-> NoState]
NoReader == [phase |-> "idle", table |-> Absent, seen |-> {}, touched |-> FALSE]

Init ==
    /\ engine \in {"duckdb", "bigquery"}
    /\ db = Empty /\ tx = NoTx /\ call = Idle /\ todo = <<>>
    /\ dropped = FALSE /\ failing = FALSE /\ lost = FALSE
    /\ ledger = 1 /\ read = 0 /\ calls = 0
    /\ last = [request |-> Idle, table |-> Absent] /\ left = {}
    /\ reader = NoReader

Callable(r) ==
    /\ r.kind = "sql_incremental" => Exists(db.target)
    /\ r.fence <= ledger

Invoke ==
    /\ call = Idle /\ calls < MaxCalls
    /\ \E r \in Asked[engine] :
          /\ Callable(r)
          /\ call' = r /\ todo' = Program(r)
          /\ last' = [request |-> r, table |-> db.target]
    /\ dropped' = FALSE /\ failing' = FALSE /\ lost' = FALSE /\ read' = 0
    /\ left' = {} /\ calls' = calls + 1
    /\ UNCHANGED <<engine, db, tx, ledger, reader>>

(* Only these paths remember that they dropped the target.                 *)
DropsForSwap(statement) ==
    /\ engine = "bigquery" /\ statement = "drop_target"
    /\ call.kind \in {"full", "chunks"} /\ call.layout # "iceberg"

Touch(statement) ==
    reader' = IF statement \in Untouching \/ reader.phase = "idle" THEN reader
              ELSE [reader EXCEPT !.touched = TRUE]

Execute ==
    /\ call # Idle /\ todo # <<>>
    /\ LET statement == Head(todo)
       IN  /\ \E v \in Result(statement, View) :
                 IF tx = NoTx THEN db' = v /\ UNCHANGED tx
                 ELSE tx' = v /\ UNCHANGED db
           /\ dropped' = (dropped \/ DropsForSwap(statement))
           /\ read' = IF statement = "verify_fence" THEN ledger ELSE read
           /\ Touch(statement)
    /\ todo' = Tail(todo)
    /\ UNCHANGED <<engine, call, failing, lost, ledger, last, left, calls>>

(* Transactions do not nest, and COMMIT ends one.                          *)
Begin ==
    /\ call # Idle /\ todo # <<>> /\ Head(todo) = "begin" /\ tx = NoTx
    /\ tx' = db /\ todo' = Tail(todo)
    /\ UNCHANGED <<engine, db, call, dropped, failing, lost, ledger, read, last,
                   left, calls, reader>>

(* verify_fence rewrites the ledger row, so a claim taken since conflicts. *)
Commit ==
    /\ call # Idle /\ todo # <<>> /\ Head(todo) = "commit" /\ tx # NoTx
    /\ read # 0 => read = ledger
    /\ db' = tx /\ tx' = NoTx /\ todo' = Tail(todo)
    /\ UNCHANGED <<engine, call, dropped, failing, lost, ledger, read, last,
                   left, calls, reader>>

Fail ==
    /\ call # Idle /\ todo # <<>> /\ ~failing
    /\ tx' = NoTx /\ failing' = TRUE /\ todo' = Cleanup(call)
    /\ UNCHANGED <<engine, db, call, dropped, lost, ledger, read, last, left,
                   calls, reader>>

(* The job ran and its answer did not arrive: whatever it did, the call    *)
(* does not know, that its target is dropped no more than anything else.   *)
LoseAnswer ==
    /\ call # Idle /\ todo # <<>> /\ ~failing /\ engine = "bigquery"
    /\ db' \in Result(Head(todo), db)
    /\ failing' = TRUE /\ todo' = Cleanup(call)
    /\ lost' = DropsForSwap(Head(todo))
    /\ Touch(Head(todo))
    /\ UNCHANGED <<engine, tx, call, dropped, ledger, read, last, left, calls>>

FailCleanup ==
    /\ failing /\ todo # <<>>
    /\ todo' = Tail(todo)
    /\ UNCHANGED <<engine, db, tx, call, dropped, failing, lost, ledger, read,
                   last, left, calls, reader>>

(* Staging names are never used again: what is left under them is debris.  *)
Leave ==
    /\ left' = IF engine = "duckdb" /\ call.kind = "sql_incremental" THEN {}
               ELSE {t \in {db.staging, db.replacement} : Exists(t)}
    /\ db' = [db EXCEPT !.staging = Absent, !.replacement = Absent]
    /\ call' = Idle /\ todo' = <<>> /\ tx' = NoTx
    /\ dropped' = FALSE /\ failing' = FALSE /\ read' = 0
    /\ UNCHANGED <<engine, lost, ledger, last, calls, reader>>

Return == call # Idle /\ todo = <<>> /\ Leave

Crash == call # Idle /\ todo # <<>> /\ Leave

Reassign ==
    /\ ledger < MaxClaim /\ ledger' = ledger + 1
    /\ UNCHANGED <<engine, writer, reader>>

------------------------------------------------------------------------------
(* A consumer of table_snapshot.  DuckDB holds a read transaction on a     *)
(* cursor of its own; BigQuery compares the table's generation before the  *)
(* query, after it started and when the stream is exhausted.               *)

OpenSnapshot ==
    /\ reader.phase = "idle" /\ Exists(db.target)
    /\ reader' = IF engine = "duckdb"
                 THEN [NoReader EXCEPT !.phase = "reading", !.table = db.target]
                 ELSE [NoReader EXCEPT !.phase = "generation"]
    /\ UNCHANGED <<engine, writer, ledger>>

StartQuery ==
    /\ reader.phase = "generation" /\ Exists(db.target)
    /\ reader' = [reader EXCEPT !.phase = "started", !.table = db.target]
    /\ UNCHANGED <<engine, writer, ledger>>

RecheckGeneration ==
    /\ reader.phase = "started"
    /\ reader' = [reader EXCEPT !.phase =
                    IF reader.touched THEN "failed" ELSE "reading"]
    /\ UNCHANGED <<engine, writer, ledger>>

ReadBatch ==
    /\ reader.phase = "reading"
    /\ \E k \in DOMAIN reader.table.rows \ reader.seen :
          reader' = [reader EXCEPT !.seen = @ \cup {k}]
    /\ UNCHANGED <<engine, writer, ledger>>

\* Mutant: the table is not looked at again at the end.
UnchangedAssumed == TRUE

Unchanged ==
    IF engine = "duckdb" THEN db.target = reader.table ELSE ~reader.touched

ValidateUnchanged ==
    /\ reader.phase = "reading" /\ reader.seen = DOMAIN reader.table.rows
    /\ reader' = [reader EXCEPT !.phase = IF Unchanged THEN "done" ELSE "failed"]
    /\ UNCHANGED <<engine, writer, ledger>>

Next ==
    \/ Invoke \/ Execute \/ Begin \/ Commit \/ Fail \/ LoseAnswer \/ FailCleanup
    \/ Return \/ Crash \/ Reassign
    \/ OpenSnapshot \/ StartQuery \/ RecheckGeneration \/ ReadBatch
    \/ ValidateUnchanged

Spec == Init /\ [][Next]_vars

------------------------------------------------------------------------------
(* Properties.                                                             *)

(* Both adapters implement the contract of adapters/base.py: an operation  *)
(* takes effect on the table and on its state in one step, whole or not at *)
(* all, whichever statement fails, loses its answer or is the last one     *)
(* before the process dies; the announced departures are steps of their    *)
(* own (adapters/base.py:1055-1155, adapters/bigquery.py:2175-2236).       *)
Promised == INSTANCE WarehouseContract
    WITH Requests <- Asked["duckdb"] \cup Asked["bigquery"],
         table <- db.target, state <- db.state, call <- call

ImplementsContract == Promised!Contract

(* A replacement never costs the last good table: until the new one is in  *)
(* place whole, either the old one is, or the new one is complete under a  *)
(* staging name that no cleanup removes.  An Iceberg target is the         *)
(* announced exception; the other is a drop of the target that takes       *)
(* effect and loses its answer, after which the cleanup, not knowing of    *)
(* it, drops the replacement too (adapters/bigquery.py:2213-2236,          *)
(* 2529-2558).                                                             *)
SameRows(t, u) == t.cols = u.cols /\ t.rows = u.rows

ReplacementSurvives ==
    LET r == last.request
    IN  r.kind \in Replacing /\ r.layout # "iceberg" /\ ~lost =>
        \E t \in {db.target, db.staging, db.replacement} \cup left :
            \/ SameRows(t, Whole(r))
            \/ t = db.target /\ SameRows(t, last.table)

(* A fenced replacement of a scope commits in DuckDB only while the ledger *)
(* still names the claim it shows, whatever is claimed between its check   *)
(* and its commit (adapters/duckdb.py:1428-1465).                          *)
FencedByClaim ==
    [][engine = "duckdb" /\ call.kind = "scope" /\ db'.state # db.state
       /\ call.fence # 0 => ledger = call.fence]_vars

(* A table read to its end and validated is one version of the table, and  *)
(* the version it still is: writes that run beside the read end it instead *)
(* (adapters/base.py:561-660, adapters/bigquery.py:1277-1503).             *)
ReadsOneVersion ==
    [][reader.phase # "done" /\ reader'.phase = "done" =>
          /\ db'.target.cols = reader.table.cols
          /\ db'.target.rows = [k \in reader'.seen |-> reader.table.rows[k]]]_vars

(* Writers and readers that meet on one table: a write needs its claim,    *)
(* a read needs its version.                                               *)
GuardedByVersion == FencedByClaim /\ ReadsOneVersion
==============================================================================
