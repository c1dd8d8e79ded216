-------------------------- MODULE WarehouseLifecycle --------------------------
(***************************************************************************)
(* Opening a warehouse that an older stel left behind.  Connecting guards  *)
(* against the names of before the rename and brings a v1 state table to   *)
(* v2; `stel migrate` renames the tables in place.  Both are sequences of  *)
(* statements that a crash or an error cuts, and DuckDB puts in one        *)
(* transaction what BigQuery does statement by statement.  The operator    *)
(* reacts to what a command printed.                                       *)
(***************************************************************************)
EXTENDS Integers

CONSTANTS MaxFailures   \* bound: statements that fail and processes that die

ASSUME LifecycleAssumption == MaxFailures \in Nat

\* MIGRATED_TABLE_NAMES (the ledger and its leases fare alike) and, last, the
\* tables under MIGRATED_TABLE_PREFIXES.
Object == {"state", "ledger", "failures"}
Named == {"state", "ledger"}
Schemas == {"stel", "dbt_ml"}   \* DEFAULT_SCHEMA_NAME, LEGACY_SCHEMA_NAME
Spellings == {"old", "new"}

VARIABLES
    engine,    \* "duckdb" or "bigquery"
    corpus,    \* the warehouse held incremental state when the story began
    pinned,    \* the operator wrote `schema: dbt_ml` into the profile
    tables,    \* what each schema holds under each spelling of each object
    staging,   \* the copy the state migration makes: "absent", or its rows
    command,   \* "run", "migrate" or "dry_run": what the process is doing
    step,      \* the statement it is at
    plan,      \* the objects still to rename
    printed,   \* what the last command ended with
    failures,  \* counted against MaxFailures
    opened     \* history: a run got past the guards

lifecycleVars == <<engine, corpus, pinned, tables, staging, command, step, plan,
                   printed, failures, opened>>

Contents == {"absent", "empty", "v1", "v2"}
Nothing == [s \in Spellings |-> [o \in Object |-> "absent"]]
Old(state, ledger, failed) ==
    [Nothing EXCEPT !["old"]["state"] = state, !["old"]["ledger"] = ledger,
                    !["old"]["failures"] = failed]

\* A new project, one that never set a schema before the rename, and one whose
\* profile names its schema.
LifecycleInit ==
    /\ engine \in {"duckdb", "bigquery"} /\ corpus \in BOOLEAN /\ pinned \in BOOLEAN
    /\ \/ ~corpus /\ tables = [s \in Schemas |-> Nothing]
       \/ /\ corpus
          /\ \E state \in {"v1", "v2"}, ledger, failed \in {"absent", "v2"} :
                tables = [s \in Schemas |-> IF s = "stel" THEN Nothing
                                            ELSE Old(state, ledger, failed)]
    /\ staging = "absent" /\ command = "run" /\ step = "idle" /\ plan = {}
    /\ printed = "nothing" /\ failures = 0 /\ opened = FALSE

Schema == IF pinned THEN "dbt_ml" ELSE "stel"
Here == tables[Schema]
Put(spelling, o, what) == tables' = [tables EXCEPT ![Schema][spelling][o] = what]

\* INTERNAL_TABLE_NAMES knows both spellings of the named tables.
HoldsInternal(there) == \E s \in Spellings, o \in Named : there[s][o] # "absent"

\* Ends the process; what it leaves to the operator is the message.
Stop(message) ==
    /\ step' = "idle" /\ printed' = message /\ plan' = {}
    /\ UNCHANGED <<engine, corpus, pinned, failures, opened>>
To(at) ==
    step' = at /\ UNCHANGED <<engine, corpus, pinned, command, printed, failures, opened>>

------------------------------------------------------------------------------
(* __enter__: guards, schema, state table.  `stel migrate` skips them.     *)

Begin(c) ==
    /\ step = "idle"
    /\ command' = c /\ step' = IF c = "run" THEN "guard" ELSE "plan"
    /\ UNCHANGED <<engine, corpus, pinned, tables, staging, plan, printed, failures, opened>>

\* _guard_legacy_schema: only a profile that names no schema, and only while the
\* default schema holds nothing of stel.
LegacySchema == ~pinned /\ ~HoldsInternal(tables["stel"]) /\ HoldsInternal(tables["dbt_ml"])

\* _guard_legacy_tables.
Stranded(there) == {o \in Named : there["old"][o] # "absent" /\ there["new"][o] = "absent"}

\* Mutant: an old spelling beside a missing new one is not looked for.
GuardSchemaOnly ==
    /\ step = "guard" /\ UNCHANGED <<tables, staging, command>>
    /\ \/ LegacySchema /\ Stop("legacy_schema")
       \/ ~LegacySchema /\ To("state") /\ UNCHANGED plan

\* _guard_legacy_names.
Guard ==
    /\ step = "guard" /\ UNCHANGED <<tables, staging, command>>
    /\ \/ LegacySchema /\ Stop("legacy_schema")
       \/ ~LegacySchema /\ Stranded(Here) # {} /\ Stop("legacy_tables")
       \/ ~LegacySchema /\ Stranded(Here) = {} /\ To("state") /\ UNCHANGED plan

\* _ensure_state_table: create it, accept v2, or migrate v1.
EnsureStateTable ==
    /\ step = "state" /\ UNCHANGED <<staging, plan>>
    /\ CASE Here["new"].state = "absent" -> Put("new", "state", "empty") /\ To("open")
         [] Here["new"].state = "v1" -> UNCHANGED tables /\ To("copy")
         [] OTHER -> UNCHANGED tables /\ To("open")

\* DuckDB: copy, count, drop and rename in one transaction.
MigrateStateAtOnce ==
    /\ step = "copy" /\ engine = "duckdb"
    /\ Put("new", "state", "v2") /\ To("open") /\ UNCHANGED <<staging, plan>>

\* BigQuery: CREATE TABLE ... AS SELECT into a staging table of its own,
CopyState ==
    /\ step = "copy" /\ engine = "bigquery"
    /\ staging' = "v2" /\ To("count") /\ UNCHANGED <<tables, plan>>

\* the row counts compared (they differ when somebody wrote in between),
CountState ==
    /\ step = "count" /\ UNCHANGED <<tables, plan>>
    /\ \/ staging # "absent" /\ To("replace") /\ UNCHANGED staging
       \/ /\ failures < MaxFailures /\ failures' = failures + 1
          /\ staging' = "absent" /\ step' = "idle" /\ printed' = "failed"
          /\ UNCHANGED <<engine, corpus, pinned, command, opened>>

\* CREATE OR REPLACE TABLE ... COPY,
ReplaceState ==
    /\ step = "replace" /\ Put("new", "state", staging)
    /\ To("cleanup") /\ UNCHANGED <<staging, plan>>

\* and the staging table deleted.
DropStateCopy ==
    /\ step = "cleanup" /\ staging' = "absent" /\ To("open") /\ UNCHANGED <<tables, plan>>

\* The run has its adapter; it ends some time later.
Opened ==
    /\ step = "open" /\ opened' = TRUE /\ step' = "working"
    /\ UNCHANGED <<engine, corpus, pinned, tables, staging, command, plan, printed, failures>>
RunEnds == step = "working" /\ Stop("nothing") /\ UNCHANGED <<tables, staging, command>>

------------------------------------------------------------------------------
(* `stel migrate`: plan_name_migration and apply_name_migration.           *)

Both(o) == Here["old"][o] # "absent" /\ Here["new"][o] # "absent"
\* The named tables in the order of MIGRATED_TABLE_NAMES, then the prefixed ones.
Renames == {o \in Object : Here["old"][o] # "absent"}
NextRename ==
    IF "state" \in plan THEN "state" ELSE IF "ledger" \in plan THEN "ledger" ELSE "failures"

PlanNameMigration ==
    /\ step = "plan" /\ UNCHANGED <<tables, staging, command>>
    /\ \/ /\ \E o \in Object : Both(o)
          /\ Stop("conflict")
       \/ /\ ~\E o \in Object : Both(o)
          /\ IF Renames = {} \/ command = "dry_run"
             THEN Stop("planned")
             ELSE plan' = Renames /\ To("rename")

\* rename_table: DuckDB's ALTER TABLE ... RENAME lands or does not.
RenameAtOnce ==
    /\ step = "rename" /\ plan # {} /\ engine = "duckdb"
    /\ tables' = [tables EXCEPT ![Schema]["new"][NextRename] = Here["old"][NextRename],
                                ![Schema]["old"][NextRename] = "absent"]
    /\ plan' = plan \ {NextRename} /\ To("rename") /\ UNCHANGED staging

\* BigQuery: CREATE TABLE new COPY old,
CopyUnderNewName ==
    /\ step = "rename" /\ plan # {} /\ engine = "bigquery"
    /\ IF Here["new"][NextRename] = "absent" /\ Here["old"][NextRename] # "absent"
       THEN /\ Put("new", NextRename, Here["old"][NextRename])
            /\ To("drop") /\ UNCHANGED <<staging, plan>>
       ELSE UNCHANGED <<tables, staging, command>> /\ Stop("failed")

\* and the old table deleted.
DropOldName ==
    /\ step = "drop" /\ Put("old", NextRename, "absent")
    /\ plan' = plan \ {NextRename} /\ To("rename") /\ UNCHANGED staging

MigrationEnds ==
    /\ step = "rename" /\ plan = {}
    /\ Stop("migrated") /\ UNCHANGED <<tables, staging, command>>

------------------------------------------------------------------------------
(* Errors, crashes and the operator.                                       *)

Statements == {"state", "copy", "replace", "cleanup", "rename", "drop"}

\* A statement fails and changed nothing.  The state migration deletes its copy.
StatementFails ==
    /\ step \in Statements /\ failures < MaxFailures /\ failures' = failures + 1
    /\ \/ step = "replace" /\ staging' = "absent"
       \/ UNCHANGED staging
    /\ step' = "idle" /\ printed' = "failed" /\ plan' = {}
    /\ UNCHANGED <<engine, corpus, pinned, tables, command, opened>>

\* The process dies: a transaction rolls back, a statement that ended stays.
Crash ==
    /\ step # "idle" /\ failures < MaxFailures /\ failures' = failures + 1
    /\ step' = "idle" /\ plan' = {} /\ printed' = "nothing"
    /\ UNCHANGED <<engine, corpus, pinned, tables, staging, command, opened>>

\* What the messages tell the operator to do.
PinSchema ==
    /\ step = "idle" /\ printed = "legacy_schema" /\ ~pinned /\ pinned' = TRUE
    /\ UNCHANGED <<engine, corpus, tables, staging, command, step, plan, printed,
                   failures, opened>>

\* MigrationConflictError: inspect both, drop the one you do not want.
ResolveConflict ==
    /\ step = "idle" /\ printed = "conflict"
    /\ \E o \in Object : Both(o) /\ Put("old", o, "absent")
    /\ UNCHANGED <<engine, corpus, pinned, staging, command, step, plan, printed,
                   failures, opened>>

Proceed ==
    \/ Guard \/ EnsureStateTable \/ MigrateStateAtOnce \/ CopyState \/ CountState
    \/ ReplaceState \/ DropStateCopy \/ Opened \/ RunEnds
    \/ PlanNameMigration \/ RenameAtOnce \/ CopyUnderNewName \/ DropOldName \/ MigrationEnds

LifecycleNext ==
    \/ \E c \in {"run", "migrate", "dry_run"} : Begin(c)
    \/ Proceed \/ StatementFails \/ Crash \/ PinSchema \/ ResolveConflict

\* A process that runs gets on, and an operator who needs the project tries the
\* commands again and does what they say.
LifecycleFairness ==
    /\ WF_lifecycleVars(Proceed)
    /\ SF_lifecycleVars(Begin("run")) /\ SF_lifecycleVars(Begin("migrate"))
    /\ SF_lifecycleVars(PinSchema) /\ SF_lifecycleVars(ResolveConflict)

LifecycleSpec == LifecycleInit /\ [][LifecycleNext]_lifecycleVars /\ LifecycleFairness

------------------------------------------------------------------------------
(* Properties.                                                             *)

StateRows == {"v1", "v2"}

\* The guards' promise (base.py:962-1029, migration.py:1-15): a run that gets its
\* adapter sees the incremental state the warehouse ever held, never an empty
\* table beside it; and whatever is cut where, the rows stay in some table.
StateSurvives ==
    corpus =>
       /\ opened /\ step = "working" => Here["new"].state = "v2"
       /\ \E s \in Schemas, w \in Spellings : tables[s][w].state \in StateRows

\* The way out is never lost: the operator who does what the messages say gets a
\* run on the old state, after any failure of a migration (base.py:1021-1029,
\* migration.py:69-78, 88-106).
OpensEventually == <>opened
==============================================================================
