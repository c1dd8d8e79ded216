---------------------------- MODULE ServicesProofs ----------------------------
(***************************************************************************)
(* Theorems about the machines that MCServices checks side by side, each   *)
(* for every value of its constants and about its own specification, and   *)
(* about the entity linker that one of them drives.                        *)
(***************************************************************************)
EXTENDS ContextServer, WarehouseLifecycle, MLArtifacts, SearchEvolution, ProviderCalls,
        TransformModels, FiniteSetTheorems, SequenceTheorems, TLAPS

------------------------------------------------------------------------------
(* WarehouseLifecycle: the incremental state survives opening and migrating *)

LifecycleSteps ==
    {"idle", "guard", "state", "copy", "count", "replace", "cleanup", "open", "working",
     "plan", "rename", "drop"}

LifecycleTypeOK ==
    /\ corpus \in BOOLEAN /\ pinned \in BOOLEAN /\ opened \in BOOLEAN
    /\ tables \in [Schemas -> [Spellings -> [Object -> Contents]]]
    /\ staging \in {"absent", "v2"}
    /\ step \in LifecycleSteps
    /\ plan \subseteq Object
    /\ failures \in Nat

\* Past the guard, a run over old state works in the schema of before the rename.
PastGuard == {"state", "copy", "count", "replace", "cleanup", "open", "working"}

\* The old schema holds the state under one spelling or both, and nothing but its rows.
RowsSomewhere ==
    /\ \A w \in Spellings : tables["dbt_ml"][w]["state"] # "empty"
    /\ \E w \in Spellings : tables["dbt_ml"][w]["state"] # "absent"

\* Nobody wrote into the default schema, so the guard keeps pointing at the old one.
DefaultUntouched == \A w \in Spellings, o \in Object : tables["stel"][w][o] = "absent"

\* A run that passed the guard found the state under its new name, and the copy is
\* whole when it replaces it.
OpenedOnRows ==
    step \in PastGuard =>
      /\ pinned
      /\ Here["new"]["state"] # "absent"
      /\ step \in {"count", "replace"} => staging = "v2"
      /\ step \in {"cleanup", "open", "working"} => Here["new"]["state"] = "v2"

\* What is still to be renamed is there, and a copy stands before the old name goes.
RenamesHaveRows ==
    /\ plan # {} => step \in {"rename", "drop"}
    /\ \A o \in plan : Here["old"][o] # "absent"
    /\ step = "drop" => plan # {} /\ Here["new"][NextRename] # "absent"

Survival == corpus => RowsSomewhere /\ DefaultUntouched /\ OpenedOnRows /\ RenamesHaveRows

LEMMA LifecycleTypeInit == LifecycleInit => LifecycleTypeOK
<1> SUFFICES ASSUME LifecycleInit PROVE LifecycleTypeOK
  OBVIOUS
<1>1. Nothing \in [Spellings -> [Object -> Contents]]
  BY DEF Nothing, Contents
<1>2. \A s, l, f \in Contents : Old(s, l, f) \in [Spellings -> [Object -> Contents]]
  BY <1>1 DEF Old, Spellings, Object
<1>3. tables \in [Schemas -> [Spellings -> [Object -> Contents]]]
  <2>1. CASE tables = [s \in Schemas |-> Nothing]
    BY <1>1, <2>1
  <2>2. CASE \E state \in {"v1", "v2"}, ledger, failed \in {"absent", "v2"} :
               tables = [s \in Schemas |-> IF s = "stel" THEN Nothing
                                           ELSE Old(state, ledger, failed)]
    <3>1. PICK state, ledger, failed \in Contents :
             tables = [s \in Schemas |-> IF s = "stel" THEN Nothing ELSE Old(state, ledger, failed)]
      BY <2>2 DEF Contents
    <3>2. Old(state, ledger, failed) \in [Spellings -> [Object -> Contents]]
      BY <1>2
    <3> QED
      BY <1>1, <3>1, <3>2
  <2> QED
    BY <2>1, <2>2 DEF LifecycleInit
<1> QED
  BY <1>3 DEF LifecycleInit, LifecycleTypeOK, LifecycleSteps

LEMMA NextRenamePlanned == ASSUME plan \subseteq Object, plan # {} PROVE NextRename \in plan
  BY DEF NextRename, Object


\* Writing one table of the schema in use.
LEMMA PutTyped ==
  ASSUME LifecycleTypeOK, NEW w \in Spellings, NEW o \in Object, NEW c \in Contents,
         Put(w, o, c)
  PROVE  /\ tables' \in [Schemas -> [Spellings -> [Object -> Contents]]]
         /\ \A s \in Schemas, v \in Spellings, p \in Object :
               tables'[s][v][p] = IF s = Schema /\ v = w /\ p = o THEN c ELSE tables[s][v][p]
<1>1. Schema \in Schemas
  BY DEF Schema, Schemas
<1> QED
  BY <1>1 DEF LifecycleTypeOK, Put

\* Renaming one table of the schema in use in one step.
LEMMA RenameTyped ==
  ASSUME LifecycleTypeOK, plan # {}, RenameAtOnce
  PROVE  /\ tables' \in [Schemas -> [Spellings -> [Object -> Contents]]]
         /\ \A s \in Schemas, v \in Spellings, p \in Object :
               tables'[s][v][p] = IF s = Schema /\ p = NextRename
                                  THEN IF v = "new" THEN tables[s]["old"][p] ELSE "absent"
                                  ELSE tables[s][v][p]
<1>1. Schema \in Schemas
  BY DEF Schema, Schemas
<1>2. NextRename \in Object
  BY NextRenamePlanned DEF LifecycleTypeOK
<1>3. "old" \in Spellings /\ "new" \in Spellings /\ "absent" \in Contents
  BY DEF Spellings, Contents
<1> DEFINE what == tables[Schema]["old"][NextRename]
           mid == [tables EXCEPT ![Schema]["new"][NextRename] = what]
<1>4. what \in Contents
  BY <1>1, <1>2, <1>3 DEF LifecycleTypeOK
<1>5. /\ mid \in [Schemas -> [Spellings -> [Object -> Contents]]]
      /\ \A s \in Schemas, v \in Spellings, p \in Object :
            mid[s][v][p] = IF s = Schema /\ v = "new" /\ p = NextRename
                           THEN what ELSE tables[s][v][p]
  BY <1>1, <1>2, <1>3, <1>4 DEF LifecycleTypeOK
<1>6. tables' = [mid EXCEPT ![Schema]["old"][NextRename] = "absent"]
  BY DEF RenameAtOnce, Here
<1> HIDE DEF mid, what
<1>7. /\ tables' \in [Schemas -> [Spellings -> [Object -> Contents]]]
      /\ \A s \in Schemas, v \in Spellings, p \in Object :
            tables'[s][v][p] = IF s = Schema /\ v = "old" /\ p = NextRename
                               THEN "absent" ELSE mid[s][v][p]
  BY <1>1, <1>2, <1>3, <1>5, <1>6
<1> QED
  BY <1>1, <1>5, <1>7 DEF what, Spellings

LEMMA LifecycleTypeStep == LifecycleTypeOK /\ [LifecycleNext]_lifecycleVars => LifecycleTypeOK'
<1> SUFFICES ASSUME LifecycleTypeOK, [LifecycleNext]_lifecycleVars PROVE LifecycleTypeOK'
  OBVIOUS
<1> USE DEF LifecycleTypeOK, LifecycleSteps
<1>1. ASSUME NEW c \in {"run", "migrate", "dry_run"}, Begin(c) PROVE LifecycleTypeOK'
  BY <1>1 DEF Begin
<1>2. CASE Guard
  BY <1>2 DEF Guard, Stop, To
<1>3. CASE EnsureStateTable
  <2>1. Here["new"].state = "absent" => tables' \in [Schemas -> [Spellings -> [Object -> Contents]]]
    BY <1>3, PutTyped DEF EnsureStateTable, Spellings, Object, Contents
  <2> QED
    BY <1>3, <2>1 DEF EnsureStateTable, To
<1>4. CASE MigrateStateAtOnce
  BY <1>4, PutTyped DEF MigrateStateAtOnce, To, Spellings, Object, Contents
<1>5. CASE CopyState
  BY <1>5 DEF CopyState, To
<1>6. CASE CountState
  BY <1>6 DEF CountState, To
<1>7. CASE ReplaceState
  BY <1>7, PutTyped DEF ReplaceState, To, Spellings, Object, Contents
<1>8. CASE DropStateCopy
  BY <1>8 DEF DropStateCopy, To
<1>9. CASE Opened
  BY <1>9 DEF Opened
<1>10. CASE RunEnds
  BY <1>10 DEF RunEnds, Stop
<1>11. CASE PlanNameMigration
  BY <1>11 DEF PlanNameMigration, Stop, To, Renames
<1>12. CASE RenameAtOnce
  <2>1. tables' \in [Schemas -> [Spellings -> [Object -> Contents]]]
    BY <1>12, RenameTyped DEF RenameAtOnce
  <2> QED
    BY <1>12, <2>1 DEF RenameAtOnce, To
<1>13. CASE CopyUnderNewName
  <2>1. NextRename \in Object
    BY <1>13, NextRenamePlanned DEF CopyUnderNewName
  <2>2. Here["old"][NextRename] \in Contents
    BY <2>1 DEF Here, Schema, Schemas, Spellings
  <2>3. Put("new", NextRename, Here["old"][NextRename]) =>
          tables' \in [Schemas -> [Spellings -> [Object -> Contents]]]
    BY <2>1, <2>2, PutTyped DEF Spellings
  <2> QED
    BY <1>13, <2>3 DEF CopyUnderNewName, To, Stop
<1>14. CASE DropOldName
  <2>1. NextRename \in Object
    BY DEF NextRename, Object
  <2>2. tables' \in [Schemas -> [Spellings -> [Object -> Contents]]]
    BY <1>14, <2>1, PutTyped DEF DropOldName, Spellings, Contents
  <2> QED
    BY <1>14, <2>2 DEF DropOldName, To
<1>15. CASE MigrationEnds
  BY <1>15 DEF MigrationEnds, Stop
<1>16. CASE StatementFails
  BY <1>16 DEF StatementFails
<1>17. CASE Crash
  BY <1>17 DEF Crash
<1>18. CASE PinSchema
  BY <1>18 DEF PinSchema
<1>19. CASE ResolveConflict
  <2>1. tables' \in [Schemas -> [Spellings -> [Object -> Contents]]]
    BY <1>19, PutTyped DEF ResolveConflict, Spellings, Contents
  <2> QED
    BY <1>19, <2>1 DEF ResolveConflict
<1>20. CASE UNCHANGED lifecycleVars
  BY <1>20 DEF lifecycleVars
<1> QED
  BY <1>1, <1>2, <1>3, <1>4, <1>5, <1>6, <1>7, <1>8, <1>9, <1>10, <1>11, <1>12, <1>13, <1>14,
     <1>15, <1>16, <1>17, <1>18, <1>19, <1>20 DEF LifecycleNext, Proceed

LEMMA SurvivalInit == LifecycleInit => Survival
<1> SUFFICES ASSUME LifecycleInit, corpus
             PROVE  RowsSomewhere /\ DefaultUntouched /\ OpenedOnRows /\ RenamesHaveRows
  BY DEF Survival
<1>1. PICK state \in {"v1", "v2"}, ledger \in {"absent", "v2"}, failed \in {"absent", "v2"} :
        tables = [s \in Schemas |-> IF s = "stel" THEN Nothing ELSE Old(state, ledger, failed)]
  BY DEF LifecycleInit
<1>2. tables["stel"] = Nothing /\ tables["dbt_ml"] = Old(state, ledger, failed)
  BY <1>1 DEF Schemas
<1>3. /\ Old(state, ledger, failed)["old"]["state"] = state
      /\ Old(state, ledger, failed)["new"]["state"] = "absent"
  BY DEF Old, Nothing, Spellings, Object
<1>4. RowsSomewhere
  BY <1>2, <1>3 DEF RowsSomewhere, Spellings
<1>5. DefaultUntouched
  BY <1>2 DEF DefaultUntouched, Nothing
<1>6. OpenedOnRows /\ RenamesHaveRows
  BY DEF LifecycleInit, OpenedOnRows, RenamesHaveRows, PastGuard
<1> QED
  BY <1>4, <1>5, <1>6

\* Without a pinned schema the guard stops every run over old state.
LEMMA GuardStops ==
  ASSUME LifecycleTypeOK, RowsSomewhere, DefaultUntouched, ~pinned
  PROVE  LegacySchema
<1>1. ~HoldsInternal(tables["stel"])
  BY DEF DefaultUntouched, HoldsInternal, Named, Object
<1>2. HoldsInternal(tables["dbt_ml"])
  BY DEF RowsSomewhere, HoldsInternal, Named
<1> QED
  BY <1>1, <1>2 DEF LegacySchema

LEMMA SurvivalStep ==
  LifecycleTypeOK /\ Survival /\ [LifecycleNext]_lifecycleVars => Survival'
<1> SUFFICES ASSUME LifecycleTypeOK, Survival, [LifecycleNext]_lifecycleVars, corpus'
             PROVE  (RowsSomewhere /\ DefaultUntouched /\ OpenedOnRows /\ RenamesHaveRows)'
  BY DEF Survival
<1> DEFINE Kept == (RowsSomewhere /\ DefaultUntouched /\ OpenedOnRows /\ RenamesHaveRows)'
<1>0. corpus
  BY DEF LifecycleNext, Begin, Proceed, Guard, EnsureStateTable, MigrateStateAtOnce, CopyState,
     CountState, ReplaceState, DropStateCopy, Opened, RunEnds, PlanNameMigration, RenameAtOnce,
     CopyUnderNewName, DropOldName, MigrationEnds, StatementFails, Crash, PinSchema,
     ResolveConflict, Stop, To, lifecycleVars
<1>00. RowsSomewhere /\ DefaultUntouched /\ OpenedOnRows /\ RenamesHaveRows
  BY <1>0 DEF Survival
<1> USE <1>00
<1>S. /\ "old" \in Spellings /\ "new" \in Spellings /\ Schema \in Schemas
      /\ "state" \in Object /\ "dbt_ml" \in Schemas /\ "stel" \in Schemas
  BY DEF Spellings, Schemas, Object, Schema
\* Steps that leave the tables and the pin alone and go to no later statement.
<1>R. ASSUME UNCHANGED <<tables, pinned>>, plan' = {}, step' \in {"idle", "guard", "plan"}
      PROVE  Kept
  BY <1>R DEF RowsSomewhere, DefaultUntouched, OpenedOnRows, RenamesHaveRows, PastGuard
<1>1. ASSUME NEW c \in {"run", "migrate", "dry_run"}, Begin(c) PROVE Kept
  <2>1. plan = {}
    BY <1>1 DEF Begin, RenamesHaveRows
  <2> QED
    BY <1>1, <2>1, <1>R DEF Begin
<1>2. CASE Guard
  <2>1. CASE Stop("legacy_schema") \/ Stop("legacy_tables")
    BY <1>2, <2>1, <1>R DEF Guard, Stop
  <2>2. CASE ~LegacySchema /\ Stranded(Here) = {} /\ To("state") /\ UNCHANGED plan
    <3>1. pinned
      BY <2>2, GuardStops DEF LifecycleTypeOK
    <3>2. Here["new"]["state"] # "absent"
      BY <2>2, <3>1 DEF Stranded, Named, Here, Schema, RowsSomewhere, Spellings
    <3>3. plan = {}
      BY <1>2 DEF Guard, RenamesHaveRows
    <3> QED
      BY <1>2, <2>2, <3>1, <3>2, <3>3 DEF Guard, To, RowsSomewhere, DefaultUntouched,
         OpenedOnRows, RenamesHaveRows, PastGuard, Here, Schema
  <2> QED
    BY <1>2, <2>1, <2>2 DEF Guard
\* Past the guard a write changes the state's new name only, and to rows.
<1>W. ASSUME pinned, pinned' = pinned, step \in PastGuard, step' \in PastGuard, plan' = plan,
             NEW c \in {"v1", "v2"}, Put("new", "state", c),
             step' \in {"count", "replace"} => staging' = "v2",
             step' \in {"cleanup", "open", "working"} => c = "v2"
      PROVE  Kept
  <2>1. plan = {}
    BY <1>W DEF RenamesHaveRows, PastGuard
  <2>2. \A s \in Schemas, v \in Spellings, p \in Object :
          tables'[s][v][p] = IF s = Schema /\ v = "new" /\ p = "state" THEN c ELSE tables[s][v][p]
    BY <1>W, <1>S, PutTyped DEF Contents
  <2>3. Schema = "dbt_ml" /\ Schema' = "dbt_ml"
    BY <1>W DEF Schema
  <2>4. RowsSomewhere'
    BY <2>2, <2>3, <1>S DEF RowsSomewhere
  <2>5. DefaultUntouched'
    BY <2>2, <2>3, <1>S DEF DefaultUntouched
  <2>6. OpenedOnRows'
    BY <1>W, <2>2, <2>3, <1>S DEF OpenedOnRows, Here
  <2> QED
    BY <1>W, <2>1, <2>4, <2>5, <2>6 DEF RenamesHaveRows, PastGuard
\* Past the guard a step that leaves the tables alone.
<1>L. ASSUME UNCHANGED <<tables, pinned, plan>>, step \in PastGuard, step' \in PastGuard,
             step' \in {"count", "replace"} => staging' = "v2",
             step' \in {"cleanup", "open", "working"} => Here["new"]["state"] = "v2"
      PROVE  Kept
  <2>1. plan = {}
    BY <1>L DEF RenamesHaveRows, PastGuard
  <2> QED
    BY <1>L, <2>1 DEF RowsSomewhere, DefaultUntouched, OpenedOnRows, RenamesHaveRows, PastGuard,
       Here, Schema
<1>3. CASE EnsureStateTable
  <2>1. step \in PastGuard /\ pinned /\ Here["new"]["state"] # "absent"
    BY <1>3 DEF EnsureStateTable, OpenedOnRows, PastGuard
  <2>2. Here["new"]["state"] \in {"v1", "v2"}
    BY <2>1, <1>S DEF RowsSomewhere, LifecycleTypeOK, Contents, Here, Schema
  <2> QED
    BY <1>3, <2>1, <2>2, <1>L DEF EnsureStateTable, To, PastGuard
<1>4. CASE MigrateStateAtOnce
  <2>1. step \in PastGuard /\ pinned
    BY <1>4 DEF MigrateStateAtOnce, OpenedOnRows, PastGuard
  <2> QED
    BY <1>4, <2>1, <1>W DEF MigrateStateAtOnce, To, PastGuard
<1>5. CASE CopyState
  BY <1>5, <1>L DEF CopyState, To, PastGuard
<1>6. CASE CountState
  <2>1. CASE To("replace") /\ UNCHANGED <<staging, tables, plan>>
    BY <1>6, <2>1, <1>L DEF CountState, To, OpenedOnRows, PastGuard
  <2>2. CASE step' = "idle" /\ UNCHANGED <<tables, plan, pinned>>
    BY <1>6, <2>2, <1>R DEF CountState, RenamesHaveRows
  <2> QED
    BY <1>6, <2>1, <2>2 DEF CountState
<1>7. CASE ReplaceState
  <2>1. step \in PastGuard /\ pinned /\ staging = "v2"
    BY <1>7 DEF ReplaceState, OpenedOnRows, PastGuard
  <2> QED
    BY <1>7, <2>1, <1>W DEF ReplaceState, To, PastGuard
<1>8. CASE DropStateCopy
  BY <1>8, <1>L DEF DropStateCopy, To, OpenedOnRows, PastGuard
<1>9. CASE Opened
  BY <1>9, <1>L DEF Opened, OpenedOnRows, PastGuard
<1>10. CASE RunEnds
  BY <1>10, <1>R DEF RunEnds, Stop
<1>11. CASE PlanNameMigration
  <2>1. CASE Stop("conflict") \/ Stop("planned")
    BY <1>11, <2>1, <1>R DEF PlanNameMigration, Stop
  <2>2. CASE plan' = Renames /\ To("rename")
    BY <1>11, <2>2 DEF PlanNameMigration, To, Renames, RowsSomewhere, DefaultUntouched,
       OpenedOnRows, RenamesHaveRows, PastGuard, Here, Schema
  <2> QED
    BY <1>11, <2>1, <2>2 DEF PlanNameMigration
\* While something is to be renamed, the schema in use is the old one.
<1>P. plan # {} => Schema = "dbt_ml" /\ NextRename \in plan /\ NextRename \in Object
  BY NextRenamePlanned, <1>S DEF LifecycleTypeOK, RenamesHaveRows, DefaultUntouched, Here, Schemas
<1>12. CASE RenameAtOnce
  <2>1. plan # {} /\ Schema' = Schema /\ step' = "rename" /\ plan' = plan \ {NextRename}
    BY <1>12 DEF RenameAtOnce, To, Schema
  <2>2. \A s \in Schemas, v \in Spellings, p \in Object :
          tables'[s][v][p] = IF s = Schema /\ p = NextRename
                             THEN IF v = "new" THEN tables[s]["old"][p] ELSE "absent"
                             ELSE tables[s][v][p]
    BY <1>12, <2>1, RenameTyped
  <2>3. RowsSomewhere'
    BY <2>1, <2>2, <1>P, <1>S DEF RowsSomewhere, RenamesHaveRows, Here
  <2>4. DefaultUntouched'
    BY <2>1, <2>2, <1>P, <1>S DEF DefaultUntouched
  <2>5. RenamesHaveRows'
    BY <2>1, <2>2, <1>P, <1>S DEF RenamesHaveRows, Here, LifecycleTypeOK
  <2> QED
    BY <2>1, <2>3, <2>4, <2>5 DEF OpenedOnRows, PastGuard
<1>13. CASE CopyUnderNewName
  <2>1. CASE Stop("failed") /\ UNCHANGED <<tables, staging, command>>
    BY <2>1, <1>R DEF Stop
  <2>2. CASE /\ Here["new"][NextRename] = "absent" /\ Here["old"][NextRename] # "absent"
             /\ Put("new", NextRename, Here["old"][NextRename])
             /\ To("drop") /\ UNCHANGED <<staging, plan>>
    <3>1. plan # {} /\ Schema' = Schema /\ step' = "drop" /\ plan' = plan
      BY <1>13, <2>2 DEF CopyUnderNewName, To, Schema
    <3>2. Here["old"][NextRename] \in Contents
      BY <3>1, <1>P, <1>S DEF LifecycleTypeOK, Here
    <3>3. \A s \in Schemas, v \in Spellings, p \in Object :
            tables'[s][v][p] = IF s = Schema /\ v = "new" /\ p = NextRename
                               THEN Here["old"][NextRename] ELSE tables[s][v][p]
      BY <2>2, <3>1, <3>2, <1>P, <1>S, PutTyped
    <3>4. RowsSomewhere'
      BY <2>2, <3>1, <3>3, <1>P, <1>S DEF RowsSomewhere, Here
    <3>5. DefaultUntouched'
      BY <3>1, <3>3, <1>P, <1>S DEF DefaultUntouched
    <3>6. NextRename' = NextRename
      BY <3>1 DEF NextRename
    <3>7. RenamesHaveRows'
      BY <2>2, <3>1, <3>3, <3>6, <1>P, <1>S DEF RenamesHaveRows, Here, LifecycleTypeOK
    <3> QED
      BY <3>1, <3>4, <3>5, <3>7 DEF OpenedOnRows, PastGuard
  <2> QED
    BY <1>13, <2>1, <2>2 DEF CopyUnderNewName
<1>14. CASE DropOldName
  <2>1. plan # {} /\ Schema' = Schema /\ step' = "rename" /\ plan' = plan \ {NextRename}
    BY <1>14 DEF DropOldName, To, Schema, RenamesHaveRows
  <2>2. \A s \in Schemas, v \in Spellings, p \in Object :
          tables'[s][v][p] = IF s = Schema /\ v = "old" /\ p = NextRename
                             THEN "absent" ELSE tables[s][v][p]
    BY <1>14, <2>1, <1>P, <1>S, PutTyped DEF DropOldName, Contents
  <2>3. Here["new"][NextRename] # "absent"
    BY <1>14 DEF DropOldName, RenamesHaveRows
  <2>4. RowsSomewhere'
    BY <2>1, <2>2, <2>3, <1>P, <1>S DEF RowsSomewhere, Here
  <2>5. DefaultUntouched'
    BY <2>1, <2>2, <1>P, <1>S DEF DefaultUntouched
  <2>6. RenamesHaveRows'
    BY <2>1, <2>2, <1>P, <1>S DEF RenamesHaveRows, Here, LifecycleTypeOK
  <2> QED
    BY <2>1, <2>4, <2>5, <2>6 DEF OpenedOnRows, PastGuard
<1>15. CASE MigrationEnds
  BY <1>15, <1>R DEF MigrationEnds, Stop
<1>16. CASE StatementFails
  BY <1>16, <1>R DEF StatementFails
<1>17. CASE Crash
  BY <1>17, <1>R DEF Crash
<1>18. CASE PinSchema
  <2>1. plan = {}
    BY <1>18 DEF PinSchema, RenamesHaveRows
  <2> QED
    BY <1>18, <2>1 DEF PinSchema, RowsSomewhere, DefaultUntouched, OpenedOnRows, RenamesHaveRows,
       PastGuard
<1>19. CASE ResolveConflict
  <2>1. plan = {} /\ step' = "idle" /\ plan' = plan /\ Schema' = Schema
    BY <1>19 DEF ResolveConflict, RenamesHaveRows, Schema
  <2>2. PICK o \in Object : Both(o) /\ Put("old", o, "absent")
    BY <1>19 DEF ResolveConflict
  <2>3. \A s \in Schemas, v \in Spellings, p \in Object :
          tables'[s][v][p] = IF s = Schema /\ v = "old" /\ p = o THEN "absent" ELSE tables[s][v][p]
    BY <2>2, <1>S, PutTyped DEF Contents
  <2>4. RowsSomewhere'
    BY <2>2, <2>3, <1>S DEF RowsSomewhere, Both, Here
  <2>5. DefaultUntouched'
    BY <2>3, <1>S DEF DefaultUntouched
  <2> QED
    BY <2>1, <2>4, <2>5 DEF OpenedOnRows, RenamesHaveRows, PastGuard
<1>20. CASE UNCHANGED lifecycleVars
  BY <1>20 DEF lifecycleVars, RowsSomewhere, DefaultUntouched, OpenedOnRows, RenamesHaveRows,
     PastGuard, Here, Schema, NextRename
<1> QED
  BY <1>1, <1>2, <1>3, <1>4, <1>5, <1>6, <1>7, <1>8, <1>9, <1>10, <1>11, <1>12, <1>13, <1>14,
     <1>15, <1>16, <1>17, <1>18, <1>19, <1>20 DEF LifecycleNext, Proceed

\* Whatever statements fail and wherever processes die, the incremental state of an
\* older warehouse stays in some table, and a run that gets its adapter works on it
\* (base.py:962-1029, migration.py).
THEOREM StateRowsSurvive == LifecycleSpec => []StateSurvives
<1>1. LifecycleTypeOK /\ Survival => StateSurvives
  <2> SUFFICES ASSUME LifecycleTypeOK, Survival, corpus
               PROVE  /\ opened /\ step = "working" => Here["new"].state = "v2"
                      /\ \E s \in Schemas, w \in Spellings : tables[s][w].state \in StateRows
    BY DEF StateSurvives
  <2>1. step = "working" => Here["new"]["state"] = "v2"
    BY DEF Survival, OpenedOnRows, PastGuard
  <2>2. PICK w \in Spellings : tables["dbt_ml"][w]["state"] \notin {"absent", "empty"}
    BY DEF Survival, RowsSomewhere
  <2>3. tables["dbt_ml"][w]["state"] \in StateRows
    BY <2>2 DEF LifecycleTypeOK, Contents, StateRows, Schemas, Object
  <2> QED
    BY <2>1, <2>3 DEF Schemas
<1> QED
  BY <1>1, LifecycleTypeInit, LifecycleTypeStep, SurvivalInit, SurvivalStep, PTL DEF LifecycleSpec

------------------------------------------------------------------------------
(* MLArtifacts: an artifact and its registry entry belong together.         *)

Paths == (-MaxTrainings)..Debris
Journals ==
    [id : Versions, model : Fitted, prior : BOOLEAN, before : [Fitted -> 0..MaxTrainings]]
Publishing == {"aside", "swap", "register", "registered"}
JobPlaces ==
    Publishing \cup {"rollback", "removing", "clean", "drop_staged", "unlink"}

ArtifactTypeOK ==
    /\ final \in [Fitted -> Paths] /\ backups \in [Versions -> Paths]
    /\ entries \in [Fitted -> 0..MaxTrainings] /\ journals \subseteq Journals
    /\ trainer \in [Trainers -> [at : {"idle", "opening", "training", "staged"},
                                 model : Fitted \cup {"none"}, version : 0..MaxTrainings]]
    /\ \A t \in Trainers : trainer[t].at = "staged" =>
          trainer[t].model \in Fitted /\ trainer[t].version \in 1..trained
    /\ \A t \in Trainers : trainer[t].at # "idle" => trainer[t].model \in Fitted
    /\ section \in [at : {"none", "recover", "journal"} \cup JobPlaces,
                    journal : Journals \cup {[id |-> 0]}]
    /\ holder \in Trainers \cup {Nobody}
    /\ trained \in 0..MaxTrainings /\ late \in BOOLEAN

\* The lock, the journal and the section: one publication is pending, the holder works on
\* it or has found none, and publishes what it staged itself.
LockHeld ==
    /\ holder = Nobody <=> section.at = "none"
    /\ holder # Nobody => trainer[holder].at \in {"opening", "staged"}
    /\ section.at \in {"journal"} \cup Publishing => trainer[holder].at = "staged"
    /\ section.at \in Publishing => Job.model = Model /\ Job.id = trainer[holder].version
    /\ \A j, k \in journals : j = k
    /\ section.at = "journal" => journals = {}
    /\ section.at \in JobPlaces => journals = {Job}

\* Nothing of version v was published.
Fresh(v) ==
    /\ backups[v] = Absent
    /\ \A m \in Fitted : VersionAt(final[m]) # v /\ entries[m] # v
    /\ \A j \in journals :
          /\ j.id # v /\ VersionAt(backups[j.id]) # v
          /\ \A m \in Fitted : j.before[m] # v

\* The holder publishes version v, or clears away after it.
InHand(t) == holder = t /\ section.at \in JobPlaces /\ Job.id = trainer[t].version
Awaits(t) == trainer[t].at = "staged" /\ ~InHand(t)

StagedFresh ==
    /\ \A t, u \in Trainers : trainer[t].at = "staged" /\ trainer[u].at = "staged" /\ t # u =>
          trainer[t].version # trainer[u].version
    /\ \A t \in Trainers, v \in Versions : Awaits(t) /\ trainer[t].version = v => Fresh(v)
    /\ \A v \in Versions : v > trained => Fresh(v)

Paired(path, entry) == IF entry # 0 THEN path = entry ELSE path \in {Absent, Debris}

\* What a rollback of the publication j leaves at its path.
RolledBack(j) ==
    IF backups[j.id] # Absent THEN backups[j.id]
    ELSE IF ~j.prior /\ VersionAt(final[j.model]) = j.id THEN Absent ELSE final[j.model]

Done(j) == entries = [j.before EXCEPT ![j.model] = j.id] /\ final[j.model] = j.id
Undone(j) ==
    /\ entries = j.before
    /\ backups[j.id] # Absent => j.prior
    /\ Paired(RolledBack(j), j.before[j.model])

\* Either nothing is pending and all is paired, or the pending publication is done or can be
\* undone, and the holder knows how far it is.
Pairing ==
    /\ journals = {} => \A m \in Fitted : Paired(final[m], entries[m])
    /\ \A j \in journals :
          /\ \A m \in Fitted \ {j.model} : Paired(final[m], j.before[m])
          /\ j.before[j.model] # j.id /\ (~j.prior => j.before[j.model] = 0)
          /\ Done(j) \/ Undone(j)

\* What each place of the section knows of its job j.
Progress(j) ==
    /\ Doing("aside") => /\ Undone(j) /\ backups[j.id] = Absent
                         /\ VersionAt(final[j.model]) # j.id
                         /\ j.prior = (final[j.model] # Absent)
    /\ Doing("swap") => Undone(j) /\ j.prior = (backups[j.id] # Absent)
    /\ Doing("register") => Undone(j) /\ final[j.model] = j.id
    /\ Doing("registered") \/ Doing("clean") => Done(j)
    /\ Doing("rollback") \/ Doing("removing") => Undone(j)
    /\ Doing("removing") => backups[j.id] # Absent \/ ~j.prior
    /\ Doing("drop_staged") \/ Doing("unlink") =>
          Done(j) \/ (Undone(j) /\ RolledBack(j) = final[j.model])

Sound == StagedFresh /\ Pairing /\ (section.at \in JobPlaces => Progress(Job))
ArtifactInv == LockHeld /\ (~late => Sound)

LEMMA PathFacts ==
  /\ Versions = 1..MaxTrainings /\ MaxTrainings \in Nat /\ Debris = MaxTrainings + 1
  /\ Absent = 0 /\ Absent \in Paths /\ Debris \in Paths
  /\ \A v \in Versions : v \in Paths /\ -v \in Paths /\ VersionAt(v) = v /\ v # Absent /\ v # Debris
  /\ \A p \in Paths : /\ VersionAt(p) \in 0..MaxTrainings
                      /\ p \notin {Absent, Debris} => VersionAt(p) \in Versions
                      /\ Remains(p) \subseteq Paths
                      /\ \A q \in Remains(p) : VersionAt(q) \in {0, VersionAt(p)}
  /\ VersionAt(Absent) = 0 /\ VersionAt(Debris) = 0
<1> USE ArtifactAssumption DEF Versions, Debris, Absent, Paths
<1>1. \A v \in Versions : v \in Paths /\ -v \in Paths /\ VersionAt(v) = v /\ v # Absent /\ v # Debris
  BY DEF VersionAt
<1>2. ASSUME NEW p \in Paths
      PROVE  /\ VersionAt(p) \in 0..MaxTrainings
             /\ p \notin {Absent, Debris} => VersionAt(p) \in Versions
             /\ VersionAt(-VersionAt(p)) = VersionAt(p) /\ -VersionAt(p) \in Paths
  BY DEF VersionAt
<1>3. VersionAt(Absent) = 0 /\ VersionAt(Debris) = 0
  BY DEF VersionAt
<1>4. ASSUME NEW p \in Paths
      PROVE  /\ Remains(p) \subseteq Paths
             /\ \A q \in Remains(p) : VersionAt(q) \in {0, VersionAt(p)}
  BY <1>2, <1>3 DEF Remains
<1> QED
  BY <1>1, <1>2, <1>3, <1>4


\* The record of an update of one process.
LEMMA TrainerTyped ==
  ASSUME ArtifactTypeOK, NEW t \in Trainers, NEW r, trainer' = [trainer EXCEPT ![t] = r],
         r \in [at : {"idle", "opening", "training", "staged"},
                model : Fitted \cup {"none"}, version : 0..MaxTrainings],
         r.at = "staged" => r.version \in 1..trained',
         r.at # "idle" => r.model \in Fitted,
         trained' \in {trained, trained + 1}, trained' \in 0..MaxTrainings
  PROVE  /\ trainer' \in [Trainers -> [at : {"idle", "opening", "training", "staged"},
                                 model : Fitted \cup {"none"}, version : 0..MaxTrainings]]
         /\ \A u \in Trainers : trainer'[u].at = "staged" =>
               trainer'[u].model \in Fitted /\ trainer'[u].version \in 1..trained'
         /\ \A u \in Trainers : trainer'[u].at # "idle" => trainer'[u].model \in Fitted
BY DEF ArtifactTypeOK

LEMMA RestTyped ==
  /\ AtRest \in [at : {"idle", "opening", "training", "staged"},
                 model : Fitted \cup {"none"}, version : 0..MaxTrainings]
  /\ AtRest.at = "idle"
BY ArtifactAssumption DEF AtRest

LEMMA NoSectionTyped ==
  NoSection \in [at : {"none", "recover", "journal"} \cup JobPlaces,
                 journal : Journals \cup {[id |-> 0]}]
BY DEF NoSection

LEMMA ArtifactTypeInit == ArtifactInit => ArtifactTypeOK
<1> SUFFICES ASSUME ArtifactInit PROVE ArtifactTypeOK
  OBVIOUS
<1>1. \A t \in Trainers : trainer[t].at = "idle"
  BY RestTyped DEF ArtifactInit
<1>2. trained \in 0..MaxTrainings /\ entries \in [Fitted -> 0..MaxTrainings]
  BY ArtifactAssumption DEF ArtifactInit
<1> QED
  BY <1>1, <1>2, PathFacts, RestTyped, NoSectionTyped DEF ArtifactInit, ArtifactTypeOK

\* The section is left with its types.
LEMMA LeaveTyped ==
  ASSUME ArtifactTypeOK, LockHeld, holder # Nobody, NEW place \in {"training", "idle"},
         Leave(place), UNCHANGED trained
  PROVE  /\ trainer' \in [Trainers -> [at : {"idle", "opening", "training", "staged"},
                                 model : Fitted \cup {"none"}, version : 0..MaxTrainings]]
         /\ \A u \in Trainers : trainer'[u].at = "staged" =>
               trainer'[u].model \in Fitted /\ trainer'[u].version \in 1..trained'
         /\ \A u \in Trainers : trainer'[u].at # "idle" => trainer'[u].model \in Fitted
         /\ section' \in [at : {"none", "recover", "journal"} \cup JobPlaces,
                          journal : Journals \cup {[id |-> 0]}]
         /\ holder' \in Trainers \cup {Nobody}
<1>1. holder \in Trainers
  BY DEF ArtifactTypeOK
<1> DEFINE r == IF place = "training" THEN [trainer[holder] EXCEPT !.at = place] ELSE AtRest
<1>2. trainer' = [trainer EXCEPT ![holder] = r]
  BY DEF Leave
<1>3. trainer[holder].at # "idle"
  BY DEF LockHeld
<1>4. /\ r \in [at : {"idle", "opening", "training", "staged"},
                model : Fitted \cup {"none"}, version : 0..MaxTrainings]
      /\ r.at # "staged" /\ (r.at # "idle" => r.model \in Fitted)
  BY <1>1, <1>3, RestTyped DEF ArtifactTypeOK
<1> HIDE DEF r
<1>5. trained' = trained /\ trained' \in 0..MaxTrainings
  BY DEF ArtifactTypeOK
<1>6. section' = NoSection /\ holder' = Nobody
  BY DEF Leave
<1> QED
  BY <1>1, <1>2, <1>4, <1>5, <1>6, NoSectionTyped, TrainerTyped

\* What the job of a section is.
LEMMA JobFacts ==
  ASSUME ArtifactTypeOK, LockHeld, section.at \in JobPlaces
  PROVE  /\ journals = {Job} /\ Job \in Journals /\ Job.id \in Versions /\ Job.model \in Fitted
         /\ Job.before \in [Fitted -> 0..MaxTrainings] /\ Job.prior \in BOOLEAN
         /\ holder \in Trainers
<1>1. journals = {Job}
  BY DEF LockHeld
<1>2. Job \in Journals
  BY <1>1 DEF ArtifactTypeOK
<1>3. holder \in Trainers
  BY DEF LockHeld, JobPlaces, Publishing, ArtifactTypeOK
<1> QED
  BY <1>1, <1>2, <1>3 DEF Journals

LEMMA PlaceTyped ==
  ASSUME ArtifactTypeOK, NEW place \in {"none", "recover", "journal"} \cup JobPlaces, GoTo(place)
  PROVE  /\ section' \in [at : {"none", "recover", "journal"} \cup JobPlaces,
                          journal : Journals \cup {[id |-> 0]}]
         /\ section'.at = place /\ section'.journal = section.journal
BY DEF ArtifactTypeOK, GoTo

\* A step of the holder on its job: the lock, the journal and the trainers stay.
OnJob ==
    /\ section.at \in JobPlaces
    /\ section'.at \in JobPlaces /\ section'.journal = section.journal
    /\ section' \in [at : {"none", "recover", "journal"} \cup JobPlaces,
                     journal : Journals \cup {[id |-> 0]}]
    /\ section'.at \in Publishing => section.at \in Publishing
    /\ UNCHANGED <<journals, trainer, holder, trained>>
    /\ late' \in BOOLEAN /\ (late => late')

LEMMA OnJobLocked ==
  ASSUME ArtifactTypeOK, LockHeld, OnJob,
         final' \in [Fitted -> Paths], backups' \in [Versions -> Paths],
         entries' \in [Fitted -> 0..MaxTrainings]
  PROVE  ArtifactTypeOK' /\ LockHeld'
<1>1. ArtifactTypeOK'
  BY DEF ArtifactTypeOK, OnJob
<1>2. section'.at # "none" /\ section.at # "none" /\ section'.at # "journal"
  BY DEF OnJob, JobPlaces, Publishing
<1>3. LockHeld'
  BY <1>2 DEF LockHeld, OnJob, Job, Model
<1> QED
  BY <1>1, <1>3

\* A step of the holder that only goes to another place of its job.
LEMMA OnJobTo ==
  ASSUME ArtifactTypeOK, LockHeld, section.at \in JobPlaces, NEW place \in JobPlaces, GoTo(place),
         place \in Publishing => section.at \in Publishing, UNCHANGED <<journals, LockedVars>>
  PROVE  OnJob /\ section'.at = place
<1>1. place \in {"none", "recover", "journal"} \cup JobPlaces
  OBVIOUS
<1> QED
  BY <1>1, PlaceTyped DEF OnJob, LockedVars, ArtifactTypeOK

LEMMA JobStepLocked ==
  ASSUME ArtifactTypeOK, LockHeld,
         TearFinal \/ RemoveFinal \/ RestoreBackup \/ RestoreRegistry \/ TearBackup \/ BackupGone
         \/ DropStaged \/ SetAside \/ SwapIn \/ Register \/ Commit \/ PublishFails
  PROVE  OnJob /\ ArtifactTypeOK' /\ LockHeld'
<1>0. SUFFICES ASSUME TRUE
               PROVE  /\ OnJob /\ final' \in [Fitted -> Paths] /\ backups' \in [Versions -> Paths]
                      /\ entries' \in [Fitted -> 0..MaxTrainings]
  BY OnJobLocked
<1>P. /\ section.at \in JobPlaces
      /\ {"rollback", "removing", "clean", "drop_staged", "unlink", "swap", "register",
          "registered"} \subseteq JobPlaces
  BY DEF TearFinal, RemoveFinal, RestoreBackup, RestoreRegistry, TearBackup, BackupGone,
     DropStaged, SetAside, SwapIn, Register, Commit, PublishFails, Doing, JobPlaces, Publishing
<1>J. /\ Job \in Journals /\ Job.id \in Versions /\ Job.model \in Fitted /\ holder \in Trainers
      /\ Job.before \in [Fitted -> 0..MaxTrainings]
  BY <1>P, JobFacts
<1>M. section.at \in Publishing => Model \in Fitted
  BY <1>J DEF LockHeld, ArtifactTypeOK, Model
<1>T. /\ final \in [Fitted -> Paths] /\ backups \in [Versions -> Paths]
      /\ entries \in [Fitted -> 0..MaxTrainings]
  BY DEF ArtifactTypeOK
<1>S. UNCHANGED <<section, journals, LockedVars>> => OnJob
  BY <1>P DEF OnJob, LockedVars, ArtifactTypeOK
<1>1. CASE TearFinal
  <2>1. OnJob
    BY <1>1, <1>P, OnJobTo DEF TearFinal, Publishing
  <2>2. PICK left \in Remains(final[Job.model]) : final' = [final EXCEPT ![Job.model] = left]
    BY <1>1 DEF TearFinal
  <2>3. left \in Paths
    BY <1>J, <1>T, PathFacts
  <2> QED
    BY <1>1, <1>J, <1>T, <2>1, <2>2, <2>3 DEF TearFinal
<1>2. CASE RemoveFinal
  <2>1. OnJob
    BY <1>2, <1>P, OnJobTo DEF RemoveFinal, Publishing
  <2> QED
    BY <1>2, <1>J, <1>T, <2>1, PathFacts DEF RemoveFinal
<1>3. CASE RestoreBackup
  BY <1>3, <1>J, <1>T, <1>S, PathFacts DEF RestoreBackup
<1>4. CASE RestoreRegistry
  <2>1. OnJob
    BY <1>4, <1>P, OnJobTo DEF RestoreRegistry, Publishing
  <2> QED
    BY <1>4, <1>J, <1>T, <2>1 DEF RestoreRegistry
<1>5. CASE TearBackup
  <2>1. PICK left \in Remains(backups[Job.id]) \cup {Absent} :
           backups' = [backups EXCEPT ![Job.id] = left]
    BY <1>5 DEF TearBackup
  <2>2. left \in Paths
    BY <1>J, <1>T, PathFacts
  <2> QED
    BY <1>5, <1>J, <1>T, <1>S, <2>1, <2>2 DEF TearBackup
<1>6. CASE BackupGone
  <2>1. OnJob
    BY <1>6, <1>P, OnJobTo DEF BackupGone, Publishing
  <2> QED
    BY <1>6, <1>T, <2>1 DEF BackupGone
<1>7. CASE DropStaged
  <2>1. OnJob
    BY <1>7, <1>P, OnJobTo DEF DropStaged, Publishing
  <2> QED
    BY <1>7, <1>T, <2>1 DEF DropStaged
<1>8. CASE SetAside
  <2>1. section.at \in Publishing
    BY <1>8 DEF SetAside, Doing, Publishing
  <2>2. OnJob
    BY <1>8, <1>P, <2>1, OnJobTo DEF SetAside
  <2> QED
    BY <1>8, <1>J, <1>M, <1>T, <2>1, <2>2, PathFacts DEF SetAside
<1>9. CASE SwapIn
  <2>1. section.at \in Publishing
    BY <1>9 DEF SwapIn, Doing, Publishing
  <2>2. OnJob
    BY <1>9, <1>P, <2>1, OnJobTo DEF SwapIn
  <2> QED
    BY <1>9, <1>J, <1>M, <1>T, <2>1, <2>2, PathFacts DEF SwapIn
<1>10. CASE Register
  <2>1. section.at \in Publishing
    BY <1>10 DEF Register, Doing, Publishing
  <2>2. OnJob
    BY <1>10, <1>P, <2>1, OnJobTo DEF Register
  <2>3. Job.id \in 0..MaxTrainings
    BY <1>J, PathFacts
  <2> QED
    BY <1>10, <1>J, <1>M, <1>T, <2>1, <2>2, <2>3 DEF Register
<1>11. CASE Commit
  <2>1. OnJob
    BY <1>11, <1>P, OnJobTo DEF Commit, Publishing
  <2> QED
    BY <1>11, <1>T, <2>1 DEF Commit
<1>12. CASE PublishFails
  <2>1. GoTo("rollback")
    BY <1>12 DEF PublishFails, GoTo
  <2>2. OnJob
    BY <1>12, <1>P, <2>1, PlaceTyped DEF PublishFails, OnJob, Publishing, ArtifactTypeOK
  <2> QED
    BY <1>12, <1>T, <2>2 DEF PublishFails
<1> QED
  BY <1>0, <1>1, <1>2, <1>3, <1>4, <1>5, <1>6, <1>7, <1>8, <1>9, <1>10, <1>11, <1>12

\* The process of t changes, and it does not hold the lock.
LEMMA OutsideLocked ==
  ASSUME ArtifactTypeOK, LockHeld, NEW t \in Trainers, t # holder, NEW r,
         trainer' = [trainer EXCEPT ![t] = r],
         r \in [at : {"idle", "opening", "training", "staged"},
                model : Fitted \cup {"none"}, version : 0..MaxTrainings],
         r.at = "staged" => r.version \in 1..trained', r.at # "idle" => r.model \in Fitted,
         trained' \in {trained, trained + 1}, trained' \in 0..MaxTrainings,
         UNCHANGED <<final, backups, entries, journals, holder, section, late>>
  PROVE  ArtifactTypeOK' /\ LockHeld'
<1>1. /\ trainer' \in [Trainers -> [at : {"idle", "opening", "training", "staged"},
                                 model : Fitted \cup {"none"}, version : 0..MaxTrainings]]
      /\ \A u \in Trainers : trainer'[u].at = "staged" =>
            trainer'[u].model \in Fitted /\ trainer'[u].version \in 1..trained'
      /\ \A u \in Trainers : trainer'[u].at # "idle" => trainer'[u].model \in Fitted
  BY TrainerTyped
<1>2. ArtifactTypeOK'
  BY <1>1 DEF ArtifactTypeOK
<1>3. holder # Nobody => trainer'[holder] = trainer[holder]
  BY DEF ArtifactTypeOK
<1>4. holder = Nobody => section.at = "none"
  BY DEF LockHeld
<1>5. LockHeld'
  BY <1>3, <1>4 DEF LockHeld, Job, Model, Publishing, JobPlaces
<1> QED
  BY <1>2, <1>5

LEMMA OtherStepLocked ==
  ASSUME ArtifactTypeOK, LockHeld, NEW t \in Trainers, NEW m \in Fitted,
         BeginRun(t, m) \/ Lock(t) \/ Predict(t) \/ Train(t) \/ RecoverNext \/ Unlink
         \/ WriteJournal \/ RecoveryFails \/ Kill(t)
  PROVE  ArtifactTypeOK' /\ LockHeld'
<1>H. \A u \in Trainers : u = holder => trainer[u].at \in {"opening", "staged"}
  BY ArtifactAssumption DEF LockHeld, Nobody
<1>T. trained \in 0..MaxTrainings
  BY DEF ArtifactTypeOK
<1>1. CASE BeginRun(t, m)
  <2> DEFINE r == [at |-> "opening", model |-> m, version |-> 0]
  <2>1. t # holder
    BY <1>1, <1>H DEF BeginRun
  <2>2. r \in [at : {"idle", "opening", "training", "staged"},
               model : Fitted \cup {"none"}, version : 0..MaxTrainings]
    BY ArtifactAssumption
  <2> QED
    BY <1>1, <1>T, <2>1, <2>2, OutsideLocked DEF BeginRun
<1>2. CASE Lock(t)
  <2>1. holder' = t /\ section' = [NoSection EXCEPT !.at = "recover"] /\ t # Nobody
    BY <1>2, ArtifactAssumption DEF Lock
  <2>2. /\ section' \in [at : {"none", "recover", "journal"} \cup JobPlaces,
                        journal : Journals \cup {[id |-> 0]}]
        /\ section'.at = "recover"
    BY <2>1 DEF NoSection
  <2> QED
    BY <1>2, <2>1, <2>2 DEF Lock, ArtifactTypeOK, LockHeld, JobPlaces, Publishing
<1>3. CASE Predict(t)
  <2>1. t # holder
    BY <1>3, <1>H DEF Predict
  <2> QED
    BY <1>3, <1>T, <2>1, RestTyped, OutsideLocked DEF Predict
<1>4. CASE Train(t)
  <2> DEFINE r == [trainer[t] EXCEPT !.at = "staged", !.version = trained + 1]
  <2>1. t # holder
    BY <1>4, <1>H DEF Train
  <2>2. trained' = trained + 1 /\ trained + 1 \in 1..MaxTrainings
    BY <1>4, <1>T, ArtifactAssumption DEF Train
  <2>3. /\ r \in [at : {"idle", "opening", "training", "staged"},
                  model : Fitted \cup {"none"}, version : 0..MaxTrainings]
        /\ r.version = trained + 1 /\ r.model \in Fitted
    <3>1. trainer[t] \in [at : {"idle", "opening", "training", "staged"},
                          model : Fitted \cup {"none"}, version : 0..MaxTrainings]
      BY DEF ArtifactTypeOK
    <3>2. trainer[t].model \in Fitted
      BY <1>4 DEF Train, ArtifactTypeOK
    <3>3. trained + 1 \in 0..MaxTrainings
      BY <2>2, <1>T, ArtifactAssumption
    <3> QED
      BY <3>1, <3>2, <3>3
  <2>4. trainer' = [trainer EXCEPT ![t] = r]
    BY <1>4 DEF Train
  <2>5. trained + 1 \in 1..trained' /\ trained' \in 0..MaxTrainings
    BY <2>2, <1>T
  <2>6. UNCHANGED <<final, backups, entries, journals, holder, section, late>>
    BY <1>4 DEF Train
  <2> HIDE DEF r
  <2>7. /\ trained' \in {trained, trained + 1}
        /\ r.at = "staged" => r.version \in 1..trained'
        /\ r.at # "idle" => r.model \in Fitted
    BY <2>2, <2>3, <2>5
  <2> QED
    BY ONLY ArtifactTypeOK, LockHeld, t \in Trainers, <2>1, <2>3, <2>4, <2>5, <2>6, <2>7,
            OutsideLocked
<1>5. CASE RecoverNext
  <2>1. holder # Nobody /\ section.at = "recover" /\ holder \in Trainers
    BY <1>5 DEF RecoverNext, Doing, ArtifactTypeOK
  <2>2. CASE journals = {} /\ Leave("training")
    BY <1>5, <2>1, <2>2, LeaveTyped DEF RecoverNext, ArtifactTypeOK, LockHeld, Leave, NoSection,
       JobPlaces, Publishing
  <2>3. CASE journals = {} /\ trainer[holder].at # "opening" /\ GoTo("journal")
             /\ UNCHANGED <<trainer, holder>>
    BY <1>5, <2>1, <2>3, PlaceTyped DEF RecoverNext, ArtifactTypeOK, LockHeld,
       JobPlaces, Publishing
  <2>4. CASE journals # {} /\ UNCHANGED <<trainer, holder>>
    <3>1. PICK j \in journals :
             section' = [at |-> IF Committed(j) THEN "clean" ELSE "rollback", journal |-> j]
      BY <1>5, <2>4 DEF RecoverNext
    <3>2. journals = {j} /\ j \in Journals
      BY DEF LockHeld, ArtifactTypeOK
    <3>3. /\ section' \in [at : {"none", "recover", "journal"} \cup JobPlaces,
                          journal : Journals \cup {[id |-> 0]}]
          /\ section'.at \in {"clean", "rollback"} /\ section'.journal = j
      BY <3>1, <3>2 DEF JobPlaces
    <3> QED
      BY <1>5, <2>1, <2>4, <3>2, <3>3 DEF RecoverNext, ArtifactTypeOK, LockHeld, Job, Publishing
  <2> QED
    BY <1>5, <2>2, <2>3, <2>4 DEF RecoverNext
<1>6. CASE Unlink
  <2>1. section.at = "unlink" /\ holder # Nobody /\ section.at \in JobPlaces
    BY <1>6 DEF Unlink, Doing, JobPlaces
  <2>2. journals' = {} /\ holder \in Trainers
    BY <1>6, <2>1, JobFacts DEF Unlink
  <2>3. CASE Leave("idle")
    BY <1>6, <2>1, <2>2, <2>3, LeaveTyped DEF Unlink, ArtifactTypeOK, LockHeld, Leave, NoSection,
       JobPlaces, Publishing
  <2>4. CASE GoTo("recover") /\ UNCHANGED <<trainer, holder>>
    BY <1>6, <2>1, <2>2, <2>4, PlaceTyped DEF Unlink, ArtifactTypeOK, LockHeld, JobPlaces,
       Publishing
  <2> QED
    BY <1>6, <2>3, <2>4 DEF Unlink
<1>7. CASE WriteJournal
  <2> DEFINE j == [id |-> trainer[holder].version, model |-> Model,
                   prior |-> final[Model] # Absent, before |-> entries]
  <2>1. /\ section.at = "journal" /\ holder \in Trainers /\ trainer[holder].at = "staged"
        /\ journals = {}
    BY <1>7 DEF WriteJournal, Doing, LockHeld, ArtifactTypeOK
  <2>2. trainer[holder].model \in Fitted /\ trainer[holder].version \in Versions
    BY <2>1, PathFacts, ArtifactAssumption DEF ArtifactTypeOK
  <2>3. j \in Journals
    BY <2>2 DEF Journals, Model, ArtifactTypeOK
  <2>4. j.id = trainer[holder].version /\ j.model = Model
    OBVIOUS
  <2>5. journals' = {j} /\ section' = [at |-> "aside", journal |-> j]
    BY <1>7, <2>1 DEF WriteJournal
  <2> HIDE DEF j
  <2>6. /\ section' \in [at : {"none", "recover", "journal"} \cup JobPlaces,
                         journal : Journals \cup {[id |-> 0]}]
        /\ section'.at = "aside" /\ section'.journal = j
    BY <2>3, <2>5 DEF JobPlaces, Publishing
  <2>7. UNCHANGED <<final, backups, entries, trainer, holder, trained, late>>
    BY <1>7 DEF WriteJournal, LockedVars
  <2>8. ArtifactTypeOK'
    BY <2>3, <2>5, <2>6, <2>7 DEF ArtifactTypeOK
  <2>9. LockHeld'
    BY <2>1, <2>4, <2>5, <2>6, <2>7, ArtifactAssumption DEF LockHeld, Job, Model
  <2> QED
    BY <2>8, <2>9
<1>8. CASE RecoveryFails
  <2>1. holder # Nobody
    BY <1>8 DEF RecoveryFails, Doing
  <2> QED
    BY <1>8, <2>1, LeaveTyped DEF RecoveryFails, ArtifactTypeOK, LockHeld, Leave, NoSection,
       JobPlaces, Publishing
<1>9. CASE Kill(t)
  <2>1. CASE holder # t
    BY <1>9, <1>T, <2>1, RestTyped, OutsideLocked DEF Kill
  <2>2. CASE holder = t
    <3>1. /\ trainer' \in [Trainers -> [at : {"idle", "opening", "training", "staged"},
                                 model : Fitted \cup {"none"}, version : 0..MaxTrainings]]
          /\ \A u \in Trainers : trainer'[u].at = "staged" =>
                trainer'[u].model \in Fitted /\ trainer'[u].version \in 1..trained'
          /\ \A u \in Trainers : trainer'[u].at # "idle" => trainer'[u].model \in Fitted
      BY <1>9, <1>T, RestTyped, TrainerTyped DEF Kill
    <3>2. section' = NoSection /\ holder' = Nobody /\ section'.at = "none"
      BY <1>9, <2>2 DEF Kill, NoSection
    <3> QED
      BY <1>9, <3>1, <3>2, NoSectionTyped DEF Kill, ArtifactTypeOK, LockHeld, JobPlaces, Publishing
  <2> QED
    BY <2>1, <2>2
<1> QED
  BY <1>1, <1>2, <1>3, <1>4, <1>5, <1>6, <1>7, <1>8, <1>9

\* A step on a job moves its versions about and no other ones.
LEMMA OnJobFresh ==
  ASSUME ArtifactTypeOK, LockHeld, StagedFresh, OnJob,
         \A m \in Fitted :
            VersionAt(final'[m]) \in {0, VersionAt(final[m]), VersionAt(backups[Job.id]), Job.id},
         \A v \in Versions : v # Job.id => backups'[v] = backups[v],
         \/ VersionAt(backups'[Job.id]) \in {0, VersionAt(backups[Job.id])}
         \/ \E m \in Fitted : VersionAt(backups'[Job.id]) = VersionAt(final[m]),
         \A m \in Fitted : entries'[m] \in {entries[m], Job.before[m], Job.id}
  PROVE  StagedFresh'
<1>J. journals = {Job} /\ journals' = {Job} /\ Job.id \in Versions /\ Job' = Job
  BY JobFacts DEF OnJob, Job
<1>1. ASSUME NEW v \in Versions, Fresh(v) PROVE Fresh(v)'
  <2>1. v # 0 /\ v # Job.id
    BY <1>1, <1>J, PathFacts DEF Fresh
  <2> QED
    BY <1>1, <1>J, <2>1 DEF Fresh
<1>2. \A t \in Trainers : Awaits(t)' <=> Awaits(t)
  BY <1>J DEF Awaits, InHand, OnJob
<1>3. \A t \in Trainers : trainer[t].at = "staged" => trainer[t].version \in Versions
  BY PathFacts, ArtifactAssumption DEF ArtifactTypeOK
<1>4. UNCHANGED <<trainer, trained>>
  BY DEF OnJob
<1> QED
  BY <1>1, <1>2, <1>3, <1>4 DEF StagedFresh, Awaits

LEMMA OnJobPairing ==
  ASSUME ArtifactTypeOK, LockHeld, Pairing, OnJob, Done(Job)' \/ Undone(Job)',
         \A m \in Fitted \ {Job.model} : final'[m] = final[m]
  PROVE  Pairing'
<1>J. journals = {Job} /\ journals' = {Job} /\ Job' = Job
  BY JobFacts DEF OnJob, Job
<1> QED
  BY <1>J DEF Pairing

\* What a job finds at its path and in its backup when it is done, or can be undone.
LEMMA JobStepSound ==
  ASSUME ArtifactTypeOK, LockHeld, Sound, ~late', OnJob, ArtifactTypeOK',
         TearFinal \/ RemoveFinal \/ RestoreBackup \/ RestoreRegistry \/ TearBackup \/ BackupGone
         \/ DropStaged \/ SetAside \/ SwapIn \/ Register \/ Commit \/ PublishFails
  PROVE  Sound'
<1> DEFINE M == Job.model
           I == Job.id
<1>P. section.at \in JobPlaces /\ section'.at \in JobPlaces /\ Job' = Job /\ holder # Nobody
      /\ holder' = holder
  BY ArtifactAssumption, JobFacts DEF OnJob, Job
<1>J. /\ Job \in journals /\ I \in Versions /\ M \in Fitted
      /\ Job.before \in [Fitted -> 0..MaxTrainings] /\ Job.prior \in BOOLEAN
  BY <1>P, JobFacts
<1>T. /\ final \in [Fitted -> Paths] /\ backups \in [Versions -> Paths]
      /\ entries \in [Fitted -> 0..MaxTrainings]
      /\ I # 0 /\ VersionAt(I) = I /\ I # Absent /\ I # Debris
  BY <1>J, PathFacts DEF ArtifactTypeOK
<1>G. /\ Progress(Job) /\ StagedFresh /\ Pairing
      /\ Job.before[M] # I /\ (~Job.prior => Job.before[M] = 0)
  BY <1>P, <1>J DEF Sound, Pairing
<1>D. \A place : Doing(place) <=> section.at = place
  BY <1>P DEF Doing
<1>D1. \A place : Doing(place)' <=> section'.at = place
  BY <1>P DEF Doing
<1>M. section.at \in Publishing => Model = M
  BY DEF LockHeld
<1> SUFFICES /\ \A m \in Fitted : VersionAt(final'[m]) \in
                   {0, VersionAt(final[m]), VersionAt(backups[I]), I}
             /\ \A m \in Fitted \ {M} : final'[m] = final[m]
             /\ \A v \in Versions : v # I => backups'[v] = backups[v]
             /\ \/ VersionAt(backups'[I]) \in {0, VersionAt(backups[I])}
                \/ \E m \in Fitted : VersionAt(backups'[I]) = VersionAt(final[m])
             /\ \A m \in Fitted : entries'[m] \in {entries[m], Job.before[m], I}
             /\ Done(Job)' \/ Undone(Job)'
             /\ Progress(Job)'
  BY <1>P, <1>G, OnJobFresh, OnJobPairing DEF Sound
<1>K. VersionAt(Absent) = 0
  BY PathFacts
<1>1. CASE TearFinal
  <2>1. /\ section.at = "rollback" /\ section'.at = "removing"
        /\ UNCHANGED <<backups, entries>> /\ Undone(Job)
    BY <1>1, <1>D, <1>G DEF TearFinal, GoTo, Progress
  <2>2. PICK left \in Remains(final[M]) : final' = [final EXCEPT ![M] = left]
    BY <1>1 DEF TearFinal
  <2>3. VersionAt(left) \in {0, VersionAt(final[M])} /\ final[M] \in Paths
    BY <1>J, <1>T, PathFacts
  <2>4. \/ backups[I] # Absent
        \/ backups[I] = Absent /\ ~Job.prior /\ VersionAt(final[M]) = I
    BY <1>1 DEF TearFinal
  <2>5. Undone(Job)'
    <3>1. CASE backups[I] # Absent
      BY <1>P, <1>J, <1>T, <2>1, <2>2, <3>1 DEF Undone, RolledBack
    <3>2. CASE backups[I] = Absent /\ ~Job.prior /\ VersionAt(final[M]) = I
      <4>1. left \in {Debris, -I} /\ VersionAt(Debris) = 0 /\ VersionAt(-I) = I
        BY <3>2, <1>T, <1>J, PathFacts, ArtifactAssumption DEF Remains, VersionAt, Versions, Debris
      <4>2. RolledBack(Job)' \in {Absent, Debris}
        BY <1>P, <1>J, <1>T, <2>1, <2>2, <3>2, <4>1 DEF RolledBack
      <4> QED
        BY <1>P, <1>G, <2>1, <3>2, <4>2 DEF Undone, Paired
    <3> QED
      BY <2>4, <3>1, <3>2
  <2>6. Progress(Job)'
    BY <1>P, <1>D1, <2>1, <2>4, <2>5 DEF Progress
  <2> QED
    BY <1>J, <1>T, <2>1, <2>2, <2>3, <2>5, <2>6
<1>2. CASE RemoveFinal
  <2>1. /\ section.at = "removing" /\ section'.at = "rollback"
        /\ final' = [final EXCEPT ![M] = Absent]
        /\ UNCHANGED <<backups, entries>> /\ Undone(Job) /\ (backups[I] # Absent \/ ~Job.prior)
    BY <1>2, <1>D, <1>G DEF RemoveFinal, GoTo, Progress
  <2>2. Undone(Job)'
    BY <1>P, <1>J, <1>T, <1>G, <1>K, <2>1 DEF Undone, RolledBack, Paired
  <2>3. Progress(Job)'
    BY <1>D1, <2>1, <2>2 DEF Progress
  <2> QED
    BY <1>J, <1>T, <1>K, <2>1, <2>2, <2>3
<1>3. CASE RestoreBackup
  <2>1. /\ section.at = "rollback" /\ section' = section
        /\ backups[I] # Absent /\ final[M] = Absent
        /\ final' = [final EXCEPT ![M] = backups[I]]
        /\ backups' = [backups EXCEPT ![I] = Absent]
        /\ UNCHANGED entries /\ Undone(Job)
    BY <1>3, <1>D, <1>G DEF RestoreBackup, Progress
  <2>2. Undone(Job)'
    BY <1>P, <1>J, <1>T, <1>G, <2>1 DEF Undone, RolledBack
  <2>3. Progress(Job)'
    BY <1>D1, <2>1, <2>2 DEF Progress
  <2> QED
    BY <1>J, <1>T, <1>K, <2>1, <2>2, <2>3
<1>4. CASE RestoreRegistry
  <2>1. /\ section.at = "rollback" /\ section'.at = "drop_staged"
        /\ backups[I] = Absent /\ (Job.prior \/ VersionAt(final[M]) # I)
        /\ entries' = Job.before /\ UNCHANGED <<final, backups>> /\ Undone(Job)
    BY <1>4, <1>D, <1>G DEF RestoreRegistry, GoTo, Progress
  <2>2. Undone(Job)' /\ RolledBack(Job)' = final'[M]
    BY <1>P, <1>J, <1>T, <2>1 DEF Undone, RolledBack
  <2>3. Progress(Job)'
    BY <1>P, <1>D1, <2>1, <2>2 DEF Progress
  <2> QED
    BY <1>J, <1>T, <2>1, <2>2, <2>3
<1>5. CASE TearBackup
  <2>1. section.at = "clean" /\ section' = section /\ UNCHANGED <<final, entries>> /\ Done(Job)
    BY <1>5, <1>D, <1>G DEF TearBackup, Progress
  <2>2. PICK left \in Remains(backups[I]) \cup {Absent} : backups' = [backups EXCEPT ![I] = left]
    BY <1>5 DEF TearBackup
  <2>3. VersionAt(left) \in {0, VersionAt(backups[I])}
    BY <1>J, <1>T, <1>K, <2>2, PathFacts
  <2>4. Done(Job)'
    BY <1>P, <2>1 DEF Done
  <2>5. Progress(Job)'
    BY <1>D1, <2>1, <2>4 DEF Progress
  <2> QED
    BY <1>J, <1>T, <2>1, <2>2, <2>3, <2>4, <2>5
<1>6. CASE BackupGone
  <2>1. /\ section.at = "clean" /\ section'.at = "drop_staged"
        /\ UNCHANGED <<final, backups, entries>> /\ Done(Job)
    BY <1>6, <1>D, <1>G DEF BackupGone, GoTo, Progress
  <2>2. Done(Job)'
    BY <1>P, <2>1 DEF Done
  <2>3. Progress(Job)'
    BY <1>D1, <2>1, <2>2 DEF Progress
  <2> QED
    BY <1>J, <1>T, <2>1, <2>2, <2>3
<1>7. CASE DropStaged
  <2>1. /\ section.at = "drop_staged" /\ section'.at = "unlink"
        /\ UNCHANGED <<final, backups, entries>>
        /\ Done(Job) \/ (Undone(Job) /\ RolledBack(Job) = final[M])
    BY <1>7, <1>D, <1>G DEF DropStaged, GoTo, Progress
  <2>2. Done(Job)' \/ (Undone(Job)' /\ RolledBack(Job)' = final'[M])
    BY <1>P, <2>1 DEF Done, Undone, RolledBack
  <2>3. Progress(Job)'
    BY <1>P, <1>D1, <2>1, <2>2 DEF Progress
  <2> QED
    BY <1>J, <1>T, <2>1, <2>2, <2>3
<1>8. CASE SetAside
  <2>1. section.at = "aside" /\ section.at \in Publishing
    BY <1>8, <1>D DEF SetAside, Publishing
  <2>2. /\ section'.at = "swap" /\ UNCHANGED entries
        /\ final' = [final EXCEPT ![M] = Absent]
        /\ backups' = [backups EXCEPT ![I] = final[M]]
        /\ Undone(Job) /\ backups[I] = Absent /\ VersionAt(final[M]) # I
        /\ Job.prior = (final[M] # Absent)
    <3>1. /\ section'.at = "swap" /\ UNCHANGED entries
          /\ final' = [final EXCEPT ![M] = Absent]
          /\ backups' = [backups EXCEPT ![I] = final[M]]
      BY <1>8, <1>M, <2>1 DEF SetAside, GoTo, ArtifactTypeOK
    <3>2. /\ Undone(Job) /\ backups[I] = Absent /\ VersionAt(final[M]) # I
          /\ Job.prior = (final[M] # Absent)
      BY <1>D, <1>G, <2>1 DEF Progress
    <3> QED
      BY <3>1, <3>2
  <2>3. Undone(Job)'
    BY <1>P, <1>J, <1>T, <1>K, <2>2 DEF Undone, RolledBack
  <2>4. Progress(Job)'
    BY <1>P, <1>J, <1>T, <1>D1, <2>2, <2>3 DEF Progress
  <2> QED
    BY <1>J, <1>T, <1>K, <2>2, <2>3, <2>4
<1>9. CASE SwapIn
  <2>1. section.at = "swap" /\ section.at \in Publishing
    BY <1>9, <1>D DEF SwapIn, Publishing
  <2>2. /\ section'.at = "register" /\ UNCHANGED <<backups, entries>>
        /\ final' = [final EXCEPT ![M] = I]
        /\ Undone(Job) /\ Job.prior = (backups[I] # Absent)
    <3>1. /\ section'.at = "register" /\ UNCHANGED <<backups, entries>>
          /\ final' = [final EXCEPT ![M] = I]
      BY <1>9, <1>M, <2>1 DEF SwapIn, GoTo, ArtifactTypeOK
    <3>2. Undone(Job) /\ Job.prior = (backups[I] # Absent)
      BY <1>D, <1>G, <2>1 DEF Progress
    <3> QED
      BY <3>1, <3>2
  <2>3. Undone(Job)'
    BY <1>P, <1>J, <1>T, <1>G, <2>2 DEF Undone, RolledBack, Paired
  <2>4. Progress(Job)'
    BY <1>P, <1>J, <1>T, <1>D1, <2>2, <2>3 DEF Progress
  <2> QED
    BY <1>J, <1>T, <2>2, <2>3, <2>4
<1>10. CASE Register
  <2>1. section.at = "register" /\ section.at \in Publishing
    BY <1>10, <1>D DEF Register, Publishing
  <2>2. /\ section'.at = "registered" /\ UNCHANGED <<final, backups>>
        /\ entries' = [Job.before EXCEPT ![M] = I] /\ final[M] = I
    BY <1>10, <1>D, <1>G, <1>M, <2>1 DEF Register, GoTo, Progress
  <2>3. Done(Job)'
    BY <1>P, <2>2 DEF Done
  <2>4. Progress(Job)'
    BY <1>D1, <2>2, <2>3 DEF Progress
  <2> QED
    BY <1>J, <1>T, <2>2, <2>3, <2>4
<1>11. CASE Commit
  <2>1. /\ section'.at = "clean" /\ UNCHANGED <<final, backups, entries>> /\ Done(Job)
    BY <1>11, <1>G DEF Commit, GoTo, Progress, LockedVars
  <2>2. Done(Job)'
    BY <1>P, <2>1 DEF Done
  <2>3. Progress(Job)'
    BY <1>D1, <2>1, <2>2 DEF Progress
  <2> QED
    BY <1>J, <1>T, <2>1, <2>2, <2>3
<1>12. CASE PublishFails
  <2>1. /\ section'.at = "rollback" /\ UNCHANGED <<final, backups, entries>>
        /\ section.at \in {"aside", "swap", "register"}
    BY <1>12, <1>D DEF PublishFails, ArtifactTypeOK
  <2>2. Undone(Job)
    BY <1>D, <1>G, <2>1 DEF Progress
  <2>3. Undone(Job)'
    BY <1>P, <2>1, <2>2 DEF Undone, RolledBack
  <2>4. Progress(Job)'
    BY <1>D1, <2>1, <2>3 DEF Progress
  <2> QED
    BY <1>J, <1>T, <2>1, <2>3, <2>4
<1> QED
  BY <1>1, <1>2, <1>3, <1>4, <1>5, <1>6, <1>7, <1>8, <1>9, <1>10, <1>11, <1>12

\* Steps beside a job leave every version where it is.
LEMMA BesideFresh ==
  ASSUME ArtifactTypeOK, StagedFresh, journals' \subseteq journals,
         UNCHANGED <<final, backups, entries, trained>>,
         \A t \in Trainers : trainer'[t].at = "staged" => trainer'[t] = trainer[t],
         \A t \in Trainers : Awaits(t)' => Awaits(t)
  PROVE  StagedFresh'
<1>1. \A v \in Versions : Fresh(v) => Fresh(v)'
  BY DEF Fresh
<1>2. \A t \in Trainers : trainer[t].at = "staged" => trainer[t].version \in Versions
  BY PathFacts, ArtifactAssumption DEF ArtifactTypeOK
<1>3. \A t \in Trainers : Awaits(t)' => trainer'[t].at = "staged"
  BY DEF Awaits
<1> QED
  BY <1>1, <1>2, <1>3 DEF StagedFresh

LEMMA OtherStepSound ==
  ASSUME ArtifactTypeOK, LockHeld, Sound, NEW t \in Trainers, NEW m \in Fitted,
         BeginRun(t, m) \/ Lock(t) \/ Predict(t) \/ Train(t) \/ RecoverNext \/ Unlink
         \/ WriteJournal \/ RecoveryFails \/ Kill(t)
  PROVE  Sound'
<1>H. \A u \in Trainers : u = holder => trainer[u].at \in {"opening", "staged"}
  BY ArtifactAssumption DEF LockHeld, Nobody
<1>N. \A u \in Trainers : u # Nobody
  BY ArtifactAssumption
<1>G. StagedFresh /\ Pairing /\ (section.at \in JobPlaces => Progress(Job))
  BY DEF Sound
<1>V. UNCHANGED <<final, backups, entries>>
  BY DEF BeginRun, Lock, Predict, Train, RecoverNext, Unlink, WriteJournal, RecoveryFails, Kill,
     artifactVars, LockedVars
<1>I. \A u \in Trainers : InHand(u) => u = holder /\ section.at \in JobPlaces
  BY DEF InHand
<1>R. AtRest.at = "idle"
  BY RestTyped
<1>TT. trainer \in [Trainers -> [at : {"idle", "opening", "training", "staged"},
                                model : Fitted \cup {"none"}, version : 0..MaxTrainings]]
  BY DEF ArtifactTypeOK
\* The journals and the section of a job stay.
<1>K. ASSUME UNCHANGED <<journals, section, holder>> PROVE Pairing' /\ (section'.at \in JobPlaces => Progress(Job)')
  <2>1. Pairing'
    BY <1>G, <1>V, <1>K DEF Pairing, Done, Undone, RolledBack
  <2>2. section'.at \in JobPlaces => Progress(Job)'
    BY <1>G, <1>V, <1>K DEF Progress, Done, Undone, RolledBack, Doing, Job
  <2> QED
    BY <2>1, <2>2
\* The section ends or begins anew.
<1>E. ASSUME journals' = journals, section'.at \notin JobPlaces
      PROVE  Pairing' /\ (section'.at \in JobPlaces => Progress(Job)')
  BY <1>G, <1>V, <1>E DEF Pairing, Done, Undone, RolledBack
<1>1. CASE BeginRun(t, m)
  <2>1. \A u \in Trainers : trainer'[u].at = "staged" => trainer'[u] = trainer[u]
    BY <1>1, <1>TT DEF BeginRun
  <2>2. \A u \in Trainers : Awaits(u)' => Awaits(u)
    BY <1>1, <2>1 DEF BeginRun, Awaits, InHand, Job
  <2> QED
    BY <1>1, <1>G, <1>V, <1>K, <2>1, <2>2, BesideFresh DEF BeginRun, Sound
<1>2. CASE Lock(t)
  <2>1. section'.at = "recover" /\ "recover" \notin JobPlaces
    BY <1>2 DEF Lock, NoSection, JobPlaces, Publishing
  <2>2. \A u \in Trainers : ~InHand(u)
    BY <1>2, <1>N, <1>I DEF Lock
  <2>3. \A u \in Trainers : Awaits(u)' => Awaits(u)
    BY <1>2, <2>2 DEF Lock, Awaits
  <2> QED
    BY <1>2, <1>G, <1>V, <1>E, <2>1, <2>3, BesideFresh DEF Lock, Sound
<1>3. CASE Predict(t)
  <2>1. \A u \in Trainers : trainer'[u].at = "staged" => trainer'[u] = trainer[u]
    BY <1>3, <1>TT, <1>R DEF Predict
  <2>2. \A u \in Trainers : Awaits(u)' => Awaits(u)
    BY <1>3, <2>1 DEF Predict, Awaits, InHand, Job
  <2> QED
    BY <1>3, <1>G, <1>V, <1>K, <2>1, <2>2, BesideFresh DEF Predict, Sound
<1>4. CASE Train(t)
  <2>0. PICK v : v = trained + 1
    OBVIOUS
  <2>1. v \in Versions /\ v > trained /\ trained' = v /\ trained \in Nat
    BY <1>4, <2>0, PathFacts, ArtifactAssumption DEF Train, ArtifactTypeOK
  <2>2. /\ trainer'[t].at = "staged" /\ trainer'[t].version = v
        /\ \A u \in Trainers \ {t} : trainer'[u] = trainer[u]
        /\ trainer[t].at = "training"
    BY <1>4, <1>TT, <2>0 DEF Train
  <2>3. UNCHANGED <<journals, section, holder>>
    BY <1>4 DEF Train
  <2>4. \A w \in Versions : Fresh(w) => Fresh(w)'
    BY <1>V, <2>3 DEF Fresh
  <2>5. \A u \in Trainers :
           trainer[u].at = "staged" => trainer[u].version \in Versions /\ trainer[u].version # v
    <3>1. \A u \in Trainers : trainer[u].at = "staged" => trainer[u].version \in 1..trained
      BY DEF ArtifactTypeOK
    <3>2. /\ trained \in 0..MaxTrainings /\ Versions = 1..MaxTrainings
          /\ MaxTrainings \in Nat /\ v \in Nat /\ v > trained
      BY <2>1, PathFacts DEF ArtifactTypeOK
    <3>3. \A w \in 1..trained : w \in Versions /\ w # v
      BY ONLY <3>2
    <3> QED
      BY ONLY <3>1, <3>3
  <2>6. \A u \in Trainers \ {t} : Awaits(u)' => Awaits(u)
    BY <2>2, <2>3 DEF Awaits, InHand, Job
  <2>7. Fresh(v)
    BY <1>G, <2>1 DEF StagedFresh
  <2>8. \A u \in Trainers, w \in Versions : Awaits(u)' /\ trainer'[u].version = w => Fresh(w)'
    <3> SUFFICES ASSUME NEW u \in Trainers, NEW w \in Versions, Awaits(u)', trainer'[u].version = w
                 PROVE  Fresh(w)'
      OBVIOUS
    <3>1. CASE u = t
      BY <2>1, <2>2, <2>4, <2>7, <3>1
    <3>2. CASE u # t
      <4>1. Awaits(u) /\ trainer'[u] = trainer[u] /\ trainer[u].at = "staged"
        BY <2>2, <2>6, <3>2 DEF Awaits
      <4> QED
        BY <1>G, <2>4, <2>5, <4>1 DEF StagedFresh
    <3> QED
      BY <3>1, <3>2
  <2>9. StagedFresh'
    <3>1. \A u, w \in Trainers : trainer'[u].at = "staged" /\ trainer'[w].at = "staged" /\ u # w =>
             trainer'[u].version # trainer'[w].version
      BY <1>G, <2>2, <2>5 DEF StagedFresh
    <3>2. \A w \in Versions : w > trained' => w > trained
      BY <2>1, PathFacts
    <3>3. \A w \in Versions : w > trained' => Fresh(w)'
      BY <1>G, <2>4, <3>2 DEF StagedFresh
    <3> QED
      BY <2>8, <3>1, <3>3 DEF StagedFresh
  <2> QED
    BY <1>K, <2>3, <2>9 DEF Sound
<1>5. CASE RecoverNext
  <2>1. section.at = "recover" /\ "recover" \notin JobPlaces /\ holder \in Trainers
        /\ UNCHANGED <<journals, trained>>
    BY <1>5 DEF RecoverNext, Doing, JobPlaces, Publishing, ArtifactTypeOK
  <2>2. \A u \in Trainers : trainer'[u].at = "staged" => trainer'[u] = trainer[u]
    BY <1>5, <1>TT, <2>1 DEF RecoverNext, Leave
  <2>3. \A u \in Trainers : Awaits(u)' => Awaits(u)
    BY <1>I, <2>1, <2>2 DEF Awaits
  <2>4. StagedFresh'
    BY <1>G, <1>V, <2>1, <2>2, <2>3, BesideFresh
  <2>5. CASE Leave("training") \/ GoTo("journal")
    <3>1. section'.at \in {"none", "journal"}
      BY <2>5 DEF Leave, GoTo, NoSection, ArtifactTypeOK
    <3>2. section'.at \notin JobPlaces
      BY <3>1 DEF JobPlaces, Publishing
    <3> QED
      BY <1>E, <2>1, <2>4, <3>2 DEF Sound
  <2>6. CASE journals # {} /\ UNCHANGED <<trainer, holder>>
    <3>1. PICK j \in journals :
             section' = [at |-> IF Committed(j) THEN "clean" ELSE "rollback", journal |-> j]
      BY <1>5, <2>6 DEF RecoverNext
    <3>2. j.id \in Versions /\ j.model \in Fitted /\ j.before \in [Fitted -> 0..MaxTrainings]
      BY <3>1 DEF ArtifactTypeOK, Journals
    <3>3. Committed(j) => Done(j)
      BY <1>G, <3>2 DEF Pairing, Committed, Undone
    <3>4. ~Committed(j) => Undone(j)
      BY <1>G, <3>2, PathFacts DEF Pairing, Committed, Done
    <3>5. Job' = j /\ section'.at \in {"clean", "rollback"}
          /\ (section'.at = "clean" => Done(j)) /\ (section'.at = "rollback" => Undone(j))
      BY <3>1, <3>3, <3>4 DEF Job
    <3>6. (Done(j) => Done(Job)') /\ (Undone(j) => Undone(Job)')
      BY <1>V, <3>5 DEF Done, Undone, RolledBack
    <3>7. Progress(Job)'
      BY <3>5, <3>6 DEF Progress, Doing
    <3>8. Pairing'
      BY <1>G, <1>V, <2>1 DEF Pairing, Done, Undone, RolledBack
    <3> QED
      BY <2>4, <3>7, <3>8 DEF Sound
  <2> QED
    BY <1>5, <2>5, <2>6 DEF RecoverNext
<1>6. CASE Unlink
  <2>1. section.at = "unlink" /\ section.at \in JobPlaces /\ holder \in Trainers /\ UNCHANGED trained
    BY <1>6 DEF Unlink, Doing, JobPlaces, ArtifactTypeOK
  <2>2. /\ journals = {Job} /\ Job.model \in Fitted /\ journals' = {}
        /\ Job.before \in [Fitted -> 0..MaxTrainings] /\ Job.id \in Versions /\ Job.id # 0
    BY <1>6, <2>1, JobFacts, PathFacts DEF Unlink
  <2>3. \A u \in Trainers : trainer'[u].at = "staged" =>
           trainer'[u] = trainer[u] /\ (u = holder => trainer[u].version # Job.id)
    BY <1>6, <1>TT, <1>R, <2>1 DEF Unlink, Leave
  <2>4. \A u \in Trainers : Awaits(u)' => Awaits(u)
    BY <2>3 DEF Awaits, InHand
  <2>5. StagedFresh'
    BY <1>G, <1>V, <2>1, <2>2, <2>3, <2>4, BesideFresh
  <2>6. section'.at \in {"none", "recover"}
    BY <1>6 DEF Unlink, Leave, GoTo, NoSection, ArtifactTypeOK
  <2>7. Done(Job) \/ (Undone(Job) /\ RolledBack(Job) = final[Job.model])
    BY <1>G, <1>N, <2>1, <1>6 DEF Progress, Unlink
  <2>8. \A n \in Fitted : Paired(final[n], entries[n])
    <3>1. \A n \in Fitted \ {Job.model} : Paired(final[n], Job.before[n])
      BY <1>G, <2>2 DEF Pairing
    <3>2. CASE Done(Job)
      BY <2>2, <3>1, <3>2 DEF Done, Paired
    <3>3. CASE Undone(Job) /\ RolledBack(Job) = final[Job.model]
      BY <2>2, <3>1, <3>3 DEF Undone
    <3> QED
      BY <2>7, <3>2, <3>3
  <2>9. Pairing'
    BY <1>V, <2>2, <2>8 DEF Pairing
  <2> QED
    BY <2>5, <2>6, <2>9 DEF Sound, JobPlaces, Publishing
<1>7. CASE WriteJournal
  <2>0. PICK j, h : /\ h = holder
                    /\ j = [id |-> trainer[holder].version, model |-> Model,
                            prior |-> final[Model] # Absent, before |-> entries]
    OBVIOUS
  <2>1. /\ section.at = "journal" /\ h \in Trainers /\ trainer[h].at = "staged"
        /\ journals = {} /\ section.at \notin JobPlaces /\ h # Nobody
    BY <1>7, <1>N, <2>0 DEF WriteJournal, Doing, LockHeld, ArtifactTypeOK, JobPlaces, Publishing
  <2>2. Model \in Fitted /\ trainer[h].version \in Versions
    BY <2>0, <2>1, PathFacts, ArtifactAssumption DEF ArtifactTypeOK, Model
  <2>3. Fresh(trainer[h].version)
    BY <1>G, <1>I, <2>1, <2>2 DEF StagedFresh, Awaits
  <2>4. /\ j.id = trainer[h].version /\ j.model = Model /\ j.prior = (final[Model] # Absent)
        /\ j.before = entries
    BY <2>0
  <2>5. /\ journals' = {j} /\ section' = [at |-> "aside", journal |-> j]
        /\ UNCHANGED <<trainer, holder, trained>>
    BY <1>7, <2>0, <2>1 DEF WriteJournal, LockedVars
  <2>6. section'.at = "aside" /\ Job' = j /\ "aside" \in JobPlaces
    BY <2>5 DEF Job, JobPlaces, Publishing
  <2>7. /\ backups[j.id] = Absent /\ j.id # 0
        /\ \A n \in Fitted : VersionAt(final[n]) # j.id /\ entries[n] # j.id
    BY <2>2, <2>3, <2>4, PathFacts DEF Fresh
  <2>8. ASSUME NEW v \in Versions, Fresh(v), v # j.id PROVE Fresh(v)'
    <3>1. v # 0 /\ VersionAt(Absent) = 0
      BY PathFacts
    <3> QED
      BY <1>V, <2>4, <2>5, <2>7, <2>8, <3>1 DEF Fresh
  <2>9. \A u \in Trainers : Awaits(u)' => Awaits(u) /\ u # h
    BY <1>I, <2>0, <2>1, <2>4, <2>5, <2>6 DEF Awaits, InHand
  <2>10. \A u \in Trainers : trainer[u].at = "staged" => trainer[u].version \in 1..trained
    BY DEF ArtifactTypeOK
  <2>11. StagedFresh'
    <3>1. \A u \in Trainers, v \in Versions : Awaits(u)' /\ trainer'[u].version = v => Fresh(v)'
      <4> SUFFICES ASSUME NEW u \in Trainers, NEW v \in Versions, Awaits(u)', trainer[u].version = v
                   PROVE  Fresh(v)'
        BY <2>5
      <4>1. Awaits(u) /\ u # h /\ trainer[u].at = "staged"
        BY <2>9 DEF Awaits
      <4>2. v # j.id /\ Fresh(v)
        BY <1>G, <2>1, <2>4, <4>1 DEF StagedFresh
      <4> QED
        BY <2>8, <4>2
    <3>2. \A v \in Versions : v > trained => Fresh(v)'
      <4> SUFFICES ASSUME NEW v \in Versions, v > trained PROVE Fresh(v)'
        OBVIOUS
      <4>0. j.id \in 1..trained /\ trained \in Nat
        BY <2>1, <2>4, <2>10, PathFacts DEF ArtifactTypeOK
      <4>1. v # j.id
        BY <4>0
      <4> QED
        BY <1>G, <2>8, <4>1 DEF StagedFresh
    <3> QED
      BY <1>G, <2>5, <3>1, <3>2 DEF StagedFresh
  <2>12. \A n \in Fitted : Paired(final[n], entries[n])
    BY <1>G, <2>1 DEF Pairing
  <2>13. ~j.prior => entries[Model] = 0
    BY <2>2, <2>4, <2>12, PathFacts DEF Paired
  <2>14. RolledBack(j) = final[Model] /\ Undone(j)
    BY <2>2, <2>4, <2>7, <2>12 DEF RolledBack, Undone
  <2>15. Undone(j)' /\ RolledBack(j)' = final[Model]
    BY <1>V, <2>14 DEF RolledBack, Undone
  <2>16. Pairing'
    <3>1. \A n \in Fitted \ {j.model} : Paired(final[n], j.before[n])
      BY <2>4, <2>12
    <3>2. j.before[j.model] # j.id /\ (~j.prior => j.before[j.model] = 0)
      BY <2>2, <2>4, <2>7, <2>13
    <3> QED
      BY <1>V, <2>5, <2>15, <3>1, <3>2 DEF Pairing
  <2>17. Progress(Job)'
    BY <1>V, <2>2, <2>4, <2>6, <2>7, <2>15 DEF Progress, Doing
  <2> QED
    BY <2>11, <2>16, <2>17 DEF Sound
<1>8. CASE RecoveryFails
  <2>1. holder \in Trainers /\ UNCHANGED <<journals, trained>>
    BY <1>8 DEF RecoveryFails, Doing, ArtifactTypeOK
  <2>2. section'.at = "none" /\ "none" \notin JobPlaces
    BY <1>8 DEF RecoveryFails, Leave, NoSection, JobPlaces, Publishing
  <2>3. \A u \in Trainers : trainer'[u].at = "staged" => trainer'[u] = trainer[u] /\ u # holder
    BY <1>8, <1>TT, <1>R, <2>1 DEF RecoveryFails, Leave
  <2>4. \A u \in Trainers : Awaits(u)' => Awaits(u)
    BY <1>I, <2>3 DEF Awaits
  <2> QED
    BY <1>G, <1>V, <1>E, <2>1, <2>2, <2>3, <2>4, BesideFresh DEF Sound
<1>9. CASE Kill(t)
  <2>1. UNCHANGED <<journals, trained>>
    BY <1>9 DEF Kill
  <2>2. \A u \in Trainers : trainer'[u].at = "staged" => trainer'[u] = trainer[u] /\ u # t
    BY <1>9, <1>TT, <1>R DEF Kill
  <2>3. CASE holder = t
    <3>1. section'.at = "none" /\ "none" \notin JobPlaces
      BY <1>9, <2>3 DEF Kill, NoSection, JobPlaces, Publishing
    <3>2. \A u \in Trainers : Awaits(u)' => Awaits(u)
      BY <1>I, <2>2, <2>3 DEF Awaits
    <3> QED
      BY <1>G, <1>V, <1>E, <2>1, <2>2, <3>1, <3>2, BesideFresh DEF Sound
  <2>4. CASE holder # t
    <3>1. UNCHANGED <<section, holder>>
      BY <1>9, <2>4 DEF Kill
    <3>2. \A u \in Trainers : Awaits(u)' => Awaits(u)
      BY <2>2, <3>1 DEF Awaits, InHand, Job
    <3> QED
      BY <1>G, <1>V, <1>K, <2>1, <2>2, <3>1, <3>2, BesideFresh DEF Sound
  <2> QED
    BY <2>3, <2>4
<1> QED
  BY <1>1, <1>2, <1>3, <1>4, <1>5, <1>6, <1>7, <1>8, <1>9

LEMMA SoundInit == ArtifactInit => LockHeld /\ Sound
<1> SUFFICES ASSUME ArtifactInit PROVE LockHeld /\ Sound
  OBVIOUS
<1>1. section.at = "none" /\ holder = Nobody /\ journals = {} /\ "none" \notin JobPlaces
      /\ "none" \notin {"journal"} \cup Publishing
  BY DEF ArtifactInit, NoSection, JobPlaces, Publishing
<1>2. LockHeld
  BY <1>1 DEF LockHeld
<1>3. \A t \in Trainers : trainer[t].at = "idle"
  BY RestTyped DEF ArtifactInit
<1>4. \A v \in Versions : Fresh(v)
  <2> SUFFICES ASSUME NEW v \in Versions PROVE Fresh(v)
    OBVIOUS
  <2>1. v # 0 /\ VersionAt(Absent) = 0
    BY PathFacts
  <2> QED
    BY <1>1, <2>1 DEF Fresh, ArtifactInit
<1>5. StagedFresh
  BY <1>3, <1>4 DEF StagedFresh, Awaits
<1>6. Pairing
  BY <1>1 DEF Pairing, Paired, ArtifactInit
<1> QED
  BY <1>1, <1>2, <1>5, <1>6 DEF Sound

LEMMA ArtifactStep ==
  ASSUME ArtifactTypeOK, ArtifactInv, [ArtifactNext]_artifactVars
  PROVE  ArtifactTypeOK' /\ ArtifactInv'
<1>L. LockHeld /\ (~late => Sound)
  BY DEF ArtifactInv
<1>1. CASE TearFinal \/ RemoveFinal \/ RestoreBackup \/ RestoreRegistry \/ TearBackup \/ BackupGone
           \/ DropStaged \/ SetAside \/ SwapIn \/ Register \/ Commit \/ PublishFails
  <2>1. OnJob /\ ArtifactTypeOK' /\ LockHeld'
    BY <1>1, <1>L, JobStepLocked
  <2>2. ~late' => ~late
    BY <2>1 DEF OnJob
  <2>3. ASSUME ~late' PROVE Sound'
    <3>1. Sound
      BY <1>L, <2>2, <2>3
    <3> QED
      BY <1>1, <1>L, <2>1, <2>3, <3>1, JobStepSound
  <2> QED
    BY <2>1, <2>3 DEF ArtifactInv
<1>2. ASSUME NEW t \in Trainers, NEW m \in Fitted,
             BeginRun(t, m) \/ Lock(t) \/ Predict(t) \/ Train(t) \/ RecoverNext \/ Unlink
             \/ WriteJournal \/ RecoveryFails \/ Kill(t)
      PROVE  ArtifactTypeOK' /\ ArtifactInv'
  <2>1. ArtifactTypeOK' /\ LockHeld'
    BY <1>2, <1>L, OtherStepLocked
  <2>2. late' = late
    BY <1>2 DEF BeginRun, Lock, Predict, Train, RecoverNext, Unlink, WriteJournal, RecoveryFails,
       Kill, artifactVars, LockedVars
  <2>3. ~late => Sound'
    BY <1>2, <1>L, OtherStepSound
  <2> QED
    BY <2>1, <2>2, <2>3 DEF ArtifactInv
<1>H. holder # Nobody => /\ holder \in Trainers
                         /\ trainer[holder].model \in Fitted
  BY <1>L DEF LockHeld, ArtifactTypeOK
<1>3. CASE RecoverNext \/ Unlink \/ WriteJournal \/ RecoveryFails
  <2>1. holder # Nobody
    BY <1>3 DEF RecoverNext, Unlink, WriteJournal, RecoveryFails, Doing
  <2> QED
    BY <1>2, <1>3, <1>H, <2>1
<1>4. ASSUME NEW t \in Trainers, Lock(t) \/ Predict(t) \/ Train(t) \/ Kill(t)
      PROVE  ArtifactTypeOK' /\ ArtifactInv'
  <2>1. trainer[t].at # "idle"
    BY <1>4 DEF Lock, Predict, Train, Kill
  <2>2. trainer[t].model \in Fitted
    BY <2>1 DEF ArtifactTypeOK
  <2> QED
    BY <1>2, <1>4, <2>2
<1>5. CASE UNCHANGED artifactVars
  <2>1. ArtifactTypeOK'
    BY <1>5 DEF ArtifactTypeOK, artifactVars
  <2>2. LockHeld'
    BY <1>5, <1>L DEF LockHeld, Job, Model, artifactVars
  <2>3. StagedFresh => StagedFresh'
    BY <1>5 DEF StagedFresh, Awaits, InHand, Job, Fresh, artifactVars
  <2>4. Pairing => Pairing'
    BY <1>5 DEF Pairing, Done, Undone, RolledBack, artifactVars
  <2>5. (section.at \in JobPlaces => Progress(Job)) => (section'.at \in JobPlaces => Progress(Job)')
    BY <1>5 DEF Progress, Done, Undone, RolledBack, Doing, Job, artifactVars
  <2>6. late' = late
    BY <1>5 DEF artifactVars
  <2> QED
    BY <1>L, <2>1, <2>2, <2>3, <2>4, <2>5, <2>6 DEF ArtifactInv, Sound
<1>6. CASE \E t \in Trainers, m \in Fitted : BeginRun(t, m)
  BY <1>2, <1>6
<1> QED
  BY <1>1, <1>3, <1>4, <1>5, <1>6 DEF ArtifactNext, RunStep, SectionStep

\* Whatever was interrupted, recovery leaves every registered artifact whole at the version
\* the registry names, and no other artifact; at most one publication is pending
\* (classic_ml/runner.py, publish_artifact and recover_publications). The exception is a
\* rollback begun by an interrupt after the registry was replaced.
THEOREM ArtifactsStayPaired == ArtifactSpec => []ArtifactsPaired
<1>1. ArtifactTypeOK /\ ArtifactInv => ArtifactsPaired
  <2> SUFFICES ASSUME ArtifactTypeOK, ArtifactInv PROVE ArtifactsPaired
    OBVIOUS
  <2>1. journals = {} \/ \E j : journals = {j}
    <3>1. \A j, k \in journals : j = k
      BY DEF ArtifactInv, LockHeld
    <3> QED
      BY <3>1
  <2>2. Cardinality(journals) <= 1
    <3>1. CASE journals = {}
      BY <3>1, FS_EmptySet
    <3>2. CASE \E j : journals = {j}
      BY <3>2, FS_Singleton
    <3> QED
      BY <2>1, <3>1, <3>2
  <2>3. ASSUME ~late, NEW m \in Fitted
        PROVE  Paired(Recovered(m).path, Recovered(m).entry)
    <3> DEFINE pending == {j \in journals : ~Committed(j)}
    <3>P. Pairing
      BY <2>3 DEF ArtifactInv, Sound
    <3>1. CASE pending = {}
      <4>0. Recovered(m).path = final[m] /\ Recovered(m).entry = entries[m]
        BY <3>1 DEF Recovered
      <4>1. CASE journals = {}
        BY <3>P, <4>0, <4>1 DEF Pairing
      <4>2. ASSUME NEW j \in journals PROVE Paired(final[m], entries[m])
        <5>1. Committed(j) /\ j \in Journals
          BY <3>1 DEF ArtifactTypeOK
        <5>2. Done(j)
          BY <3>P, <5>1 DEF Pairing, Committed, Undone
        <5>3. CASE m = j.model
          <6>1. entries[m] = j.id /\ final[m] = j.id
            BY <5>1, <5>2, <5>3 DEF Done, Journals
          <6> QED
            BY <5>1, <6>1, PathFacts DEF Paired, Journals
        <5>4. CASE m # j.model
          BY <3>P, <5>1, <5>2, <5>4 DEF Pairing, Done, Journals
        <5> QED
          BY <5>3, <5>4
      <4> QED
        BY <4>0, <4>1, <4>2
    <3>2. CASE pending # {}
      <4>1. PICK j : journals = {j} /\ pending = {j} /\ j \in Journals /\ ~Committed(j)
        BY <2>1, <3>2 DEF ArtifactTypeOK
      <4>2. (CHOOSE k \in pending : TRUE) = j
        BY <4>1
      <4>3. Undone(j)
        BY <3>P, <4>1, PathFacts DEF Pairing, Committed, Done, Journals
      <4>4. /\ Recovered(m).entry = j.before[m]
            /\ Recovered(m).path = IF m # j.model THEN final[m] ELSE RolledBack(j)
        BY <4>1, <4>2, <3>2 DEF Recovered, RolledBack
      <4>5. CASE m = j.model
        BY <4>3, <4>4, <4>5 DEF Undone
      <4>6. CASE m # j.model
        BY <3>P, <4>1, <4>4, <4>6 DEF Pairing
      <4> QED
        BY <4>5, <4>6
    <3> QED
      BY <3>1, <3>2
  <2> QED
    BY <2>2, <2>3 DEF ArtifactsPaired, Paired
<1>2. ArtifactInit => ArtifactTypeOK /\ ArtifactInv
  BY ArtifactTypeInit, SoundInit DEF ArtifactInv
<1>3. ArtifactTypeOK /\ ArtifactInv /\ [ArtifactNext]_artifactVars => ArtifactTypeOK' /\ ArtifactInv'
  BY ArtifactStep
<1> QED
  BY <1>1, <1>2, <1>3, PTL DEF ArtifactSpec

------------------------------------------------------------------------------
(* ContextServer: what is served was readable, and admission is bounded.    *)

Kinds == {"list", "search", "document", "lineage"}
CallPlaces == {"idle", "admitted", "acquired", "waiting", "responded", "answered"}
WorkPlaces ==
    Steps \cup {"none", "queued", "cancelled", "return", "raise", "released", "erred", "done",
                "failed"}
Answers == {"none", "BUSY", "INTERNAL", "OK", "RESPONSE_LIMIT", "ERROR", "TIMEOUT"}

CallRecord ==
    [at : CallPlaces, kind : Kinds, since : Nat, answer : Answers, chunks : SUBSET Chunks]
WorkRecord ==
    [at : WorkPlaces, left : SUBSET Chunks, chunks : SUBSET Chunks, pending : BOOLEAN]

ServerTypeOK ==
    /\ bounds \in Worlds /\ now \in Nat /\ slots \in Int /\ closed \in BOOLEAN
    /\ times \in Seq(Nat) /\ admitted \in Seq(Nat)
    /\ call \in [Requests -> CallRecord]
    /\ work \in [Requests -> WorkRecord]
    /\ row \in [Chunks -> Status] /\ registry \in Status /\ index \subseteq Chunks
    /\ logged \subseteq Requests
    /\ wasRow \in [Requests -> SUBSET Chunks] /\ wasDoc \in [Requests -> BOOLEAN]

\* How far caller and operation of request r are, and what the operation has seen by then:
\* its answer and its log row come from an operation that ended well, and each place knows
\* which of the two relations was read for the chunks at hand.
ServedAt(r) ==
    /\ call[r].at \in {"idle", "admitted", "acquired"} => work[r].at = "none"
    /\ call[r].at = "waiting" => work[r].at # "none"
    /\ call[r].at \in {"idle", "admitted", "acquired", "waiting"} => call[r].chunks = {}
    /\ call[r].chunks # {} => work[r].at = "done" /\ call[r].chunks = work[r].chunks
    /\ work[r].at \in {"none", "queued", "authorize", "hits", "cancelled"} =>
          work[r].chunks = {} /\ ~work[r].pending
    /\ work[r].at = "hits" => call[r].kind = "search"
    /\ work[r].pending => work[r].at \in {"return", "released", "done"}
    /\ r \in logged => work[r].pending
    /\ work[r].chunks \subseteq wasRow[r]
    /\ work[r].at = "registry" /\ call[r].kind = "search" => work[r].left \subseteq wasRow[r]
    /\ work[r].at = "chunks" /\ call[r].kind = "document" => wasDoc[r]
    /\ work[r].at \in {"links", "return", "released", "done"} /\ work[r].chunks # {}
          /\ call[r].kind # "list" => wasDoc[r]
    /\ r \in Running => /\ {c \in Chunks : row[c] = "granted"} \subseteq wasRow[r]
                        /\ registry = "granted" => wasDoc[r]
Served == \A r \in Requests : ServedAt(r)

Permits == IsFiniteSet(Holding) /\ slots + Cardinality(Holding) = MaxConcurrency

\* The times of the limiter are the last of those that were admitted, and all that went
\* before them are a minute old.
LastAdmitted(ts) ==
    /\ Len(ts) <= Len(admitted) /\ Len(ts) <= MaxPerMinute
    /\ \A i \in 1..Len(ts) : ts[i] = admitted[Len(admitted) - Len(ts) + i]
    /\ \A i \in 1..(Len(admitted) - Len(ts)) : admitted[i] <= now - Minute
Spaced ==
    \A i, j \in 1..Len(admitted) :
       i <= j /\ admitted[j] - admitted[i] < Minute => j - i < MaxPerMinute
Limited ==
    /\ LastAdmitted(times) /\ Spaced
    /\ \A i \in 1..Len(admitted) : admitted[i] <= now

ServerInv == ServerTypeOK /\ Served /\ Permits /\ Limited

\* The least of a set of numbers below a bound.
LEMMA LeastUpTo ==
  ASSUME NEW n \in Nat, NEW set \in SUBSET (0..n), set # {}
  PROVE  \E x \in set : \A y \in set : x <= y
<1> DEFINE Below(x) == {y \in set : y < x}
           Belows == {Below(x) : x \in set}
<1>1. \A x \in set : Below(x) \in SUBSET (0..n) /\ IsFiniteSet(Below(x))
  <2>1. IsFiniteSet(0..n)
    BY FS_Interval
  <2> QED
    BY <2>1, FS_Subset
<1>2. Belows \subseteq FiniteSubsetsOf(0..n) /\ Belows # {}
  BY <1>1 DEF FiniteSubsetsOf
<1>3. PICK b \in Belows : \A c \in Belows : <<c, b>> \notin StrictSubsetOrdering(0..n)
  <2> HIDE DEF Belows
  <2> QED
    BY <1>2, FS_StrictSubsetOrderingWellFounded, WFMin
<1>4. PICK x \in set : b = Below(x)
  BY <1>3
<1>5. ASSUME NEW y \in set, y < x PROVE FALSE
  <2>1. \A z \in set : z \in Int
    OBVIOUS
  <2>2. y \in Below(x) \ Below(y) /\ Below(y) \subseteq Below(x)
    <3>1. \A z \in set : z < y => z < x
      BY <1>5, <2>1
    <3>2. ~(y < y)
      BY <2>1
    <3> QED
      BY <1>5, <3>1, <3>2
  <2>3. Below(y) \in Belows /\ Below(x) \in SUBSET (0..n)
    BY <1>1
  <2>4. <<Below(y), Below(x)>> \in StrictSubsetOrdering(0..n)
    BY <1>1, <2>2, <2>3 DEF StrictSubsetOrdering
  <2> QED
    BY <1>3, <1>4, <2>3, <2>4
<1> QED
  BY <1>5

\* What is left of the times: a tail, before which everything is a minute old.
LEMMA RecentFacts ==
  ASSUME NEW ts \in Seq(Nat), now \in Nat
  PROVE  \E k \in 0..Len(ts) :
            /\ Recent(ts) \in Seq(Nat) /\ Len(Recent(ts)) = Len(ts) - k
            /\ \A i \in 1..(Len(ts) - k) : Recent(ts)[i] = ts[k + i]
            /\ \A i \in 1..k : ts[i] <= now - Minute
<1> DEFINE stops == {n \in 0..Len(ts) : n = Len(ts) \/ ts[n + 1] > now - Minute}
           popped == CHOOSE n \in stops : \A m \in stops : n <= m
<1>0. Len(ts) \in Nat /\ now \in Int /\ Minute \in Int /\ \A i \in 1..Len(ts) : ts[i] \in Nat
  BY ServerAssumption, LenProperties, ElementOfSeq
<1>1. Len(ts) \in stops /\ stops \subseteq 0..Len(ts)
  BY <1>0
<1>2. popped \in stops /\ \A m \in stops : popped <= m
  <2>1. \E n \in stops : \A m \in stops : n <= m
    <3> HIDE DEF stops
    <3> QED
      BY <1>0, <1>1, LeastUpTo
  <2> HIDE DEF stops
  <2> QED
    BY <2>1
<1>3. \A i \in 1..popped : ts[i] <= now - Minute
  <2> SUFFICES ASSUME NEW i \in 1..popped PROVE ts[i] <= now - Minute
    OBVIOUS
  <2>1. popped \in Int /\ i \in Int /\ i - 1 < popped /\ i - 1 \in 0..Len(ts) /\ i \in 1..Len(ts)
    BY <1>0, <1>1, <1>2
  <2>2. i - 1 \notin stops
    <3> HIDE DEF stops, popped
    <3> QED
      BY <1>0, <1>1, <1>2, <2>1
  <2>3. (i - 1) + 1 = i
    BY <2>1
  <2>4. ~(ts[i] > now - Minute)
    BY <2>1, <2>2, <2>3
  <2> QED
    BY <1>0, <2>1, <2>4
<1>4. Recent(ts) = SubSeq(ts, popped + 1, Len(ts))
  BY DEF Recent
<1>5. popped \in 0..Len(ts)
  BY <1>1, <1>2
<1> HIDE DEF popped
<1>6. \A i \in (popped + 1)..Len(ts) : ts[i] \in Nat
  BY <1>0, <1>5
<1>7. popped + 1 \in Int /\ Len(ts) \in Int
  BY <1>0, <1>5
<1>8. /\ Recent(ts) \in Seq(Nat)
      /\ Len(Recent(ts)) = IF popped + 1 <= Len(ts) THEN Len(ts) - (popped + 1) + 1 ELSE 0
      /\ \A i \in 1..(Len(ts) - (popped + 1) + 1) : Recent(ts)[i] = ts[(popped + 1) + i - 1]
  BY <1>4, <1>6, <1>7, SubSeqProperties
<1>9. Len(Recent(ts)) = Len(ts) - popped
  BY <1>0, <1>5, <1>8
<1>10. \A i \in 1..(Len(ts) - popped) : Recent(ts)[i] = ts[popped + i]
  <2> SUFFICES ASSUME NEW i \in 1..(Len(ts) - popped) PROVE Recent(ts)[i] = ts[popped + i]
    OBVIOUS
  <2>1. (popped + 1) + i - 1 = popped + i /\ i \in 1..(Len(ts) - (popped + 1) + 1)
    BY <1>0, <1>5
  <2> QED
    BY <1>8, <2>1
<1> QED
  BY <1>3, <1>5, <1>8, <1>9, <1>10

LEMMA ServerTypeInit == ServerInit => ServerTypeOK
<1> SUFFICES ASSUME ServerInit PROVE ServerTypeOK
  OBVIOUS
<1>1. NoCall \in CallRecord
  BY DEF NoCall, CallRecord, CallPlaces, Kinds, Answers
<1>2. NoOp \in WorkRecord
  BY DEF NoOp, WorkRecord, WorkPlaces
<1>3. <<>> \in Seq(Nat) /\ MaxConcurrency \in Int /\ 0 \in Nat
  BY ServerAssumption, EmptySeq
<1> QED
  BY <1>1, <1>2, <1>3 DEF ServerInit, ServerTypeOK, Status

\* The updates of a caller's record, and of an operation's.
LEMMA CallUpdates ==
  ASSUME ServerTypeOK, NEW r \in Requests, NEW place \in CallPlaces
  PROVE  /\ [call EXCEPT ![r].at = place] \in [Requests -> CallRecord]
         /\ [call EXCEPT ![r].at = place, ![r].since = now] \in [Requests -> CallRecord]
         /\ \A answer \in Answers, chunks \in SUBSET Chunks :
               [call EXCEPT ![r].at = place, ![r].answer = answer, ![r].chunks = chunks]
                  \in [Requests -> CallRecord]
         /\ \A c \in CallRecord : [call EXCEPT ![r] = c] \in [Requests -> CallRecord]
<1>1. call \in [Requests -> CallRecord] /\ now \in Nat
  BY DEF ServerTypeOK
<1> QED
  BY <1>1 DEF CallRecord

LEMMA WorkUpdates ==
  ASSUME ServerTypeOK, NEW r \in Requests, NEW place \in WorkPlaces
  PROVE  /\ [work EXCEPT ![r].at = place] \in [Requests -> WorkRecord]
         /\ \A pending \in BOOLEAN :
               [work EXCEPT ![r].at = place, ![r].pending = pending] \in [Requests -> WorkRecord]
         /\ \A left \in SUBSET Chunks :
               /\ [work EXCEPT ![r].left = left] \in [Requests -> WorkRecord]
               /\ [work EXCEPT ![r].at = place, ![r].left = left] \in [Requests -> WorkRecord]
         /\ \A chunks \in SUBSET Chunks :
               [work EXCEPT ![r].at = place, ![r].chunks = chunks] \in [Requests -> WorkRecord]
         /\ \A left, chunks \in SUBSET Chunks :
               [work EXCEPT ![r].at = place, ![r].left = left, ![r].chunks = chunks]
                  \in [Requests -> WorkRecord]
<1>1. work \in [Requests -> WorkRecord]
  BY DEF ServerTypeOK
<1> QED
  BY <1>1 DEF WorkRecord

LEMMA AnsweredTyped ==
  ASSUME ServerTypeOK, NEW r \in Requests, NEW answer \in Answers, NEW chunks \in SUBSET Chunks,
         Answered(r, answer, chunks)
  PROVE  call' \in [Requests -> CallRecord]
BY CallUpdates DEF Answered, CallPlaces

LEMMA MoveTyped ==
  ASSUME ServerTypeOK, NEW r \in Requests, NEW place \in WorkPlaces, Move(r, place)
  PROVE  work' \in [Requests -> WorkRecord]
BY WorkUpdates DEF Move

LEMMA CallerStepTyped ==
  ASSUME ServerTypeOK, NEW r \in Requests, CallerStep(r)
  PROVE  ServerTypeOK'
<1> USE DEF limits, world, seen
<1>W. work[r] \in WorkRecord
  BY DEF ServerTypeOK, WorkRecord
<1>C. {"acquired", "waiting", "answered"} \subseteq CallPlaces
  BY DEF CallPlaces
<1>Q. "queued" \in WorkPlaces
  BY DEF WorkPlaces
<1>A. {"BUSY", "INTERNAL", "OK", "RESPONSE_LIMIT", "ERROR", "TIMEOUT"} \subseteq Answers
  BY DEF Answers
<1>1. CASE Arrive(r)
  <2>1. PICK kind \in bounds.kinds :
          \/ /\ times' = Recent(times) /\ admitted' = admitted
             /\ call' = [call EXCEPT ![r] = [NoCall EXCEPT !.at = "responded", !.kind = kind,
                                                           !.answer = "BUSY"]]
          \/ /\ times' = Append(Recent(times), now) /\ admitted' = Append(admitted, now)
             /\ call' = [call EXCEPT ![r] = [NoCall EXCEPT !.at = "admitted", !.kind = kind]]
    BY <1>1 DEF Arrive
  <2>2. kind \in Kinds
    BY ServerAssumption DEF ServerTypeOK, Kinds
  <2>3. Recent(times) \in Seq(Nat)
    BY RecentFacts DEF ServerTypeOK
  <2>4. times' \in Seq(Nat) /\ admitted' \in Seq(Nat)
    <3>1. now \in Nat /\ admitted \in Seq(Nat)
      BY DEF ServerTypeOK
    <3>2. Append(Recent(times), now) \in Seq(Nat)
      BY <2>3, <3>1, AppendProperties
    <3>3. Append(admitted, now) \in Seq(Nat)
      BY <3>1, AppendProperties
    <3> QED
      BY <2>1, <2>3, <3>1, <3>2, <3>3
  <2>5. \A place \in CallPlaces, answer \in Answers :
           [NoCall EXCEPT !.at = place, !.kind = kind, !.answer = answer] \in CallRecord
    BY <2>2 DEF NoCall, CallRecord
  <2>6. /\ [NoCall EXCEPT !.at = "admitted", !.kind = kind]
             = [NoCall EXCEPT !.at = "admitted", !.kind = kind, !.answer = "none"]
        /\ "admitted" \in CallPlaces /\ "responded" \in CallPlaces
        /\ "none" \in Answers /\ "BUSY" \in Answers
    <3>1. NoCall.answer = "none" /\ NoCall = [NoCall EXCEPT !.answer = "none"]
      BY DEF NoCall
    <3> QED
      BY <3>1 DEF NoCall, CallPlaces, Answers
  <2>7. call' \in [Requests -> CallRecord]
    <3>1. PICK c \in CallRecord : call' = [call EXCEPT ![r] = c]
      <4>1. [NoCall EXCEPT !.at = "responded", !.kind = kind, !.answer = "BUSY"] \in CallRecord
        BY <2>5, <2>6
      <4>2. [NoCall EXCEPT !.at = "admitted", !.kind = kind] \in CallRecord
        BY <2>5, <2>6
      <4> QED
        BY <2>1, <4>1, <4>2
    <3> QED
      BY <2>6, <3>1, CallUpdates
  <2> QED
    BY <1>1, <2>4, <2>7 DEF Arrive, ServerTypeOK
<1>2. CASE Acquire(r)
  <2>1. call' \in [Requests -> CallRecord]
    <3>1. CASE Answered(r, "BUSY", {})
      BY <1>A, <3>1, AnsweredTyped
    <3>2. CASE call' = [call EXCEPT ![r].at = "acquired"]
      BY <1>C, <3>2, CallUpdates
    <3> QED
      BY <1>2, <3>1, <3>2 DEF Acquire
  <2> QED
    BY <1>2, <2>1 DEF Acquire, ServerTypeOK
<1>3. CASE Submit(r)
  <2>1. CASE closed
    <3>1. call' \in [Requests -> CallRecord]
      BY <1>3, <1>A, <2>1, AnsweredTyped DEF Submit
    <3> QED
      BY <1>3, <2>1, <3>1 DEF Submit, ServerTypeOK
  <2>2. CASE ~closed
    <3>0. /\ call' = [call EXCEPT ![r].at = "waiting", ![r].since = now]
          /\ work' = [work EXCEPT ![r].at = "queued"]
      BY <1>3, <2>2 DEF Submit
    <3>1. call' \in [Requests -> CallRecord]
      BY <1>C, <3>0, CallUpdates
    <3>2. work' \in [Requests -> WorkRecord]
      BY <1>Q, <3>0, WorkUpdates
    <3> QED
      BY <1>3, <2>2, <3>1, <3>2 DEF Submit, ServerTypeOK
  <2> QED
    BY <2>1, <2>2
<1>4. CASE Collect(r)
  <2>1. PICK answer \in Answers, chunks \in SUBSET Chunks : Answered(r, answer, chunks)
    <3>1. work[r].chunks \in SUBSET Chunks /\ {} \in SUBSET Chunks
      BY <1>W DEF WorkRecord
    <3>2. \/ Answered(r, "OK", work[r].chunks) \/ Answered(r, "RESPONSE_LIMIT", {})
          \/ Answered(r, "ERROR", {}) \/ Answered(r, "INTERNAL", {})
      BY <1>4 DEF Collect
    <3> QED
      BY <1>A, <3>1, <3>2
  <2>2. call' \in [Requests -> CallRecord]
    BY <2>1, AnsweredTyped
  <2> QED
    BY <1>4, <2>2 DEF Collect, ServerTypeOK
<1>5. CASE TimeOut(r)
  <2>1. call' \in [Requests -> CallRecord]
    BY <1>5, <1>A, AnsweredTyped DEF TimeOut
  <2> QED
    BY <1>5, <2>1 DEF TimeOut, ServerTypeOK
<1>6. CASE ReturnAnswer(r) \/ AppendLog(r)
  <2>1. /\ call' = [call EXCEPT ![r].at = "answered"]
        /\ logged' \in {logged, logged \cup {r}}
        /\ UNCHANGED <<limits, work, world, seen>>
    BY <1>6 DEF ReturnAnswer, AppendLog
  <2>2. call' \in [Requests -> CallRecord]
    BY <1>C, <2>1, CallUpdates
  <2> QED
    BY <2>1, <2>2 DEF ServerTypeOK
<1> QED
  BY <1>1, <1>2, <1>3, <1>4, <1>5, <1>6 DEF CallerStep

LEMMA OperationStepTyped ==
  ASSUME ServerTypeOK, NEW r \in Requests, OperationStep(r)
  PROVE  ServerTypeOK'
<1> USE DEF limits, world, seen, OpOnly
<1> DEFINE Works == [Requests -> WorkRecord]
<1>S. Steps \cup {"return", "raise", "released", "erred", "done", "failed"} \subseteq WorkPlaces
  BY DEF WorkPlaces
<1>P. /\ {"authorize", "hits", "registry", "chunks", "links"} \subseteq WorkPlaces
      /\ \A set \in SUBSET Chunks : Found(set) \in SUBSET Chunks /\ Readable(set) \in SUBSET Chunks
  BY <1>S DEF Found, Readable, Steps
<1>W. work[r].left \in SUBSET Chunks /\ work[r].chunks \in SUBSET Chunks
  BY DEF ServerTypeOK, WorkRecord
<1>1. CASE Start(r)
  <2>1. work' \in Works
    BY <1>1, <1>P, MoveTyped DEF Start
  <2>2. wasRow' \in [Requests -> SUBSET Chunks] /\ wasDoc' \in [Requests -> BOOLEAN]
    BY <1>1 DEF Start, ServerTypeOK
  <2> QED
    BY <1>1, <2>1, <2>2 DEF Start, ServerTypeOK
<1>2. ASSUME OpOnly, work' \in Works PROVE ServerTypeOK'
  BY <1>2 DEF ServerTypeOK
<1>3. CASE AuthorizeResource(r)
  <2>1. call[r].kind \in Kinds
    BY DEF ServerTypeOK, CallRecord
  <2>2. work' \in Works
    BY <1>3, <1>P, <1>S, <2>1, MoveTyped DEF AuthorizeResource, Kinds
  <2> QED
    BY <1>2, <1>3, <2>2 DEF AuthorizeResource
<1>4. CASE SearchHits(r)
  <2>1. PICK hits \in SUBSET index : work' = [work EXCEPT ![r].at = "chunks", ![r].left = hits]
    BY <1>4 DEF SearchHits
  <2>2. work' \in Works
    BY <1>P, <2>1, WorkUpdates DEF ServerTypeOK
  <2> QED
    BY <1>2, <1>4, <2>2 DEF SearchHits
<1>5. CASE ReadHitRows(r)
  <2>1. work' \in Works
    BY <1>5, <1>P, <1>W, WorkUpdates DEF ReadHitRows
  <2> QED
    BY <1>2, <1>5, <2>1 DEF ReadHitRows
<1>6. CASE ReadDocumentRows(r)
  <2>1. CASE Move(r, "raise")
    BY <1>2, <1>6, <1>S, <2>1, MoveTyped DEF ReadDocumentRows
  <2>2. CASE work' = [work EXCEPT ![r].at = "links", ![r].chunks = Readable(Chunks)]
    <3>1. work' \in Works
      BY <1>P, <2>2, WorkUpdates
    <3> QED
      BY <1>2, <1>6, <3>1 DEF ReadDocumentRows
  <2> QED
    BY <1>6, <2>1, <2>2 DEF ReadDocumentRows
<1>7. CASE ReadReferenceRows(r)
  <2>1. work' \in Works
    BY <1>7, <1>P, WorkUpdates DEF ReadReferenceRows
  <2> QED
    BY <1>2, <1>7, <2>1 DEF ReadReferenceRows
<1>8. CASE ReadNamedRows(r)
  <2>1. work' \in Works
    BY <1>8, <1>P, <1>S, <1>W, WorkUpdates DEF ReadNamedRows
  <2> QED
    BY <1>2, <1>8, <2>1 DEF ReadNamedRows
<1>9. CASE ReadHitDocuments(r)
  <2>1. work' \in Works
    BY <1>9, <1>P, <1>W, WorkUpdates DEF ReadHitDocuments
  <2> QED
    BY <1>2, <1>9, <2>1 DEF ReadHitDocuments
<1>10. CASE ReadDocumentRegistry(r)
  <2>1. work' \in Works
    BY <1>10, <1>P, <1>S, MoveTyped DEF ReadDocumentRegistry
  <2> QED
    BY <1>2, <1>10, <2>1 DEF ReadDocumentRegistry
<1>11. CASE ReadReferenceDocument(r)
  <2> DEFINE newest == CHOOSE c \in work[r].left : \A d \in work[r].left : d <= c
  <2>1. CASE Move(r, "raise")
    BY <1>2, <1>11, <1>S, <2>1, MoveTyped DEF ReadReferenceDocument
  <2>2. CASE newest \in work[r].chunks
             /\ work' = [work EXCEPT ![r].at = "links", ![r].chunks = {newest}]
    <3> HIDE DEF newest
    <3>1. {newest} \in SUBSET Chunks
      BY <1>W, <2>2
    <3>2. work' \in Works
      BY <1>P, <2>2, <3>1, WorkUpdates
    <3> QED
      BY <1>2, <1>11, <3>2 DEF ReadReferenceDocument
  <2>3. CASE work' = [work EXCEPT ![r].left = @ \ {newest}]
    <3> HIDE DEF newest
    <3>1. work' \in Works
      BY <1>P, <1>W, <2>3, WorkUpdates
    <3> QED
      BY <1>2, <1>11, <3>1 DEF ReadReferenceDocument
  <2> QED
    BY <1>11, <2>1, <2>2, <2>3 DEF ReadReferenceDocument
<1>12. CASE ReadLinks(r)
  <2>1. work' \in Works
    BY <1>12, <1>S, WorkUpdates DEF ReadLinks
  <2> QED
    BY <1>2, <1>12, <2>1 DEF ReadLinks
<1>13. CASE ReadAllLinks(r)
  <2>1. PICK place \in WorkPlaces : work' = [work EXCEPT ![r].at = place, ![r].left = Linked]
    <3>1. {"return", "chunks"} \subseteq WorkPlaces
      BY <1>P, <1>S
    <3>2. work' = [work EXCEPT ![r].at = IF Linked = {} THEN "return" ELSE "chunks",
                               ![r].left = Linked]
      BY <1>13 DEF ReadAllLinks
    <3> QED
      BY ONLY <3>1, <3>2
  <2>2. Linked \in SUBSET Chunks
    BY ServerAssumption
  <2>3. work' \in Works
    BY <2>1, <2>2, WorkUpdates
  <2> QED
    BY <1>2, <1>13, <2>3 DEF ReadAllLinks
<1>14. CASE OperationFails(r)
  BY <1>2, <1>14, <1>S, MoveTyped DEF OperationFails
<1>15. CASE Release(r)
  <2>1. work' \in Works
    BY <1>15, <1>S, MoveTyped DEF Release
  <2> QED
    BY <1>15, <2>1 DEF Release, ServerTypeOK
<1>16. CASE ResolveCall(r)
  BY <1>2, <1>16, <1>S, MoveTyped DEF ResolveCall
<1> QED
  BY <1>1, <1>3, <1>4, <1>5, <1>6, <1>7, <1>8, <1>9, <1>10, <1>11, <1>12, <1>13, <1>14, <1>15,
     <1>16 DEF OperationStep

LEMMA ServerTypeStep == ServerTypeOK /\ [ServerNext]_serverVars => ServerTypeOK'
<1> SUFFICES ASSUME ServerTypeOK, [ServerNext]_serverVars PROVE ServerTypeOK'
  OBVIOUS
<1> USE DEF limits, world, seen
<1>1. ASSUME NEW r \in Requests, CallerStep(r) \/ OperationStep(r) PROVE ServerTypeOK'
  BY <1>1, CallerStepTyped, OperationStepTyped
<1>2. CASE Close
  <2>1. "cancelled" \in WorkPlaces
    BY DEF WorkPlaces
  <2>2. work' \in [Requests -> WorkRecord]
    BY <1>2, <2>1 DEF Close, ServerTypeOK, WorkRecord
  <2> QED
    BY <1>2, <2>2 DEF Close, ServerTypeOK
<1>3. CASE Tick
  BY <1>3 DEF Tick, ServerTypeOK
<1>4. CASE Change
  <2>1. row' \in [Chunks -> Status] /\ registry' \in Status
    BY <1>4 DEF Change, ServerTypeOK
  <2>2. wasRow' \in [Requests -> SUBSET Chunks] /\ wasDoc' \in [Requests -> BOOLEAN]
    BY <1>4 DEF Change, Observe, ServerTypeOK
  <2> QED
    BY <1>4, <2>1, <2>2 DEF Change, ServerTypeOK
<1>5. CASE Publish
  BY <1>5 DEF Publish, ServerTypeOK
<1>6. CASE UNCHANGED serverVars
  BY <1>6 DEF serverVars, ServerTypeOK
<1> QED
  BY <1>1, <1>2, <1>3, <1>4, <1>5, <1>6 DEF ServerNext

LEMMA ServedInit == ServerInit => Served
BY DEF ServerInit, Served, ServedAt, NoCall, NoOp, Running, Steps

\* What the step of another request leaves alone.
LEMMA ServedUntouched ==
  ASSUME NEW q \in Requests, ServedAt(q), call'[q] = call[q], work'[q] = work[q],
         (q \in logged') = (q \in logged), wasRow'[q] = wasRow[q], wasDoc'[q] = wasDoc[q],
         row' = row, registry' = registry
  PROVE  ServedAt(q)'
<1>1. (q \in Running') = (q \in Running)
  BY DEF Running
<1> QED
  BY <1>1 DEF ServedAt

\* The caller's side: an answer that names chunks is taken from an operation that is done.
LEMMA ServedByCaller ==
  ASSUME ServerTypeOK, NEW r \in Requests, ServedAt(r), CallerStep(r)
  PROVE  ServedAt(r)'
<1> USE DEF limits, world, seen
<1>T. /\ call \in [Requests -> CallRecord] /\ work \in [Requests -> WorkRecord]
      /\ call[r] \in CallRecord /\ work[r] \in WorkRecord
  BY DEF ServerTypeOK
<1>0. /\ row' = row /\ registry' = registry /\ wasRow' = wasRow /\ wasDoc' = wasDoc
  BY DEF CallerStep, Arrive, Acquire, Submit, Collect, TimeOut, ReturnAnswer, AppendLog
<1>R. ASSUME work' = work PROVE (r \in Running') = (r \in Running)
  BY <1>R DEF Running
<1>A. ASSUME NEW answer, NEW chunks, Answered(r, answer, chunks)
      PROVE  call'[r].at = "responded" /\ call'[r].chunks = chunks
                /\ call'[r].kind = call[r].kind
  BY <1>A, <1>T DEF Answered, CallRecord
<1>E. ASSUME call'[r].at \in {"responded", "answered"}, call'[r].kind = call[r].kind,
             call'[r].chunks = call[r].chunks \/ call'[r].chunks = {}
                \/ (work[r].at = "done" /\ call'[r].chunks = work[r].chunks),
             work' = work, r \in logged' => r \in logged \/ work[r].pending
      PROVE  ServedAt(r)'
  BY <1>0, <1>E, <1>R DEF ServedAt
<1>1. CASE Arrive(r)
  <2>1. PICK kind \in bounds.kinds :
          \/ call' = [call EXCEPT ![r] = [NoCall EXCEPT !.at = "responded", !.kind = kind,
                                                        !.answer = "BUSY"]]
          \/ call' = [call EXCEPT ![r] = [NoCall EXCEPT !.at = "admitted", !.kind = kind]]
    BY <1>1 DEF Arrive
  <2>2. call'[r].at \in {"responded", "admitted"} /\ call'[r].chunks = {}
    BY <1>T, <2>1 DEF NoCall
  <2>3. work' = work /\ logged' = logged /\ work[r].at = "none"
    BY <1>1 DEF Arrive, ServedAt
  <2> QED
    BY <1>0, <1>R, <2>2, <2>3 DEF ServedAt
<1>2. CASE Acquire(r)
  <2>1. work' = work /\ logged' = logged /\ call[r].at = "admitted"
    BY <1>2 DEF Acquire
  <2>2. CASE Answered(r, "BUSY", {})
    BY <1>A, <1>E, <2>1, <2>2
  <2>3. CASE call' = [call EXCEPT ![r].at = "acquired"]
    <3>1. call'[r].at = "acquired" /\ call'[r].chunks = call[r].chunks
            /\ call'[r].kind = call[r].kind
      BY <1>T, <2>3 DEF CallRecord
    <3> QED
      BY <1>0, <1>R, <2>1, <3>1 DEF ServedAt
  <2> QED
    BY <1>2, <2>2, <2>3 DEF Acquire
<1>3. CASE Submit(r)
  <2>1. CASE closed
    <3>1. Answered(r, "INTERNAL", {}) /\ work' = work /\ logged' = logged
      BY <1>3, <2>1 DEF Submit
    <3> QED
      BY <1>A, <1>E, <3>1
  <2>2. CASE ~closed
    <3>1. /\ call' = [call EXCEPT ![r].at = "waiting", ![r].since = now]
          /\ work' = [work EXCEPT ![r].at = "queued"] /\ logged' = logged
          /\ call[r].at = "acquired"
      BY <1>3, <2>2 DEF Submit
    <3>2. /\ call'[r].at = "waiting" /\ call'[r].chunks = call[r].chunks
          /\ call'[r].kind = call[r].kind
          /\ work'[r].at = "queued" /\ work'[r].chunks = work[r].chunks
          /\ work'[r].pending = work[r].pending
      BY <1>T, <3>1 DEF CallRecord, WorkRecord
    <3>3. r \notin Running'
      BY <3>2 DEF Running, Steps
    <3> QED
      BY <1>0, <3>1, <3>2, <3>3 DEF ServedAt
  <2> QED
    BY <2>1, <2>2
<1>4. CASE Collect(r)
  <2>1. work' = work /\ logged' = logged
    BY <1>4 DEF Collect
  <2>2. \/ work[r].at = "done" /\ Answered(r, "OK", work[r].chunks)
        \/ \E answer \in Answers : Answered(r, answer, {})
    BY <1>4 DEF Collect, Answers
  <2> QED
    BY <1>A, <1>E, <2>1, <2>2
<1>5. CASE TimeOut(r)
  <2>1. work' = work /\ logged' = logged /\ Answered(r, "TIMEOUT", {})
    BY <1>5 DEF TimeOut
  <2> QED
    BY <1>A, <1>E, <2>1
<1>6. CASE ReturnAnswer(r) \/ AppendLog(r)
  <2>1. /\ call' = [call EXCEPT ![r].at = "answered"] /\ work' = work
        /\ (work[r].pending /\ logged' = logged \cup {r}) \/ logged' = logged
    BY <1>6 DEF ReturnAnswer, AppendLog, InAppend
  <2>2. call'[r].at = "answered" /\ call'[r].chunks = call[r].chunks
          /\ call'[r].kind = call[r].kind
    BY <1>T, <2>1 DEF CallRecord
  <2> QED
    BY <1>E, <2>1, <2>2
<1> QED
  BY <1>1, <1>2, <1>3, <1>4, <1>5, <1>6 DEF CallerStep

\* The operation's side: it keeps the chunks whose rows it may read at that moment, and the
\* document's answer with them.
LEMMA ServedByOperation ==
  ASSUME ServerTypeOK, NEW r \in Requests, ServedAt(r), OperationStep(r)
  PROVE  ServedAt(r)'
<1> USE DEF limits, world, seen, OpOnly
<1>T. /\ call \in [Requests -> CallRecord] /\ work \in [Requests -> WorkRecord]
      /\ call[r] \in CallRecord /\ work[r] \in WorkRecord
      /\ wasRow \in [Requests -> SUBSET Chunks] /\ wasDoc \in [Requests -> BOOLEAN]
  BY DEF ServerTypeOK
<1>0. call' = call /\ logged' = logged /\ row' = row /\ registry' = registry
  BY DEF OperationStep, Start, AuthorizeResource, SearchHits, ReadHitRows, ReadDocumentRows,
         ReadReferenceRows, ReadNamedRows, ReadHitDocuments, ReadDocumentRegistry,
         ReadReferenceDocument, ReadLinks, ReadAllLinks, OperationFails, Release, ResolveCall
<1>1. work[r].at \in Steps \cup {"queued", "return", "raise", "released", "erred"}
  BY DEF OperationStep, Start, AuthorizeResource, SearchHits, ReadHitRows, ReadDocumentRows,
         ReadReferenceRows, ReadNamedRows, ReadHitDocuments, ReadDocumentRegistry,
         ReadReferenceDocument, ReadLinks, ReadAllLinks, OperationFails, Release, ResolveCall,
         Steps
\* Nobody has an answer from it yet, and its log row is still to be left.
<1>2. /\ call[r].chunks = {} /\ call[r].at \notin {"idle", "admitted", "acquired"}
  BY <1>1 DEF ServedAt, Steps
<1>M. ASSUME NEW place, Move(r, place)
      PROVE  work'[r].at = place /\ work'[r].left = work[r].left
                /\ work'[r].chunks = work[r].chunks /\ work'[r].pending = work[r].pending
  BY <1>M, <1>T DEF Move, WorkRecord
\* What one read finds readable the operation has seen readable.
<1>3. ASSUME work[r].at # "queued"
      PROVE  /\ \A set \in SUBSET Chunks : Readable(set) \subseteq wasRow[r]
             /\ CanReadDocument => wasDoc[r]
  <2>1. r \in Running
    BY <1>1, <1>3 DEF Running
  <2> QED
    BY <2>1 DEF ServedAt, Readable, Found, CanReadRow, CanReadDocument
<1>4. ASSUME work[r].at \in Steps
      PROVE  ~work[r].pending /\ r \notin logged
  BY <1>4 DEF ServedAt, Steps
\* What a step of a running operation has to keep.
<1>K. ASSUME work[r].at # "queued", wasRow' = wasRow, wasDoc' = wasDoc,
             work'[r].at \notin {"none", "queued", "authorize", "cancelled"},
             work'[r].at = "hits" =>
                work'[r].chunks = {} /\ ~work'[r].pending /\ call[r].kind = "search",
             work'[r].pending => work'[r].at \in {"return", "released", "done"},
             r \in logged => work'[r].pending,
             work'[r].chunks \subseteq wasRow[r],
             work'[r].at = "registry" /\ call[r].kind = "search" => work'[r].left \subseteq wasRow[r],
             work'[r].at = "chunks" /\ call[r].kind = "document" => wasDoc[r],
             work'[r].at \in {"links", "return", "released", "done"} /\ work'[r].chunks # {}
                /\ call[r].kind # "list" => wasDoc[r]
      PROVE  ServedAt(r)'
  <2>1. r \in Running
    BY <1>1, <1>K DEF Running
  <2> QED
    BY <1>0, <1>2, <1>K, <2>1 DEF ServedAt
\* An operation that ends badly shows nothing more.
<1>B. ASSUME Move(r, "raise"), work[r].at \in Steps, wasRow' = wasRow, wasDoc' = wasDoc
      PROVE  ServedAt(r)'
  <2>1. work[r].at # "queued" /\ work[r].chunks \subseteq wasRow[r]
    BY <1>B DEF Steps, ServedAt
  <2> QED
    BY <1>4, <1>B, <1>K, <1>M, <2>1
<1>5. CASE Start(r)
  <2>1. work'[r].at = "authorize" /\ work'[r].chunks = work[r].chunks
          /\ work'[r].pending = work[r].pending /\ work[r].at = "queued"
    BY <1>5, <1>M DEF Start
  <2>2. work'[r].chunks = {} /\ ~work'[r].pending /\ r \notin logged
    BY <2>1 DEF ServedAt
  <2>3. wasRow'[r] = {c \in Chunks : row[c] = "granted"} /\ wasDoc'[r] = (registry = "granted")
    BY <1>5, <1>T DEF Start
  <2> QED
    BY <1>0, <1>2, <2>1, <2>2, <2>3 DEF ServedAt
<1>6. CASE AuthorizeResource(r)
  <2>1. work[r].at = "authorize" /\ wasRow' = wasRow /\ wasDoc' = wasDoc
    BY <1>6 DEF AuthorizeResource
  <2>2. work[r].at \in Steps /\ work[r].chunks = {}
    BY <2>1 DEF Steps, ServedAt
  <2>3. CASE Move(r, "raise")
    BY <1>B, <2>1, <2>2, <2>3
  <2>4. ASSUME NEW place, Move(r, place),
               \/ place = "hits" /\ call[r].kind = "search"
               \/ place = "registry" /\ call[r].kind = "document"
               \/ place = "chunks" /\ call[r].kind = "lineage"
               \/ place = "links"
        PROVE  ServedAt(r)'
    BY <1>4, <1>K, <1>M, <2>1, <2>2, <2>4
  <2>5. call[r].kind \in Kinds
    BY <1>T DEF CallRecord
  <2> QED
    BY <1>6, <2>3, <2>4, <2>5 DEF AuthorizeResource, Kinds
<1>7. CASE SearchHits(r)
  <2>1. PICK hits \in SUBSET index :
          work' = [work EXCEPT ![r].at = "chunks", ![r].left = hits]
    BY <1>7 DEF SearchHits
  <2>2. work[r].at = "hits" /\ wasRow' = wasRow /\ wasDoc' = wasDoc
    BY <1>7 DEF SearchHits
  <2>3. work'[r].at = "chunks" /\ work'[r].chunks = work[r].chunks
          /\ work'[r].pending = work[r].pending
    BY <1>T, <2>1 DEF WorkRecord
  <2> QED
    BY <1>4, <1>K, <2>2, <2>3 DEF ServedAt, Steps
<1>8. CASE ReadHitRows(r)
  <2>1. /\ work' = [work EXCEPT ![r].at = "registry", ![r].left = Readable(work[r].left)]
        /\ work[r].at = "chunks" /\ wasRow' = wasRow /\ wasDoc' = wasDoc
    BY <1>8 DEF ReadHitRows
  <2>2. /\ work'[r].at = "registry" /\ work'[r].chunks = work[r].chunks
        /\ work'[r].pending = work[r].pending /\ work'[r].left = Readable(work[r].left)
    BY <1>T, <2>1 DEF WorkRecord
  <2>3. Readable(work[r].left) \subseteq wasRow[r]
    BY <1>3, <1>T, <2>1 DEF WorkRecord
  <2> QED
    BY <1>4, <1>K, <2>1, <2>2, <2>3 DEF ServedAt, Steps
<1>9. CASE ReadDocumentRows(r)
  <2>1. /\ work[r].at = "chunks" /\ wasRow' = wasRow /\ wasDoc' = wasDoc
        /\ call[r].kind = "document"
    BY <1>9 DEF ReadDocumentRows
  <2>2. CASE Move(r, "raise")
    BY <1>B, <2>1, <2>2 DEF Steps
  <2>3. CASE work' = [work EXCEPT ![r].at = "links", ![r].chunks = Readable(Chunks)]
    <3>1. /\ work'[r].at = "links" /\ work'[r].chunks = Readable(Chunks)
          /\ work'[r].pending = work[r].pending
      BY <1>T, <2>3 DEF WorkRecord
    <3>2. Readable(Chunks) \subseteq wasRow[r] /\ wasDoc[r]
      BY <1>3, <2>1 DEF ServedAt
    <3> QED
      BY <1>4, <1>K, <2>1, <3>1, <3>2 DEF ServedAt, Steps
  <2> QED
    BY <1>9, <2>2, <2>3 DEF ReadDocumentRows
<1>10. CASE ReadReferenceRows(r)
  <2>1. /\ work' = [work EXCEPT ![r].at = "registry", ![r].left = Found(Chunks),
                                ![r].chunks = Readable(Chunks)]
        /\ work[r].at = "chunks" /\ call[r].kind = "lineage"
        /\ wasRow' = wasRow /\ wasDoc' = wasDoc
    BY <1>10 DEF ReadReferenceRows
  <2>2. /\ work'[r].at = "registry" /\ work'[r].chunks = Readable(Chunks)
        /\ work'[r].pending = work[r].pending
    BY <1>T, <2>1 DEF WorkRecord
  <2>3. Readable(Chunks) \subseteq wasRow[r]
    BY <1>3, <2>1
  <2> QED
    BY <1>4, <1>K, <2>1, <2>2, <2>3 DEF Steps
<1>11. CASE ReadNamedRows(r)
  <2>1. /\ work' = [work EXCEPT ![r].at = "return", ![r].chunks = Readable(work[r].left)]
        /\ work[r].at = "chunks" /\ call[r].kind = "list"
        /\ wasRow' = wasRow /\ wasDoc' = wasDoc
    BY <1>11 DEF ReadNamedRows
  <2>2. /\ work'[r].at = "return" /\ work'[r].chunks = Readable(work[r].left)
        /\ work'[r].pending = work[r].pending
    BY <1>T, <2>1 DEF WorkRecord
  <2>3. Readable(work[r].left) \subseteq wasRow[r]
    BY <1>3, <1>T, <2>1 DEF WorkRecord
  <2> QED
    BY <1>4, <1>K, <2>1, <2>2, <2>3 DEF Steps
<1>12. CASE ReadHitDocuments(r)
  <2> DEFINE hits == IF CanReadDocument THEN work[r].left ELSE {}
  <2>1. /\ work' = [work EXCEPT ![r].at = "links", ![r].chunks = hits]
        /\ work[r].at = "registry" /\ call[r].kind = "search"
        /\ wasRow' = wasRow /\ wasDoc' = wasDoc
    BY <1>12 DEF ReadHitDocuments
  <2>2. hits \subseteq wasRow[r] /\ (hits # {} => wasDoc[r])
    BY <1>3, <2>1 DEF ServedAt
  <2> HIDE DEF hits
  <2>3. work'[r].at = "links" /\ work'[r].chunks = hits /\ work'[r].pending = work[r].pending
    BY <1>T, <2>1 DEF WorkRecord
  <2> QED
    BY <1>4, <1>K, <2>1, <2>2, <2>3 DEF Steps
<1>13. CASE ReadDocumentRegistry(r)
  <2>1. /\ Move(r, IF CanReadDocument THEN "chunks" ELSE "raise")
        /\ work[r].at = "registry" /\ wasRow' = wasRow /\ wasDoc' = wasDoc
    BY <1>13 DEF ReadDocumentRegistry
  <2>2. CASE CanReadDocument
    <3>1. Move(r, "chunks") /\ wasDoc[r]
      BY <1>3, <2>1, <2>2
    <3>2. /\ work'[r].at = "chunks" /\ work'[r].chunks = work[r].chunks
          /\ work'[r].pending = work[r].pending
      BY <1>M, <3>1
    <3> QED
      BY <1>4, <1>K, <2>1, <3>1, <3>2 DEF ServedAt, Steps
  <2>3. CASE ~CanReadDocument
    BY <1>B, <2>1, <2>3 DEF Steps
  <2> QED
    BY <2>2, <2>3
<1>14. CASE ReadReferenceDocument(r)
  <2> DEFINE newest == CHOOSE c \in work[r].left : \A d \in work[r].left : d <= c
  <2>1. /\ work[r].at = "registry" /\ call[r].kind = "lineage"
        /\ wasRow' = wasRow /\ wasDoc' = wasDoc
    BY <1>14 DEF ReadReferenceDocument
  <2>2. CASE Move(r, "raise")
    BY <1>B, <2>1, <2>2 DEF Steps
  <2>3. CASE /\ newest \in work[r].chunks /\ CanReadDocument
             /\ work' = [work EXCEPT ![r].at = "links", ![r].chunks = {newest}]
    <3> HIDE DEF newest
    <3>1. work'[r].at = "links" /\ work'[r].chunks = {newest} /\ work'[r].pending = work[r].pending
      BY <1>T, <2>3 DEF WorkRecord
    <3>2. {newest} \subseteq wasRow[r] /\ wasDoc[r]
      BY <1>3, <2>1, <2>3 DEF ServedAt
    <3> QED
      BY <1>4, <1>K, <2>1, <3>1, <3>2 DEF Steps
  <2>4. CASE work' = [work EXCEPT ![r].left = @ \ {newest}]
    <3> HIDE DEF newest
    <3>1. work'[r].at = "registry" /\ work'[r].chunks = work[r].chunks
            /\ work'[r].pending = work[r].pending
      BY <1>T, <2>1, <2>4 DEF WorkRecord
    <3> QED
      BY <1>4, <1>K, <2>1, <3>1 DEF ServedAt, Steps
  <2> QED
    BY <1>14, <2>2, <2>3, <2>4 DEF ReadReferenceDocument
<1>15. CASE ReadLinks(r)
  <2> DEFINE searched == (call[r].kind = "search")
  <2>1. /\ work' = [work EXCEPT ![r].at = "return", ![r].pending = searched]
        /\ work[r].at = "links" /\ wasRow' = wasRow /\ wasDoc' = wasDoc
    BY <1>15 DEF ReadLinks
  <2> HIDE DEF searched
  <2>2. work'[r].at = "return" /\ work'[r].chunks = work[r].chunks
    BY <1>T, <2>1 DEF WorkRecord
  <2> QED
    BY <1>4, <1>K, <2>1, <2>2 DEF ServedAt, Steps
<1>16. CASE ReadAllLinks(r)
  <2>1. /\ \E place \in {"return", "chunks"} :
              work' = [work EXCEPT ![r].at = place, ![r].left = Linked]
        /\ work[r].at = "links" /\ call[r].kind = "list"
        /\ wasRow' = wasRow /\ wasDoc' = wasDoc
    BY <1>16 DEF ReadAllLinks
  <2>2. work'[r].at \in {"return", "chunks"} /\ work'[r].chunks = work[r].chunks
          /\ work'[r].pending = work[r].pending
    BY <1>T, <2>1 DEF WorkRecord
  <2> QED
    BY <1>4, <1>K, <2>1, <2>2 DEF ServedAt, Steps
<1>17. CASE OperationFails(r)
  BY <1>17, <1>B DEF OperationFails, Steps
<1>18. CASE Release(r)
  <2>1. /\ \/ work[r].at = "return" /\ Move(r, "released")
           \/ work[r].at = "raise" /\ Move(r, "erred")
        /\ wasRow' = wasRow /\ wasDoc' = wasDoc
    BY <1>18 DEF Release
  <2> QED
    BY <1>K, <1>M, <2>1 DEF ServedAt
<1>19. CASE ResolveCall(r)
  <2>1. /\ \/ work[r].at = "released" /\ Move(r, "done")
           \/ work[r].at = "erred" /\ Move(r, "failed")
        /\ wasRow' = wasRow /\ wasDoc' = wasDoc
    BY <1>19 DEF ResolveCall
  <2> QED
    BY <1>K, <1>M, <2>1 DEF ServedAt
<1> QED
  BY <1>5, <1>6, <1>7, <1>8, <1>9, <1>10, <1>11, <1>12, <1>13, <1>14, <1>15, <1>16, <1>17,
     <1>18, <1>19 DEF OperationStep

\* The step of one request leaves the others' records alone, but not what runs.
LEMMA OthersUntouched ==
  ASSUME ServerTypeOK, NEW r \in Requests, CallerStep(r) \/ OperationStep(r),
         NEW q \in Requests, q # r
  PROVE  /\ call'[q] = call[q] /\ work'[q] = work[q] /\ (q \in logged') = (q \in logged)
         /\ wasRow'[q] = wasRow[q] /\ wasDoc'[q] = wasDoc[q]
         /\ row' = row /\ registry' = registry
<1> USE DEF limits, world, seen, OpOnly, ServerTypeOK
<1>1. CASE CallerStep(r)
  <2>1. UNCHANGED <<row, registry, wasRow, wasDoc>>
    BY <1>1 DEF CallerStep, Arrive, Acquire, Submit, Collect, TimeOut, ReturnAnswer, AppendLog
  <2>2. call'[q] = call[q]
    BY <1>1 DEF CallerStep, Arrive, Acquire, Submit, Collect, TimeOut, ReturnAnswer, AppendLog, Answered
  <2>3. work'[q] = work[q]
    BY <1>1 DEF CallerStep, Arrive, Acquire, Submit, Collect, TimeOut, ReturnAnswer, AppendLog
  <2>4. (q \in logged') = (q \in logged)
    <3>1. logged' = logged \/ logged' = logged \cup {r}
      BY <1>1 DEF CallerStep, Arrive, Acquire, Submit, Collect, TimeOut, ReturnAnswer, AppendLog
    <3> QED
      BY <3>1
  <2> QED
    BY <2>1, <2>2, <2>3, <2>4
<1>2. CASE OperationStep(r)
  BY <1>2 DEF OperationStep, Start, AuthorizeResource, SearchHits, ReadHitRows, ReadDocumentRows,
         ReadReferenceRows, ReadNamedRows, ReadHitDocuments, ReadDocumentRegistry,
         ReadReferenceDocument, ReadLinks, ReadAllLinks, OperationFails, Release, ResolveCall,
         Move
<1> QED
  BY <1>1, <1>2

LEMMA ServedStep == ServerTypeOK /\ Served /\ [ServerNext]_serverVars => Served'
<1> SUFFICES ASSUME ServerTypeOK, Served, [ServerNext]_serverVars, NEW q \in Requests
             PROVE  ServedAt(q)'
  BY DEF Served
<1> USE DEF limits, world, seen
<1>T. /\ work \in [Requests -> WorkRecord] /\ work[q] \in WorkRecord /\ ServedAt(q)
      /\ wasRow \in [Requests -> SUBSET Chunks] /\ wasDoc \in [Requests -> BOOLEAN]
  BY DEF ServerTypeOK, Served
<1>1. ASSUME NEW r \in Requests, CallerStep(r) \/ OperationStep(r) PROVE ServedAt(q)'
  <2>1. CASE q = r
    BY <1>1, <1>T, <2>1, ServedByCaller, ServedByOperation
  <2>2. CASE q # r
    BY <1>1, <1>T, <2>2, OthersUntouched, ServedUntouched
  <2> QED
    BY <2>1, <2>2
<1>2. CASE Close
  <2>1. CASE work[q].at = "queued"
    <3>1. work'[q] = [work[q] EXCEPT !.at = "cancelled"]
      BY <1>2, <2>1 DEF Close
    <3>2. /\ work'[q].at = "cancelled" /\ work'[q].chunks = work[q].chunks
          /\ work'[q].pending = work[q].pending
      BY <1>T, <3>1 DEF WorkRecord
    <3>3. q \notin Running'
      BY <3>2 DEF Running, Steps
    <3>4. UNCHANGED <<call, logged, wasRow, wasDoc>>
      BY <1>2 DEF Close
    <3> QED
      BY <1>T, <2>1, <3>2, <3>3, <3>4 DEF ServedAt
  <2>2. CASE work[q].at # "queued"
    BY <1>2, <1>T, <2>2, ServedUntouched DEF Close
  <2> QED
    BY <2>1, <2>2
<1>3. CASE Tick
  BY <1>3, <1>T, ServedUntouched DEF Tick
<1>4. CASE Change
  <2>1. /\ call' = call /\ work' = work /\ logged' = logged
        /\ Observe(row', registry')
    BY <1>4 DEF Change
  <2>2. (q \in Running') = (q \in Running)
    BY <2>1 DEF Running
  <2>3. CASE q \in Running
    <3>1. /\ wasRow'[q] = wasRow[q] \cup {c \in Chunks : row'[c] = "granted"}
          /\ wasDoc'[q] = (wasDoc[q] \/ registry' = "granted")
      BY <1>T, <2>1, <2>3 DEF Observe
    <3> QED
      BY <1>T, <2>1, <2>2, <2>3, <3>1 DEF ServedAt
  <2>4. CASE q \notin Running
    <3>1. wasRow'[q] = wasRow[q] /\ wasDoc'[q] = wasDoc[q]
      BY <1>T, <2>1, <2>4 DEF Observe
    <3> QED
      BY <1>T, <2>1, <2>2, <2>4, <3>1 DEF ServedAt
  <2> QED
    BY <2>3, <2>4
<1>5. CASE Publish
  BY <1>5, <1>T, ServedUntouched DEF Publish
<1>6. CASE UNCHANGED serverVars
  BY <1>6, <1>T, ServedUntouched DEF serverVars
<1> QED
  BY <1>1, <1>2, <1>3, <1>4, <1>5, <1>6 DEF ServerNext

\* A permit is taken or handed back by one request at a time.
LEMMA PermitMoves ==
  ASSUME Permits, slots \in Int, NEW r,
         \/ Holding' = Holding /\ slots' = slots
         \/ r \notin Holding /\ Holding' = Holding \cup {r} /\ slots' = slots - 1
         \/ r \in Holding /\ Holding' = Holding \ {r} /\ slots' = slots + 1
  PROVE  Permits'
<1>1. IsFiniteSet(Holding) /\ slots + Cardinality(Holding) = MaxConcurrency
        /\ Cardinality(Holding) \in Nat
  BY FS_CardinalityType DEF Permits
<1>2. CASE Holding' = Holding /\ slots' = slots
  BY <1>1, <1>2 DEF Permits
<1>3. CASE r \notin Holding /\ Holding' = Holding \cup {r} /\ slots' = slots - 1
  <2>1. IsFiniteSet(Holding') /\ Cardinality(Holding') = Cardinality(Holding) + 1
    BY <1>1, <1>3, FS_AddElement
  <2> QED
    BY <1>1, <1>3, <2>1 DEF Permits
<1>4. CASE r \in Holding /\ Holding' = Holding \ {r} /\ slots' = slots + 1
  <2>1. IsFiniteSet(Holding') /\ Cardinality(Holding') = Cardinality(Holding) - 1
    BY <1>1, <1>4, FS_RemoveElement
  <2> QED
    BY <1>1, <1>4, <2>1 DEF Permits
<1> QED
  BY <1>2, <1>3, <1>4

LEMMA PermitsInit == ServerInit => Permits
<1> SUFFICES ASSUME ServerInit PROVE Permits
  OBVIOUS
<1>1. Holding = {}
  BY DEF ServerInit, Holding, NoCall, NoOp, Steps
<1>2. slots = MaxConcurrency /\ MaxConcurrency \in Nat
  BY ServerAssumption DEF ServerInit
<1> QED
  BY <1>1, <1>2, FS_EmptySet DEF Permits

\* Whether request r holds a permit, before and after.
HoldsPermit(r) ==
    \/ call[r].at = "acquired"
    \/ work[r].at \in Steps \cup {"queued", "return", "raise", "cancelled"}

LEMMA PermitsByCaller ==
  ASSUME ServerTypeOK, NEW r \in Requests, ServedAt(r), CallerStep(r)
  PROVE  \/ HoldsPermit(r)' = HoldsPermit(r) /\ slots' = slots
         \/ ~HoldsPermit(r) /\ HoldsPermit(r)' /\ slots' = slots - 1
         \/ HoldsPermit(r) /\ ~HoldsPermit(r)' /\ slots' = slots + 1
<1> USE DEF limits, world, seen
<1>T. /\ call \in [Requests -> CallRecord] /\ work \in [Requests -> WorkRecord]
      /\ call[r] \in CallRecord /\ work[r] \in WorkRecord
  BY DEF ServerTypeOK
<1>A. ASSUME NEW answer, NEW chunks, Answered(r, answer, chunks)
      PROVE  call'[r].at = "responded"
  BY <1>A, <1>T DEF Answered, CallRecord
<1>K. ASSUME slots' = slots, work' = work, call[r].at # "acquired", call'[r].at # "acquired"
      PROVE  HoldsPermit(r)' = HoldsPermit(r) /\ slots' = slots
  BY <1>K DEF HoldsPermit
<1>1. CASE Arrive(r)
  <2>1. PICK kind \in bounds.kinds :
          \/ call' = [call EXCEPT ![r] = [NoCall EXCEPT !.at = "responded", !.kind = kind,
                                                        !.answer = "BUSY"]]
          \/ call' = [call EXCEPT ![r] = [NoCall EXCEPT !.at = "admitted", !.kind = kind]]
    BY <1>1 DEF Arrive
  <2>2. call'[r].at \in {"responded", "admitted"}
    BY <1>T, <2>1 DEF NoCall
  <2> QED
    BY <1>1, <1>K, <2>2 DEF Arrive
<1>2. CASE Acquire(r)
  <2>1. CASE Answered(r, "BUSY", {}) /\ slots' = slots
    BY <1>2, <1>A, <1>K, <2>1 DEF Acquire
  <2>2. CASE slots' = slots - 1 /\ call' = [call EXCEPT ![r].at = "acquired"]
    <3>1. call'[r].at = "acquired" /\ work' = work
      BY <1>2, <1>T, <2>2 DEF Acquire, CallRecord
    <3>2. call[r].at = "admitted" /\ work[r].at = "none"
      BY <1>2 DEF Acquire, ServedAt
    <3> QED
      BY <2>2, <3>1, <3>2 DEF HoldsPermit, Steps
  <2> QED
    BY <1>2, <2>1, <2>2 DEF Acquire
<1>3. CASE Submit(r)
  <2>0. call[r].at = "acquired" /\ work[r].at = "none"
    BY <1>3 DEF Submit, ServedAt
  <2>1. CASE closed
    <3>1. call'[r].at = "responded" /\ slots' = slots + 1 /\ work' = work
      BY <1>3, <1>A, <2>1 DEF Submit
    <3> QED
      BY <2>0, <3>1 DEF HoldsPermit, Steps
  <2>2. CASE ~closed
    <3>1. work' = [work EXCEPT ![r].at = "queued"] /\ slots' = slots
      BY <1>3, <2>2 DEF Submit
    <3>2. work'[r].at = "queued"
      BY <1>T, <3>1 DEF WorkRecord
    <3> QED
      BY <2>0, <3>1, <3>2 DEF HoldsPermit
  <2> QED
    BY <2>1, <2>2
<1>4. CASE Collect(r)
  <2>1. \E answer, chunks : Answered(r, answer, chunks)
    BY <1>4 DEF Collect
  <2> QED
    BY <1>4, <1>A, <1>K, <2>1 DEF Collect
<1>5. CASE TimeOut(r)
  BY <1>5, <1>A, <1>K DEF TimeOut
<1>6. CASE ReturnAnswer(r) \/ AppendLog(r)
  <2>1. /\ call[r].at = "responded" /\ call' = [call EXCEPT ![r].at = "answered"]
        /\ slots' = slots /\ work' = work
    BY <1>6 DEF ReturnAnswer, AppendLog, InAppend
  <2>2. call'[r].at = "answered"
    BY <1>T, <2>1 DEF CallRecord
  <2> QED
    BY <1>K, <2>1, <2>2
<1> QED
  BY <1>1, <1>2, <1>3, <1>4, <1>5, <1>6 DEF CallerStep

LEMMA PermitsByOperation ==
  ASSUME ServerTypeOK, NEW r \in Requests, ServedAt(r), OperationStep(r)
  PROVE  \/ HoldsPermit(r)' = HoldsPermit(r) /\ slots' = slots
         \/ HoldsPermit(r) /\ ~HoldsPermit(r)' /\ slots' = slots + 1
<1> USE DEF limits, world, seen, OpOnly
<1>T. /\ work \in [Requests -> WorkRecord] /\ work[r] \in WorkRecord /\ call' = call
  BY DEF ServerTypeOK, OperationStep, Start, AuthorizeResource, SearchHits, ReadHitRows,
         ReadDocumentRows, ReadReferenceRows, ReadNamedRows, ReadHitDocuments,
         ReadDocumentRegistry, ReadReferenceDocument, ReadLinks, ReadAllLinks, OperationFails,
         Release, ResolveCall
<1>1. CASE Release(r)
  <2>1. \/ work[r].at = "return" /\ work'[r].at = "released"
        \/ work[r].at = "raise" /\ work'[r].at = "erred"
    BY <1>1, <1>T DEF Release, Move, WorkRecord
  <2>2. call[r].at # "acquired"
    BY <2>1 DEF ServedAt
  <2> QED
    BY <1>1, <1>T, <2>1, <2>2 DEF Release, HoldsPermit, Steps
<1>2. CASE ResolveCall(r)
  <2>1. /\ work[r].at \in {"released", "erred"} /\ work'[r].at \in {"done", "failed"}
        /\ slots' = slots
    BY <1>2, <1>T DEF ResolveCall, Move, WorkRecord
  <2> QED
    BY <1>T, <2>1 DEF HoldsPermit, Steps
<1>3. CASE OperationStep(r) /\ ~Release(r) /\ ~ResolveCall(r)
  <2>1. slots' = slots /\ work[r].at \in Steps \cup {"queued"}
    BY <1>3 DEF OperationStep, Start, AuthorizeResource, SearchHits, ReadHitRows,
         ReadDocumentRows, ReadReferenceRows, ReadNamedRows, ReadHitDocuments,
         ReadDocumentRegistry, ReadReferenceDocument, ReadLinks, ReadAllLinks, OperationFails,
         Steps
  <2>2. work'[r].at \in Steps \cup {"return", "raise"}
    <3>1. CASE Start(r)
      BY <1>T, <3>1 DEF Start, Move, WorkRecord, Steps
    <3>2. CASE AuthorizeResource(r)
      <4>1. call[r].kind \in Kinds
        BY DEF ServerTypeOK, CallRecord
      <4> QED
        BY <1>T, <3>2, <4>1 DEF AuthorizeResource, Move, WorkRecord, Steps, Kinds
    <3>3. CASE SearchHits(r)
      BY <1>T, <3>3 DEF SearchHits, WorkRecord, Steps
    <3>4. CASE ReadHitRows(r) \/ ReadReferenceRows(r) \/ ReadNamedRows(r) \/ ReadHitDocuments(r)
      BY <1>T, <3>4 DEF ReadHitRows, ReadReferenceRows, ReadNamedRows, ReadHitDocuments,
         WorkRecord, Steps
    <3>5. CASE ReadDocumentRows(r) \/ ReadDocumentRegistry(r)
      BY <1>T, <3>5 DEF ReadDocumentRows, ReadDocumentRegistry, Move, WorkRecord, Steps
    <3>6. CASE ReadReferenceDocument(r)
      BY <1>T, <3>6 DEF ReadReferenceDocument, Move, WorkRecord, Steps
    <3>7. CASE ReadLinks(r) \/ ReadAllLinks(r)
      BY <1>T, <3>7 DEF ReadLinks, ReadAllLinks, WorkRecord, Steps
    <3>8. CASE OperationFails(r)
      BY <1>T, <3>8 DEF OperationFails, Move, WorkRecord, Steps
    <3> QED
      BY <1>3, <3>1, <3>2, <3>3, <3>4, <3>5, <3>6, <3>7, <3>8 DEF OperationStep
  <2> QED
    BY <2>1, <2>2 DEF HoldsPermit
<1> QED
  BY <1>1, <1>2, <1>3

LEMMA PermitsStep ==
  ServerTypeOK /\ Served /\ Permits /\ [ServerNext]_serverVars => Permits'
<1> SUFFICES ASSUME ServerTypeOK, Served, Permits, [ServerNext]_serverVars PROVE Permits'
  OBVIOUS
<1> USE DEF limits, world, seen
<1>T. slots \in Int /\ work \in [Requests -> WorkRecord]
  BY DEF ServerTypeOK
<1>H. Holding = {q \in Requests : HoldsPermit(q)} /\ Holding' = {q \in Requests : HoldsPermit(q)'}
  BY DEF Holding, HoldsPermit
<1>S. ASSUME slots' = slots, \A q \in Requests : HoldsPermit(q)' = HoldsPermit(q)
      PROVE  Permits'
  <2>1. Holding' = Holding
    BY <1>H, <1>S
  <2> QED
    BY <1>S, <1>T, <2>1, PermitMoves
<1>1. ASSUME NEW r \in Requests, CallerStep(r) \/ OperationStep(r) PROVE Permits'
  <2>1. \A q \in Requests \ {r} : HoldsPermit(q)' = HoldsPermit(q)
    <3> SUFFICES ASSUME NEW q \in Requests, q # r PROVE HoldsPermit(q)' = HoldsPermit(q)
      OBVIOUS
    <3>1. call'[q] = call[q] /\ work'[q] = work[q]
      BY <1>1, OthersUntouched
    <3> QED
      BY <3>1 DEF HoldsPermit
  <2>2. \/ HoldsPermit(r)' = HoldsPermit(r) /\ slots' = slots
        \/ ~HoldsPermit(r) /\ HoldsPermit(r)' /\ slots' = slots - 1
        \/ HoldsPermit(r) /\ ~HoldsPermit(r)' /\ slots' = slots + 1
    BY <1>1, PermitsByCaller, PermitsByOperation DEF Served
  <2>3. CASE HoldsPermit(r)' = HoldsPermit(r) /\ slots' = slots
    BY <1>S, <2>1, <2>3
  <2>4. CASE ~HoldsPermit(r) /\ HoldsPermit(r)' /\ slots' = slots - 1
    <3>1. r \notin Holding /\ Holding' = Holding \cup {r}
      BY <1>H, <2>1, <2>4
    <3> QED
      BY <1>T, <2>4, <3>1, PermitMoves
  <2>5. CASE HoldsPermit(r) /\ ~HoldsPermit(r)' /\ slots' = slots + 1
    <3>1. r \in Holding /\ Holding' = Holding \ {r}
      BY <1>H, <2>1, <2>5
    <3> QED
      BY <1>T, <2>5, <3>1, PermitMoves
  <2> QED
    BY <2>2, <2>3, <2>4, <2>5
<1>2. CASE Close
  <2> SUFFICES ASSUME NEW q \in Requests PROVE HoldsPermit(q)' = HoldsPermit(q)
    BY <1>2, <1>S DEF Close
  <2>1. call' = call
    BY <1>2 DEF Close
  <2>2. CASE work[q].at = "queued"
    <3>1. work'[q].at = "cancelled"
      BY <1>2, <1>T, <2>2 DEF Close, WorkRecord
    <3> QED
      BY <2>2, <3>1 DEF HoldsPermit
  <2>3. CASE work[q].at # "queued"
    <3>1. work'[q] = work[q]
      BY <1>2, <2>3 DEF Close
    <3> QED
      BY <2>1, <3>1 DEF HoldsPermit
  <2> QED
    BY <2>2, <2>3
<1>3. CASE Tick
  BY <1>3, <1>S DEF Tick, HoldsPermit
<1>4. CASE Change
  BY <1>4, <1>S DEF Change, HoldsPermit
<1>5. CASE Publish
  BY <1>5, <1>S DEF Publish, HoldsPermit
<1>6. CASE UNCHANGED serverVars
  BY <1>6, <1>S DEF serverVars, HoldsPermit
<1> QED
  BY <1>1, <1>2, <1>3, <1>4, <1>5, <1>6 DEF ServerNext

\* What the check of the limiter leaves are again the last that were admitted.
LEMMA RecentAreLast ==
  ASSUME ServerTypeOK, Limited
  PROVE  Recent(times) \in Seq(Nat) /\ LastAdmitted(Recent(times))
<1>0. /\ now \in Nat /\ times \in Seq(Nat) /\ Len(times) \in Nat /\ Len(admitted) \in Nat
      /\ LastAdmitted(times) /\ MaxPerMinute \in Nat /\ Minute \in Nat
  BY ServerAssumption, LenProperties DEF ServerTypeOK, Limited
<1>1. PICK k \in 0..Len(times) :
         /\ Recent(times) \in Seq(Nat) /\ Len(Recent(times)) = Len(times) - k
         /\ \A i \in 1..(Len(times) - k) : Recent(times)[i] = times[k + i]
         /\ \A i \in 1..k : times[i] <= now - Minute
  BY <1>0, RecentFacts
<1> DEFINE rest == Recent(times)
<1> HIDE DEF rest
<1>2. \A i \in 1..Len(rest) : rest[i] = admitted[Len(admitted) - Len(rest) + i]
  <2> SUFFICES ASSUME NEW i \in 1..Len(rest)
               PROVE  rest[i] = admitted[Len(admitted) - Len(rest) + i]
    OBVIOUS
  <2>1. rest[i] = times[k + i] /\ k + i \in 1..Len(times)
    BY <1>0, <1>1 DEF rest
  <2>2. Len(admitted) - Len(times) + (k + i) = Len(admitted) - Len(rest) + i
    BY <1>0, <1>1 DEF rest
  <2> QED
    BY <1>0, <2>1, <2>2 DEF LastAdmitted
<1>3. \A i \in 1..(Len(admitted) - Len(rest)) : admitted[i] <= now - Minute
  <2> SUFFICES ASSUME NEW i \in 1..(Len(admitted) - Len(rest)) PROVE admitted[i] <= now - Minute
    OBVIOUS
  <2>1. CASE i <= Len(admitted) - Len(times)
    BY <1>0, <2>1 DEF LastAdmitted
  <2>2. CASE i > Len(admitted) - Len(times)
    <3> DEFINE j == i - (Len(admitted) - Len(times))
    <3>1. j \in 1..k /\ j \in 1..Len(times) /\ Len(admitted) - Len(times) + j = i
      BY <1>0, <1>1, <2>2 DEF rest
    <3>2. times[j] = admitted[i]
      BY <1>0, <3>1 DEF LastAdmitted
    <3> QED
      BY <1>1, <3>1, <3>2
  <2> QED
    BY <1>0, <2>1, <2>2
<1>4. Len(rest) <= Len(admitted) /\ Len(rest) <= MaxPerMinute
  BY <1>0, <1>1 DEF LastAdmitted, rest
<1> QED
  BY <1>1, <1>2, <1>3, <1>4 DEF LastAdmitted, rest

LEMMA LimitedInit == ServerInit => Limited
<1> SUFFICES ASSUME ServerInit PROVE Limited
  OBVIOUS
<1>1. Len(times) = 0 /\ Len(admitted) = 0 /\ MaxPerMinute \in Nat
  BY ServerAssumption, EmptySeq DEF ServerInit
<1> QED
  BY <1>1 DEF Limited, LastAdmitted, Spaced

LEMMA LimitedStep == ServerTypeOK /\ Limited /\ [ServerNext]_serverVars => Limited'
<1> SUFFICES ASSUME ServerTypeOK, Limited, [ServerNext]_serverVars PROVE Limited'
  OBVIOUS
<1> USE DEF limits, world, seen, OpOnly
<1>0. /\ now \in Nat /\ times \in Seq(Nat) /\ admitted \in Seq(Nat)
      /\ Len(times) \in Nat /\ Len(admitted) \in Nat
      /\ MaxPerMinute \in Nat \ {0} /\ Minute \in Nat \ {0}
      /\ \A i \in 1..Len(admitted) : admitted[i] \in Nat
  BY ServerAssumption, LenProperties, ElementOfSeq DEF ServerTypeOK
<1>1. ASSUME NEW r \in Requests, Arrive(r) PROVE Limited'
  <2>1. Recent(times) \in Seq(Nat) /\ LastAdmitted(Recent(times)) /\ now' = now
    BY <1>1, RecentAreLast DEF Arrive
  <2>2. CASE times' = Recent(times) /\ admitted' = admitted
    BY <2>1, <2>2 DEF Limited, LastAdmitted, Spaced
  <2>3. CASE /\ Len(Recent(times)) < MaxPerMinute
             /\ times' = Append(Recent(times), now) /\ admitted' = Append(admitted, now)
    <3> DEFINE rest == Recent(times)
    <3> HIDE DEF rest
    <3>1. /\ Len(rest) \in Nat /\ Len(times') = Len(rest) + 1
          /\ \A i \in 1..Len(rest) : times'[i] = rest[i]
          /\ times'[Len(rest) + 1] = now
      BY <1>0, <2>1, <2>3, LenProperties, AppendProperties DEF rest
    <3>2. /\ Len(admitted') = Len(admitted) + 1
          /\ \A i \in 1..Len(admitted) : admitted'[i] = admitted[i]
          /\ admitted'[Len(admitted) + 1] = now
      BY <1>0, <2>3, AppendProperties
    <3>3. /\ Len(rest) <= Len(admitted) /\ Len(rest) < MaxPerMinute
          /\ \A i \in 1..Len(rest) : rest[i] = admitted[Len(admitted) - Len(rest) + i]
          /\ \A i \in 1..(Len(admitted) - Len(rest)) : admitted[i] <= now - Minute
      BY <2>1, <2>3 DEF LastAdmitted, rest
    <3>4. \A i \in 1..Len(times') : times'[i] = admitted'[Len(admitted') - Len(times') + i]
      <4> SUFFICES ASSUME NEW i \in 1..Len(times')
                   PROVE  times'[i] = admitted'[Len(admitted') - Len(times') + i]
        OBVIOUS
      <4>0. /\ i \in 1..(Len(rest) + 1)
            /\ Len(admitted') - Len(times') + i = Len(admitted) - Len(rest) + i
        BY <1>0, <3>1, <3>2
      <4>1. CASE i = Len(rest) + 1
        <5>1. Len(admitted) - Len(rest) + i = Len(admitted) + 1
          BY <1>0, <3>1, <4>1
        <5> QED
          BY <3>1, <3>2, <4>0, <4>1, <5>1
      <4>2. CASE i \in 1..Len(rest)
        <5>1. Len(admitted) - Len(rest) + i \in 1..Len(admitted)
          BY <1>0, <3>1, <3>3, <4>2
        <5> QED
          BY <3>1, <3>2, <3>3, <4>0, <4>2, <5>1
      <4> QED
        BY <3>1, <4>0, <4>1, <4>2
    <3>5. \A i \in 1..(Len(admitted') - Len(times')) : admitted'[i] <= now' - Minute
      <4> SUFFICES ASSUME NEW i \in 1..(Len(admitted) - Len(rest))
                   PROVE  admitted'[i] <= now - Minute
        BY <1>0, <2>1, <3>1, <3>2
      <4>1. i \in 1..Len(admitted)
        BY <1>0, <3>1
      <4> QED
        BY <3>2, <3>3, <4>1
    <3>6. \A i \in 1..Len(admitted') : admitted'[i] <= now'
      <4> SUFFICES ASSUME NEW i \in 1..(Len(admitted) + 1) PROVE admitted'[i] <= now
        BY <2>1, <3>2
      <4>1. CASE i = Len(admitted) + 1
        BY <1>0, <3>2, <4>1
      <4>2. CASE i \in 1..Len(admitted)
        BY <3>2, <4>2 DEF Limited
      <4> QED
        BY <1>0, <4>1, <4>2
    <3>7. Spaced'
      <4> SUFFICES ASSUME NEW i \in 1..(Len(admitted) + 1), NEW j \in 1..(Len(admitted) + 1),
                          i <= j, admitted'[j] - admitted'[i] < Minute
                   PROVE  j - i < MaxPerMinute
        BY <3>2 DEF Spaced
      <4>1. CASE j \in 1..Len(admitted)
        <5>1. i \in 1..Len(admitted)
          BY <1>0, <4>1
        <5> QED
          BY <3>2, <4>1, <5>1 DEF Limited, Spaced
      <4>2. CASE j = Len(admitted) + 1 /\ i = Len(admitted) + 1
        BY <1>0, <4>2
      <4>3. CASE j = Len(admitted) + 1 /\ i \in 1..Len(admitted)
        <5>1. now - admitted[i] < Minute
          BY <3>2, <4>3
        <5>2. i \notin 1..(Len(admitted) - Len(rest))
          BY <1>0, <3>3, <4>3, <5>1
        <5>3. i > Len(admitted) - Len(rest)
          BY <1>0, <3>1, <4>3, <5>2
        <5> QED
          BY <1>0, <3>1, <3>3, <4>3, <5>3
      <4>4. \/ j \in 1..Len(admitted)
            \/ j = Len(admitted) + 1 /\ i = Len(admitted) + 1
            \/ j = Len(admitted) + 1 /\ i \in 1..Len(admitted)
        <5>1. i = Len(admitted) + 1 \/ i \in 1..Len(admitted)
          BY <1>0
        <5>2. j = Len(admitted) + 1 \/ j \in 1..Len(admitted)
          BY <1>0
        <5> QED
          BY <5>1, <5>2
      <4> QED
        BY <4>1, <4>2, <4>3, <4>4
    <3>8. Len(times') <= Len(admitted') /\ Len(times') <= MaxPerMinute
      BY <1>0, <3>1, <3>2, <3>3
    <3> QED
      BY <3>4, <3>5, <3>6, <3>7, <3>8 DEF Limited, LastAdmitted
  <2>4. Len(Recent(times)) \in Nat
    BY <2>1, LenProperties
  <2> QED
    BY <1>0, <1>1, <2>2, <2>3, <2>4 DEF Arrive
<1>2. CASE Tick
  <2>1. times' = times /\ admitted' = admitted /\ now' = now + 1
    BY <1>2 DEF Tick
  <2>2. \A t \in Nat : (t <= now => t <= now + 1) /\ (t <= now - Minute => t <= (now + 1) - Minute)
    BY <1>0
  <2>3. \A i \in 1..(Len(admitted) - Len(times)) : i \in 1..Len(admitted)
    BY <1>0
  <2>4. Spaced'
    BY <2>1 DEF Limited, Spaced
  <2>5. \A i \in 1..Len(admitted') : admitted'[i] <= now'
    <3> SUFFICES ASSUME NEW i \in 1..Len(admitted) PROVE admitted[i] <= now + 1
      BY <2>1
    <3>1. admitted[i] <= now /\ admitted[i] \in Nat
      BY <1>0 DEF Limited
    <3> QED
      BY <2>2, <3>1
  <2>6. LastAdmitted(times)'
    <3>1. Len(admitted') - Len(times') = Len(admitted) - Len(times)
      BY ONLY <2>1, Zenon
    <3>2. now' - Minute = (now + 1) - Minute
      BY ONLY <2>1, Zenon
    <3>3. LastAdmitted(times)
      BY DEF Limited
    <3>4. \A i \in 1..(Len(admitted) - Len(times)) :
             admitted[i] <= now - Minute => admitted[i] <= (now + 1) - Minute
      BY <1>0, <2>2, <2>3
    <3>5. /\ Len(times) <= Len(admitted) /\ Len(times) <= MaxPerMinute
          /\ \A i \in 1..Len(times) : times[i] = admitted[Len(admitted) - Len(times) + i]
      BY <3>3 DEF LastAdmitted
    <3>6. \A i \in 1..(Len(admitted) - Len(times)) : admitted[i] <= (now + 1) - Minute
      BY <3>3, <3>4 DEF LastAdmitted
    <3>7. /\ Len(times') <= Len(admitted') /\ Len(times') <= MaxPerMinute
          /\ \A i \in 1..Len(times') : times'[i] = admitted'[Len(admitted') - Len(times') + i]
      BY ONLY <2>1, <3>5
    <3>8. \A i \in 1..(Len(admitted') - Len(times')) : admitted'[i] <= now' - Minute
      BY ONLY <2>1, <3>1, <3>2, <3>6
    <3> QED
      BY ONLY <3>7, <3>8 DEF LastAdmitted
  <2> QED
    BY <2>4, <2>5, <2>6 DEF Limited
<1>3. ASSUME UNCHANGED <<times, admitted, now>> PROVE Limited'
  BY <1>3 DEF Limited, LastAdmitted, Spaced
<1>4. ASSUME NEW r \in Requests, CallerStep(r) PROVE Limited'
  <2>1. Arrive(r) \/ UNCHANGED <<times, admitted, now>>
    BY <1>4 DEF CallerStep, Acquire, Submit, Collect, TimeOut, ReturnAnswer, AppendLog
  <2> QED
    BY <1>1, <1>3, <2>1
<1>5. ASSUME NEW r \in Requests, OperationStep(r) PROVE Limited'
  BY <1>3, <1>5 DEF OperationStep, Start, AuthorizeResource, SearchHits, ReadHitRows,
         ReadDocumentRows, ReadReferenceRows, ReadNamedRows, ReadHitDocuments,
         ReadDocumentRegistry, ReadReferenceDocument, ReadLinks, ReadAllLinks, OperationFails,
         Release, ResolveCall
<1>6. CASE Close \/ Change \/ Publish \/ UNCHANGED serverVars
  BY <1>3, <1>6 DEF Close, Change, Publish, serverVars
<1> QED
  BY <1>2, <1>4, <1>5, <1>6 DEF ServerNext

LEMMA ServerInvSound == ServerInv => ServerSound
<1> SUFFICES ASSUME ServerInv PROVE ServerSound
  OBVIOUS
<1>1. ServedWasReadable
  <2> SUFFICES ASSUME NEW r \in Requests, Disclosed(r) # {}
               PROVE  /\ Disclosed(r) \subseteq wasRow[r]
                      /\ call[r].kind # "list" => wasDoc[r]
    BY DEF ServedWasReadable
  <2>1. ServedAt(r)
    BY DEF ServerInv, Served
  <2>2. Disclosed(r) \subseteq work[r].chunks
    BY <2>1 DEF Disclosed, ServedAt
  <2>3. work[r].at \in {"return", "released", "done"}
    BY <2>1 DEF Disclosed, ServedAt
  <2> QED
    BY <2>1, <2>2, <2>3 DEF ServedAt
<1>2. AdmissionBounded
  <2>1. DOMAIN admitted = 1..Len(admitted)
    BY LenProperties DEF ServerInv, ServerTypeOK
  <2> QED
    BY <2>1 DEF AdmissionBounded, ServerInv, Permits, Limited, Spaced
<1> QED
  BY <1>1, <1>2 DEF ServerSound

\* The context server answers and logs only chunks whose row, and whose document, were
\* readable while the operation that read them ran, whatever is revoked meanwhile and
\* however stale the index is; every permit is free or held by one call, and no minute
\* lets more calls in than the limit (mcp_server/service.py:156-197, 454-478, 556-572,
\* 638-645).
THEOREM ServerStaysSound == ServerSpec => []ServerSound
<1>1. ServerInit => ServerInv
  BY ServerTypeInit, ServedInit, PermitsInit, LimitedInit DEF ServerInv
<1>2. ServerInv /\ [ServerNext]_serverVars => ServerInv'
  BY ServerTypeStep, ServedStep, PermitsStep, LimitedStep DEF ServerInv
<1> QED
  BY <1>1, <1>2, ServerInvSound, PTL DEF ServerSpec

------------------------------------------------------------------------------
(* SearchEvolution: what answers is what the configuration describes.       *)

Descriptors == {Descriptor(c) : c \in Configs}
AnyDescriptor == Descriptors \cup {NoDescriptor}
Columns == UNION {Declared(c) : c \in Configs}
Legacies == {LegacyFingerprint(c) : c \in Configs}
Places == {"idle", "verify", "create", "widen", "restamp", "validate", "write"}

EvolutionTypeOK ==
    /\ config \in Configs
    /\ collection \in [columns : SUBSET Columns, stamp : AnyDescriptor,
                       legacy : Legacies \cup {<<>>},
                       rows : [Records -> AnyDescriptor] \cup {<<>>}]
    /\ recorded \in [Records -> AnyDescriptor] /\ ready \in AnyDescriptor
    /\ publisher \in [at : Places, spec : Configs, refused : BOOLEAN]

\* A collection of the first contract is what some configuration made of it.
OfFirstContract ==
    \E c \in Configs :
       /\ collection.legacy = LegacyFingerprint(c) /\ collection.columns = Declared(c)
       /\ collection.rows = [r \in Records |-> Descriptor(c)]

\* Definitions only grow: what is recorded, what is written and the stamp follow each other.
Growing(r) ==
    /\ collection.rows[r] # NoDescriptor => Compatible(collection.rows[r], collection.stamp)
    /\ recorded[r] # NoDescriptor =>
          collection.rows[r] # NoDescriptor /\ Compatible(recorded[r], collection.rows[r])

CollectionOK ==
    /\ ~Exists(collection) => collection = NoCollection
    /\ collection.stamp = NoDescriptor => recorded = [r \in Records |-> NoDescriptor]
    /\ Exists(collection) => collection.rows \in [Records -> AnyDescriptor]
    /\ Exists(collection) /\ collection.stamp = NoDescriptor => OfFirstContract
    /\ collection.stamp # NoDescriptor =>
          Projected(collection.stamp) \subseteq ColumnNames(collection.columns) /\ \A r \in Records : Growing(r)
    /\ ready # NoDescriptor =>
          /\ collection.stamp = ready /\ ColumnNames(collection.columns) = Projected(ready)
          /\ \A r \in Records : recorded[r] = ready

\* What the publisher has found or done by then.
PublisherOK ==
    LET spec == publisher.spec current == Descriptor(spec)
    IN  /\ ~At("idle") => spec = config /\ ready = NoDescriptor /\ ~publisher.refused
        /\ At("create") => ~Exists(collection)
        /\ At("widen") => collection.stamp # NoDescriptor /\ Compatible(collection.stamp, current)
        /\ At("restamp") =>
              /\ Exists(collection) /\ Projected(spec) \subseteq ColumnNames(collection.columns)
              /\ IF collection.stamp = NoDescriptor THEN collection.legacy = LegacyFingerprint(spec)
                 ELSE Compatible(collection.stamp, current)
        /\ At("validate") => collection.stamp = current
        /\ At("write") => collection.stamp = current /\ collection.columns = Declared(spec)

RefusedRightly ==
    publisher.refused =>
       \/ ~Extends(collection.stamp, Descriptor(config))
       \/ config.policy = "fail"
       \/ Retyped
       \/ ForeverRefused

EvolutionInv == EvolutionTypeOK /\ CollectionOK /\ PublisherOK /\ RefusedRightly

\* The relation of definitions: an order up to the order of the display fields, and the one
\* the change table means.
LEMMA CompatibleOrder ==
  ASSUME NEW d \in Descriptors, NEW e \in Descriptors, NEW f \in Descriptors
  PROVE  /\ Compatible(d, d)
         /\ Compatible(d, e) /\ Compatible(e, f) => Compatible(d, f)
         /\ Compatible(d, e) /\ Compatible(e, d) => SameRow(d, e)
         /\ Compatible(d, e) => Projected(d) \subseteq Projected(e)
         /\ Compatible(d, e) <=> Extends(d, e)
<1> USE DEF Compatible, AttributesCompatible, ProjectionCompatible
<1>1. Compatible(d, d)
  OBVIOUS
<1>2. Compatible(d, e) /\ Compatible(e, f) => Compatible(d, f)
  OBVIOUS
<1>3. Compatible(d, e) /\ Compatible(e, d) => SameRow(d, e)
  <2> SUFFICES ASSUME Compatible(d, e), Compatible(e, d) PROVE SameRow(d, e)
    OBVIOUS
  <2>1. \A x \in Descriptors : x.attributes = [n \in DOMAIN x.attributes |-> x.attributes[n]]
    <3> SUFFICES ASSUME NEW x \in Descriptors
                 PROVE  x.attributes = [n \in DOMAIN x.attributes |-> x.attributes[n]]
      OBVIOUS
    <3>1. PICK c \in Configs : x = Descriptor(c)
      BY DEF Descriptors
    <3>2. x.attributes = c.attributes
      BY <3>1 DEF Descriptor
    <3> QED
      BY <3>2, EvolutionAssumption
  <2>2. DOMAIN d.attributes = DOMAIN e.attributes
    OBVIOUS
  <2>3. [n \in DOMAIN d.attributes |-> d.attributes[n]]
           = [n \in DOMAIN e.attributes |-> e.attributes[n]]
    BY <2>2
  <2>4. d.attributes = e.attributes
    BY <2>1, <2>3
  <2> QED
    BY <2>4 DEF SameRow
<1>4. Compatible(d, e) => Projected(d) \subseteq Projected(e)
  BY DEF Projected
<1>5. Compatible(d, e) <=> Extends(d, e)
  BY DEF Extends
<1> QED
  BY <1>1, <1>2, <1>3, <1>4, <1>5

\* A column that is declared has the name of its field.
LEMMA DeclaredNames ==
  ASSUME NEW c
  PROVE  /\ \A field \in Projected(c) :
               <<field, c.types[field]>> \in Declared(c) /\ <<field, c.types[field]>>[1] = field
         /\ \A column \in Declared(c) : column[1] \in Projected(c)
BY DEF Declared

\* The descriptor of a configuration, and what else is the same when it is.
LEMMA DescriptorFacts ==
  ASSUME NEW c \in Configs
  PROVE  /\ Descriptor(c) \in Descriptors /\ Descriptor(c) # NoDescriptor
         /\ Projected(Descriptor(c)) = Projected(c) /\ Projected(c) # {}
         /\ Declared(c) \subseteq Columns /\ ColumnNames(Declared(c)) = Projected(c) /\ Declared(c) # {}
         /\ \A o \in Configs : LegacyFingerprint(o) = LegacyFingerprint(c) =>
               Descriptor(o) = Descriptor(c) /\ Projected(o) = Projected(c)
<1>1. Descriptor(c) \in Descriptors
  BY DEF Descriptors
<1>2. Descriptor(c) # NoDescriptor
  <2>1. Descriptor(c).store # NoDescriptor.store
    BY EvolutionAssumption DEF Descriptor, NoDescriptor
  <2> QED
    BY <2>1
<1>3. Projected(Descriptor(c)) = Projected(c) /\ "id" \in Projected(c)
  BY DEF Projected, Descriptor
<1>4. Declared(c) \subseteq Columns /\ Declared(c) # {}
  BY <1>3 DEF Declared, Columns
<1>5. ColumnNames(Declared(c)) = Projected(c)
  <2>1. \A field \in Projected(c) : field \in ColumnNames(Declared(c))
    BY DeclaredNames DEF ColumnNames
  <2> QED
    BY <2>1, DeclaredNames DEF ColumnNames
<1>6. ASSUME NEW o \in Configs, LegacyFingerprint(o) = LegacyFingerprint(c)
      PROVE  Descriptor(o) = Descriptor(c) /\ Projected(o) = Projected(c)
  <2>1. o.store = c.store /\ o.attributes = c.attributes /\ o.display = c.display
    BY <1>6 DEF LegacyFingerprint
  <2> QED
    BY <2>1 DEF Descriptor, Projected
<1> QED
  BY <1>1, <1>2, <1>3, <1>4, <1>5, <1>6

LEMMA EvolutionInitial == EvolutionInit => EvolutionInv
<1> SUFFICES ASSUME EvolutionInit PROVE EvolutionInv
  OBVIOUS
<1>1. Idle \in [at : Places, spec : Configs, refused : BOOLEAN] /\ Idle.at = "idle"
        /\ Idle.refused = FALSE
  <2>1. (CHOOSE c \in Configs : TRUE) \in Configs
    BY DEF EvolutionInit
  <2> QED
    BY <2>1 DEF Idle, Places
<1>2. RefusedRightly /\ PublisherOK
  BY <1>1 DEF EvolutionInit, RefusedRightly, PublisherOK, At
<1>3. CASE collection = NoCollection
  <2> QED
    BY <1>1, <1>2, <1>3 DEF EvolutionInit, EvolutionInv, EvolutionTypeOK, CollectionOK,
       NoCollection, Exists, AnyDescriptor
<1>4. ASSUME NEW old \in Configs,
             collection = [columns |-> Declared(old), stamp |-> NoDescriptor,
                           legacy |-> LegacyFingerprint(old),
                           rows |-> [r \in Records |-> Descriptor(old)]]
      PROVE  EvolutionInv
  <2>1. /\ Descriptor(old) \in AnyDescriptor /\ LegacyFingerprint(old) \in Legacies
        /\ Declared(old) \subseteq Columns /\ Declared(old) # {}
    BY DescriptorFacts DEF AnyDescriptor, Legacies
  <2>2. EvolutionTypeOK
    BY <1>1, <1>4, <2>1 DEF EvolutionInit, EvolutionTypeOK, AnyDescriptor
  <2>3. CollectionOK
    BY <1>4, <2>1 DEF EvolutionInit, CollectionOK, Exists, OfFirstContract
  <2> QED
    BY <1>2, <2>2, <2>3 DEF EvolutionInv
<1> QED
  BY <1>3, <1>4 DEF EvolutionInit

\* A step that only moves a publisher which has refused nothing.
LEMMA PublisherMoves ==
  ASSUME EvolutionInv, UNCHANGED <<config, collection, recorded, ready>>,
         publisher' \in [at : Places, spec : Configs, refused : BOOLEAN], ~publisher'.refused,
         PublisherOK'
  PROVE  EvolutionInv'
<1>1. EvolutionTypeOK'
  BY DEF EvolutionInv, EvolutionTypeOK
<1>2. CollectionOK'
  BY DEF EvolutionInv, CollectionOK, OfFirstContract, Growing, Exists
<1>3. RefusedRightly'
  BY DEF RefusedRightly
<1> QED
  BY <1>1, <1>2, <1>3 DEF EvolutionInv

\* A publisher that gives up: nothing stays but the refusal.
LEMMA RefusalRight ==
  ASSUME EvolutionInv, ~At("idle"), Refuse,
         \/ ~Extends(collection.stamp, Descriptor(config))
         \/ config.policy = "fail"
         \/ Retyped
         \/ ForeverRefused
  PROVE  EvolutionInv'
<1>1. /\ publisher'.at = "idle" /\ publisher' \in [at : Places, spec : Configs, refused : BOOLEAN]
      /\ UNCHANGED <<config, collection, recorded, ready>>
  BY DEF Refuse, EvolutionInv, EvolutionTypeOK, Places
<1>2. EvolutionTypeOK' /\ CollectionOK'
  BY <1>1 DEF EvolutionInv, EvolutionTypeOK, CollectionOK, OfFirstContract, Growing, Exists
<1>3. PublisherOK'
  BY <1>1 DEF PublisherOK, At
<1>4. RefusedRightly'
  BY <1>1 DEF RefusedRightly, Retyped, ForeverRefused
<1> QED
  BY <1>2, <1>3, <1>4 DEF EvolutionInv

LEMMA VerifyKeeps == EvolutionInv /\ Verify => EvolutionInv'
<1> SUFFICES ASSUME EvolutionInv, Verify PROVE EvolutionInv'
  OBVIOUS
<1> DEFINE spec == publisher.spec  current == Descriptor(spec)
<1>0. /\ At("verify") /\ publisher \in [at : Places, spec : Configs, refused : BOOLEAN]
      /\ spec = config /\ spec \in Configs /\ ready = NoDescriptor /\ ~publisher.refused
      /\ collection.stamp \in AnyDescriptor
  BY DEF Verify, EvolutionInv, EvolutionTypeOK, PublisherOK, At
<1>1. current \in Descriptors /\ current # NoDescriptor /\ Projected(current) = Projected(spec)
  BY <1>0, DescriptorFacts
<1>2. ASSUME NEW place \in Places, Goto(place), UNCHANGED <<config, collection, recorded, ready>>,
             place = "create" => ~Exists(collection),
             place = "widen" => collection.stamp # NoDescriptor /\ Compatible(collection.stamp, current),
             place = "restamp" =>
                /\ Exists(collection) /\ Projected(spec) \subseteq ColumnNames(collection.columns)
                /\ IF collection.stamp = NoDescriptor
                   THEN collection.legacy = LegacyFingerprint(spec)
                   ELSE Compatible(collection.stamp, current),
             place = "validate" => collection.stamp = current,
             place # "write"
      PROVE  EvolutionInv'
  <2>1. /\ publisher' \in [at : Places, spec : Configs, refused : BOOLEAN]
        /\ publisher'.at = place /\ publisher'.spec = spec /\ ~publisher'.refused
    BY <1>0, <1>2 DEF Goto
  <2>2. PublisherOK'
    BY <1>0, <1>2, <2>1 DEF PublisherOK, At, Exists
  <2> QED
    BY <1>2, <2>1, <2>2, PublisherMoves
<1>3. CASE ~Exists(collection) /\ Goto("create") /\ UNCHANGED <<config, collection, recorded, ready>>
  BY <1>2, <1>3 DEF Places
<1>4. CASE /\ Exists(collection) /\ collection.stamp = current /\ Goto("validate")
           /\ UNCHANGED <<config, collection, recorded, ready>>
  BY <1>2, <1>4 DEF Places
<1>5. CASE /\ Exists(collection) /\ collection.stamp = NoDescriptor /\ Goto("restamp")
           /\ collection.legacy = LegacyFingerprint(spec)
           /\ UNCHANGED <<config, collection, recorded, ready>>
  <2>1. PICK c \in Configs : /\ collection.legacy = LegacyFingerprint(c)
                             /\ collection.columns = Declared(c)
    BY <1>5 DEF EvolutionInv, CollectionOK, OfFirstContract
  <2>2. ColumnNames(collection.columns) = Projected(c) /\ Projected(c) = Projected(spec)
    BY <1>0, <1>5, <2>1, DescriptorFacts
  <2> QED
    BY <1>2, <1>5, <2>1, <2>2 DEF Places
<1>6. CASE /\ Exists(collection) /\ collection.stamp \notin {NoDescriptor, current}
           /\ Compatible(collection.stamp, current) /\ Goto("widen")
           /\ UNCHANGED <<config, collection, recorded, ready>>
  BY <1>2, <1>6 DEF Places
<1>7. CASE /\ Exists(collection) /\ collection.stamp = NoDescriptor /\ Refuse
  <2>1. ~Extends(collection.stamp, Descriptor(config))
    <3>1. NoDescriptor.store # Descriptor(config).store
      BY <1>0, EvolutionAssumption DEF NoDescriptor, Descriptor
    <3> QED
      BY <1>7, <3>1 DEF Extends
  <2>2. ~At("idle")
    BY <1>0 DEF At
  <2> QED
    BY <1>7, <2>1, <2>2, RefusalRight
<1>8. CASE /\ collection.stamp \notin {NoDescriptor, current}
           /\ ~(Compatible(collection.stamp, current) /\ spec.policy = "online") /\ Refuse
  <2>1. collection.stamp \in Descriptors
    BY <1>0, <1>8 DEF AnyDescriptor
  <2>2. config.policy # "online" => config.policy = "fail"
    BY <1>0, EvolutionAssumption
  <2>3. ~Extends(collection.stamp, Descriptor(config)) \/ config.policy = "fail"
    BY <1>0, <1>1, <1>8, <2>1, <2>2, CompatibleOrder
  <2>4. ~At("idle")
    BY <1>0 DEF At
  <2> QED
    BY <1>8, <2>3, <2>4, RefusalRight
<1>9. Verify
  OBVIOUS
<1> QED
  BY <1>1, <1>3, <1>4, <1>5, <1>6, <1>7, <1>8, <1>9 DEF Verify

LEMMA WidenKeeps == EvolutionInv /\ Widen => EvolutionInv'
<1> SUFFICES ASSUME EvolutionInv, Widen PROVE EvolutionInv'
  OBVIOUS
<1> DEFINE spec == publisher.spec  current == Descriptor(spec)
<1>0. /\ At("widen") /\ publisher \in [at : Places, spec : Configs, refused : BOOLEAN]
      /\ spec = config /\ spec \in Configs /\ ready = NoDescriptor /\ ~publisher.refused
      /\ collection.stamp \in Descriptors /\ Compatible(collection.stamp, current)
      /\ collection.stamp # NoDescriptor
  BY DEF Widen, EvolutionInv, EvolutionTypeOK, PublisherOK, At, AnyDescriptor
<1>1. /\ UNCHANGED <<config, recorded, ready>>
      /\ collection'.stamp = collection.stamp /\ collection'.rows = collection.rows
      /\ collection'.columns = collection.columns \cup Missing(collection.columns, spec)
      /\ collection' \in [columns : SUBSET Columns, stamp : AnyDescriptor,
                          legacy : Legacies \cup {<<>>},
                          rows : [Records -> AnyDescriptor] \cup {<<>>}]
      /\ publisher'.at = "restamp" /\ publisher'.spec = spec /\ ~publisher'.refused
      /\ publisher' \in [at : Places, spec : Configs, refused : BOOLEAN]
  <2>1. Missing(collection.columns, spec) \subseteq Columns
    BY <1>0, DescriptorFacts DEF Missing
  <2> QED
    BY <1>0, <2>1 DEF Widen, Goto, EvolutionInv, EvolutionTypeOK, Places
<1>2. ColumnNames(collection'.columns) = ColumnNames(collection.columns) \cup Projected(spec)
  <2> DEFINE columns == collection.columns  more == Missing(columns, spec)
  <2>1. ColumnNames(columns \cup more) = ColumnNames(columns) \cup ColumnNames(more)
    BY DEF ColumnNames
  <2>2. ColumnNames(more) \subseteq Projected(spec)
    BY DeclaredNames DEF ColumnNames, Missing
  <2>3. ASSUME NEW field \in Projected(spec), field \notin ColumnNames(columns)
        PROVE  field \in ColumnNames(more)
    BY <2>3, DeclaredNames DEF ColumnNames, Missing
  <2> HIDE DEF columns, more
  <2> QED
    BY <1>1, <2>1, <2>2, <2>3 DEF columns, more
<1>W. Projected(spec) # {} /\ collection'.columns # {}
  <2>1. Projected(spec) # {}
    BY <1>0, DescriptorFacts
  <2> QED
    BY <1>2, <2>1 DEF ColumnNames
<1>3. EvolutionTypeOK'
  BY <1>1 DEF EvolutionInv, EvolutionTypeOK
<1>4. CollectionOK'
  <2>1. Exists(collection) /\ Exists(collection)'
    BY <1>0, <1>1, <1>W DEF EvolutionInv, CollectionOK, NoCollection, Exists
  <2> QED
    BY <1>0, <1>1, <1>2, <2>1 DEF EvolutionInv, CollectionOK, Growing, Exists
<1>5. PublisherOK'
  BY <1>0, <1>1, <1>2, <1>W DEF PublisherOK, At, Exists
<1>6. RefusedRightly'
  BY <1>1 DEF RefusedRightly
<1> QED
  BY <1>3, <1>4, <1>5, <1>6 DEF EvolutionInv

LEMMA RestampKeeps == EvolutionInv /\ Restamp => EvolutionInv'
<1> SUFFICES ASSUME EvolutionInv, Restamp PROVE EvolutionInv'
  OBVIOUS
<1> DEFINE spec == publisher.spec  current == Descriptor(spec)
<1>0. /\ At("restamp") /\ publisher \in [at : Places, spec : Configs, refused : BOOLEAN]
      /\ spec = config /\ spec \in Configs /\ ready = NoDescriptor /\ ~publisher.refused
      /\ Exists(collection) /\ Projected(spec) \subseteq ColumnNames(collection.columns)
      /\ IF collection.stamp = NoDescriptor THEN collection.legacy = LegacyFingerprint(spec)
         ELSE Compatible(collection.stamp, current)
  BY DEF Restamp, EvolutionInv, EvolutionTypeOK, PublisherOK, At
<1>1. current \in Descriptors /\ current # NoDescriptor /\ Projected(current) = Projected(spec)
  BY <1>0, DescriptorFacts
<1>2. /\ UNCHANGED <<config, recorded, ready>>
      /\ collection'.stamp = current /\ collection'.rows = collection.rows
      /\ collection'.columns = collection.columns
      /\ collection' \in [columns : SUBSET Columns, stamp : AnyDescriptor,
                          legacy : Legacies \cup {<<>>},
                          rows : [Records -> AnyDescriptor] \cup {<<>>}]
      /\ publisher'.at = "validate" /\ publisher'.spec = spec /\ ~publisher'.refused
      /\ publisher' \in [at : Places, spec : Configs, refused : BOOLEAN]
  BY <1>0, <1>1 DEF Restamp, Goto, EvolutionInv, EvolutionTypeOK, Places, AnyDescriptor
<1>3. EvolutionTypeOK'
  BY <1>2 DEF EvolutionInv, EvolutionTypeOK
<1>4. \A r \in Records : Growing(r)'
  <2> SUFFICES ASSUME NEW r \in Records PROVE Growing(r)'
    OBVIOUS
  <2>1. CASE collection.stamp = NoDescriptor
    <3>1. PICK c \in Configs : /\ collection.legacy = LegacyFingerprint(c)
                               /\ collection.rows = [x \in Records |-> Descriptor(c)]
      BY <1>0, <2>1 DEF EvolutionInv, CollectionOK, OfFirstContract
    <3>2. collection.rows[r] = current
      BY <1>0, <2>1, <3>1, DescriptorFacts
    <3>3. recorded[r] = NoDescriptor
      BY <2>1 DEF EvolutionInv, CollectionOK
    <3> QED
      BY <1>1, <1>2, <3>2, <3>3, CompatibleOrder DEF Growing
  <2>2. CASE collection.stamp # NoDescriptor
    <3>1. Growing(r) /\ collection.stamp \in Descriptors /\ collection.rows[r] \in AnyDescriptor
      BY <1>0, <2>2 DEF EvolutionInv, CollectionOK, EvolutionTypeOK, AnyDescriptor
    <3>2. collection.rows[r] # NoDescriptor => Compatible(collection.rows[r], current)
      BY <1>0, <1>1, <2>2, <3>1, CompatibleOrder DEF Growing, AnyDescriptor
    <3> QED
      BY <1>2, <3>1, <3>2 DEF Growing
  <2> QED
    BY <2>1, <2>2
<1>5. CollectionOK'
  BY <1>0, <1>1, <1>2, <1>4 DEF EvolutionInv, CollectionOK, Exists
<1>6. PublisherOK' /\ RefusedRightly'
  BY <1>0, <1>2 DEF PublisherOK, RefusedRightly, At
<1> QED
  BY <1>3, <1>5, <1>6 DEF EvolutionInv

LEMMA ValidateKeeps == EvolutionInv /\ Validate => EvolutionInv'
<1> SUFFICES ASSUME EvolutionInv, Validate PROVE EvolutionInv'
  OBVIOUS
<1> DEFINE spec == publisher.spec  current == Descriptor(spec)
<1>0. /\ At("validate") /\ publisher \in [at : Places, spec : Configs, refused : BOOLEAN]
      /\ spec = config /\ spec \in Configs /\ ready = NoDescriptor /\ ~publisher.refused
      /\ collection.stamp = current
  BY DEF Validate, EvolutionInv, EvolutionTypeOK, PublisherOK, At
<1>1. current # NoDescriptor /\ Projected(current) = Projected(spec)
  BY <1>0, DescriptorFacts
<1>2. CASE SchemaMatches(collection.columns, spec) /\ Goto("write")
             /\ UNCHANGED <<config, collection, recorded, ready>>
  <2>1. /\ publisher' \in [at : Places, spec : Configs, refused : BOOLEAN]
        /\ publisher'.at = "write" /\ publisher'.spec = spec /\ ~publisher'.refused
    BY <1>0, <1>2 DEF Goto, Places
  <2>2. PublisherOK'
    BY <1>0, <1>2, <2>1 DEF PublisherOK, At, SchemaMatches
  <2> QED
    BY <1>2, <2>1, <2>2, PublisherMoves
<1>3. CASE ~SchemaMatches(collection.columns, spec) /\ Refuse
  <2>1. /\ Projected(spec) \subseteq ColumnNames(collection.columns)
        /\ collection.columns \subseteq Columns /\ collection.columns # Declared(spec)
    BY <1>0, <1>1, <1>3 DEF EvolutionInv, CollectionOK, EvolutionTypeOK, SchemaMatches
  <2>2. ASSUME ColumnNames(collection.columns) \subseteq Projected(spec) PROVE Retyped
    <3>1. PICK column \in collection.columns \cup Declared(spec) :
             ~(column \in collection.columns /\ column \in Declared(spec))
      BY <2>1
    <3>2. CASE column \in collection.columns
      BY <1>0, <2>2, <3>1, <3>2 DEF Retyped, ColumnNames
    <3>3. CASE column \in Declared(spec) /\ column \notin collection.columns
      <4>1. PICK field \in Projected(spec) : column = <<field, spec.types[field]>>
        BY <3>3 DEF Declared
      <4>2. PICK other \in collection.columns : other[1] = field
        BY <2>1, <4>1 DEF ColumnNames
      <4>3. other # column
        BY <3>3, <4>2
      <4>4. other \notin Declared(spec)
        BY <4>1, <4>2, <4>3 DEF Declared
      <4> QED
        BY <1>0, <4>1, <4>2, <4>4 DEF Retyped
    <3> QED
      BY <3>2, <3>3
  <2>3. Retyped \/ ForeverRefused
    BY <1>0, <1>1, <2>2 DEF ForeverRefused
  <2>4. ~At("idle")
    BY <1>0 DEF At
  <2> QED
    BY <1>3, <2>3, <2>4, RefusalRight
<1> QED
  BY <1>2, <1>3 DEF Validate

LEMMA CreateKeeps == EvolutionInv /\ Create => EvolutionInv'
<1> SUFFICES ASSUME EvolutionInv, Create PROVE EvolutionInv'
  OBVIOUS
<1> DEFINE spec == publisher.spec  current == Descriptor(spec)
<1>0. /\ At("create") /\ publisher \in [at : Places, spec : Configs, refused : BOOLEAN]
      /\ spec = config /\ spec \in Configs /\ ready = NoDescriptor /\ ~publisher.refused
      /\ ~Exists(collection)
  BY DEF Create, EvolutionInv, EvolutionTypeOK, PublisherOK, At
<1>1. /\ current \in Descriptors /\ current # NoDescriptor /\ Projected(current) = Projected(spec)
      /\ Declared(spec) \subseteq Columns /\ Declared(spec) # {}
      /\ ColumnNames(Declared(spec)) = Projected(spec)
      /\ LegacyFingerprint(spec) \in Legacies
  BY <1>0, DescriptorFacts DEF Legacies
<1>2. /\ UNCHANGED <<config, recorded, ready>>
      /\ collection' = [columns |-> Declared(spec), stamp |-> current,
                        legacy |-> LegacyFingerprint(spec),
                        rows |-> [r \in Records |-> NoDescriptor]]
      /\ publisher'.at = "write" /\ publisher'.spec = spec /\ ~publisher'.refused
      /\ publisher' \in [at : Places, spec : Configs, refused : BOOLEAN]
  BY <1>0 DEF Create, Goto, Places
<1>3. recorded = [r \in Records |-> NoDescriptor]
  BY <1>0 DEF EvolutionInv, CollectionOK, NoCollection
<1>4. EvolutionTypeOK'
  BY <1>1, <1>2 DEF EvolutionInv, EvolutionTypeOK, AnyDescriptor
<1>5. CollectionOK'
  BY <1>0, <1>1, <1>2, <1>3 DEF CollectionOK, Growing, Exists, AnyDescriptor
<1>6. PublisherOK' /\ RefusedRightly'
  BY <1>0, <1>2 DEF PublisherOK, RefusedRightly, At
<1> QED
  BY <1>4, <1>5, <1>6 DEF EvolutionInv

LEMMA RecordKeeps ==
  ASSUME EvolutionInv, NEW r \in Records, WriteRecord(r) \/ RecordWritten(r)
  PROVE  EvolutionInv'
<1> DEFINE spec == publisher.spec  current == Descriptor(spec)
<1>0. /\ At("write") /\ publisher' = publisher
      /\ publisher \in [at : Places, spec : Configs, refused : BOOLEAN]
      /\ spec = config /\ spec \in Configs /\ ready = NoDescriptor /\ ~publisher.refused
      /\ collection.stamp = current /\ collection.columns = Declared(spec)
      /\ UNCHANGED <<config, ready>>
  BY DEF WriteRecord, RecordWritten, EvolutionInv, EvolutionTypeOK, PublisherOK, At
<1>1. /\ current \in Descriptors /\ current # NoDescriptor /\ Declared(spec) # {}
      /\ Projected(current) = Projected(spec) /\ ColumnNames(Declared(spec)) = Projected(spec)
  BY <1>0, DescriptorFacts
<1>2. /\ Exists(collection) /\ collection.rows \in [Records -> AnyDescriptor]
      /\ \A x \in Records : Growing(x)
  BY <1>0, <1>1 DEF EvolutionInv, CollectionOK, Exists
<1>T. /\ collection \in [columns : SUBSET Columns, stamp : AnyDescriptor,
                         legacy : Legacies \cup {<<>>},
                         rows : [Records -> AnyDescriptor] \cup {<<>>}]
      /\ recorded \in [Records -> AnyDescriptor]
  BY DEF EvolutionInv, EvolutionTypeOK
<1>3. CASE WriteRecord(r)
  <2>1. /\ collection' = [collection EXCEPT !.rows[r] = current] /\ recorded' = recorded
    BY <1>3 DEF WriteRecord
  <2>2. /\ collection'.columns = collection.columns /\ collection'.stamp = collection.stamp
        /\ collection'.rows = [collection.rows EXCEPT ![r] = current]
        /\ collection'.legacy = collection.legacy
    BY <1>T, <2>1
  <2>3. collection'.rows \in [Records -> AnyDescriptor]
    BY <1>1, <1>2, <2>2 DEF AnyDescriptor
  <2>4. EvolutionTypeOK'
    <3>1. collection' \in [columns : SUBSET Columns, stamp : AnyDescriptor,
                           legacy : Legacies \cup {<<>>},
                           rows : [Records -> AnyDescriptor] \cup {<<>>}]
      BY <1>T, <2>1, <2>2, <2>3
    <3> QED
      BY <1>0, <2>1, <2>2, <3>1 DEF EvolutionInv, EvolutionTypeOK
  <2>5. \A x \in Records : Growing(x)'
    <3> SUFFICES ASSUME NEW x \in Records PROVE Growing(x)'
      OBVIOUS
    <3>1. CASE x # r
      <4>1. collection'.rows[x] = collection.rows[x]
        BY <1>2, <2>2, <3>1
      <4> QED
        BY <1>2, <2>1, <2>2, <4>1 DEF Growing
    <3>2. CASE x = r
      <4>1. collection'.rows[r] = current
        BY <1>2, <2>2
      <4>2. recorded[r] # NoDescriptor => Compatible(recorded[r], current)
        <5>1. recorded[r] \in AnyDescriptor /\ collection.rows[r] \in AnyDescriptor /\ Growing(r)
          BY <1>2, <1>T
        <5> QED
          BY <1>0, <1>1, <5>1, CompatibleOrder DEF Growing, AnyDescriptor
      <4> QED
        BY <1>0, <1>1, <2>1, <2>2, <3>2, <4>1, <4>2, CompatibleOrder DEF Growing
    <3> QED
      BY <3>1, <3>2
  <2>6. CollectionOK'
    <3>1. Exists(collection)' /\ collection'.stamp # NoDescriptor
      BY <1>0, <1>1, <2>2 DEF Exists
    <3>2. Projected(collection.stamp)' \subseteq ColumnNames(collection'.columns)
      BY <1>0, <1>1, <2>2
    <3> QED
      BY <1>0, <2>3, <2>5, <3>1, <3>2 DEF CollectionOK
  <2>7. PublisherOK' /\ RefusedRightly'
    BY <1>0, <2>2 DEF PublisherOK, RefusedRightly, At
  <2> QED
    BY <2>4, <2>6, <2>7 DEF EvolutionInv
<1>4. CASE RecordWritten(r)
  <2>1. /\ recorded' = [recorded EXCEPT ![r] = current] /\ collection' = collection
        /\ collection.rows[r] = current
    BY <1>4 DEF RecordWritten
  <2>2. EvolutionTypeOK'
    BY <1>0, <1>1, <2>1 DEF EvolutionInv, EvolutionTypeOK, AnyDescriptor
  <2>3. \A x \in Records : Growing(x)'
    <3> SUFFICES ASSUME NEW x \in Records PROVE Growing(x)'
      OBVIOUS
    <3>1. CASE x # r
      <4>1. recorded'[x] = recorded[x] /\ Growing(x)
        BY <1>2, <1>T, <2>1, <3>1
      <4> QED
        BY <2>1, <4>1 DEF Growing
    <3>2. CASE x = r
      <4>1. recorded'[r] = current
        BY <1>T, <2>1
      <4> QED
        BY <1>0, <1>1, <2>1, <3>2, <4>1, CompatibleOrder DEF Growing
    <3> QED
      BY <3>1, <3>2
  <2>4. CollectionOK'
    <3>1. Exists(collection)' /\ collection'.stamp # NoDescriptor
      BY <1>0, <1>1, <1>2, <2>1 DEF Exists
    <3>2. Projected(collection.stamp)' \subseteq ColumnNames(collection'.columns)
      BY <1>0, <1>1, <2>1
    <3> QED
      BY <1>0, <1>2, <2>1, <2>3, <3>1, <3>2 DEF CollectionOK
  <2>5. PublisherOK' /\ RefusedRightly'
    BY <1>0, <2>1 DEF PublisherOK, RefusedRightly, At
  <2> QED
    BY <2>2, <2>4, <2>5 DEF EvolutionInv
<1> QED
  BY <1>3, <1>4

LEMMA MarkKeeps == EvolutionInv /\ MarkPublished => EvolutionInv'
<1> SUFFICES ASSUME EvolutionInv, MarkPublished PROVE EvolutionInv'
  OBVIOUS
<1> DEFINE spec == publisher.spec  current == Descriptor(spec)
<1>0. /\ At("write") /\ publisher \in [at : Places, spec : Configs, refused : BOOLEAN]
      /\ spec = config /\ spec \in Configs /\ ~publisher.refused
      /\ collection.stamp = current /\ collection.columns = Declared(spec)
      /\ \A r \in Records : recorded[r] = current
      /\ UNCHANGED <<config, collection, recorded>> /\ ready' = current
  BY DEF MarkPublished, EvolutionInv, EvolutionTypeOK, PublisherOK, At, Pending
<1>1. /\ current \in Descriptors /\ current # NoDescriptor /\ Projected(current) = Projected(spec)
      /\ ColumnNames(Declared(spec)) = Projected(spec)
  BY <1>0, DescriptorFacts
<1>2. /\ publisher'.at = "idle" /\ ~publisher'.refused
      /\ publisher' \in [at : Places, spec : Configs, refused : BOOLEAN]
  BY <1>0 DEF MarkPublished, Goto, Places
<1>3. EvolutionTypeOK'
  BY <1>0, <1>1, <1>2 DEF EvolutionInv, EvolutionTypeOK, AnyDescriptor
<1>4. CollectionOK'
  BY <1>0, <1>1 DEF EvolutionInv, CollectionOK, OfFirstContract, Growing, Exists
<1>5. PublisherOK' /\ RefusedRightly'
  BY <1>2 DEF PublisherOK, RefusedRightly, At
<1> QED
  BY <1>3, <1>4, <1>5 DEF EvolutionInv

LEMMA RunsKeep == EvolutionInv /\ (BeginPublish \/ CrashEvolution \/ Reconfigure) => EvolutionInv'
<1> SUFFICES ASSUME EvolutionInv, BeginPublish \/ CrashEvolution \/ Reconfigure
             PROVE  EvolutionInv'
  OBVIOUS
<1>T. /\ publisher \in [at : Places, spec : Configs, refused : BOOLEAN] /\ config \in Configs
      /\ ready \in AnyDescriptor
  BY DEF EvolutionInv, EvolutionTypeOK
<1>1. CASE BeginPublish
  <2>1. /\ publisher' = [at |-> "verify", spec |-> config, refused |-> FALSE]
        /\ ready' = NoDescriptor /\ UNCHANGED <<config, collection, recorded>>
    BY <1>1 DEF BeginPublish
  <2>2. EvolutionTypeOK'
    BY <1>T, <2>1 DEF EvolutionInv, EvolutionTypeOK, AnyDescriptor, Places
  <2>3. CollectionOK'
    BY <2>1 DEF EvolutionInv, CollectionOK, OfFirstContract, Growing, Exists
  <2>4. PublisherOK' /\ RefusedRightly'
    BY <2>1 DEF PublisherOK, RefusedRightly, At
  <2> QED
    BY <2>2, <2>3, <2>4 DEF EvolutionInv
<1>2. CASE CrashEvolution
  <2>1. /\ publisher'.at = "idle" /\ ~publisher'.refused
        /\ publisher' \in [at : Places, spec : Configs, refused : BOOLEAN]
        /\ UNCHANGED <<config, collection, recorded, ready>>
    BY <1>2, <1>T DEF CrashEvolution, Goto, Places, EvolutionInv, PublisherOK
  <2>2. PublisherOK'
    BY <2>1 DEF PublisherOK, At
  <2> QED
    BY <2>1, <2>2, PublisherMoves
<1>3. CASE Reconfigure
  <2>1. /\ publisher' = Idle /\ config' \in Configs /\ UNCHANGED <<collection, recorded, ready>>
    BY <1>3 DEF Reconfigure
  <2>2. /\ Idle \in [at : Places, spec : Configs, refused : BOOLEAN] /\ Idle.at = "idle"
        /\ ~Idle.refused
    <3>1. (CHOOSE c \in Configs : TRUE) \in Configs
      BY <1>T
    <3> QED
      BY <3>1 DEF Idle, Places
  <2>3. EvolutionTypeOK'
    BY <2>1, <2>2 DEF EvolutionInv, EvolutionTypeOK
  <2>4. CollectionOK'
    BY <2>1 DEF EvolutionInv, CollectionOK, OfFirstContract, Growing, Exists
  <2>5. PublisherOK' /\ RefusedRightly'
    BY <2>1, <2>2 DEF PublisherOK, RefusedRightly, At
  <2> QED
    BY <2>3, <2>4, <2>5 DEF EvolutionInv
<1> QED
  BY <1>1, <1>2, <1>3

LEMMA EvolutionStepKeeps == EvolutionInv /\ [EvolutionNext]_evolutionVars => EvolutionInv'
<1> SUFFICES ASSUME EvolutionInv, [EvolutionNext]_evolutionVars PROVE EvolutionInv'
  OBVIOUS
<1>1. CASE EvolutionStep
  BY <1>1, VerifyKeeps, WidenKeeps, RestampKeeps, ValidateKeeps, CreateKeeps, RecordKeeps,
     MarkKeeps DEF EvolutionStep
<1>2. CASE BeginPublish \/ CrashEvolution \/ Reconfigure
  BY <1>2, RunsKeep
<1>3. CASE UNCHANGED evolutionVars
  BY <1>3 DEF evolutionVars, EvolutionInv, EvolutionTypeOK, CollectionOK, OfFirstContract,
     Growing, Exists, PublisherOK, At, RefusedRightly, Retyped, ForeverRefused
<1> QED
  BY <1>1, <1>2, <1>3 DEF EvolutionNext

LEMMA EvolutionInvAnswers == EvolutionInv => AnswersAsConfigured
<1> SUFFICES ASSUME EvolutionInv PROVE AnswersAsConfigured
  OBVIOUS
<1>1. ASSUME Answerable
      PROVE  /\ \A r \in Records : SameRow(collection.rows[r], Descriptor(config))
             /\ ColumnNames(collection.columns) = Projected(config)
  <2> DEFINE current == Descriptor(config)
  <2>1. /\ current \in Descriptors /\ current # NoDescriptor
        /\ Projected(current) = Projected(config)
    BY DescriptorFacts DEF EvolutionInv, EvolutionTypeOK
  <2>2. /\ Exists(collection) /\ ready = current /\ collection.stamp = current
    BY <1>1 DEF Answerable
  <2>3. ASSUME NEW r \in Records PROVE SameRow(collection.rows[r], current)
    <3>1. /\ recorded[r] = current /\ Growing(r) /\ collection.rows[r] \in AnyDescriptor
      BY <2>1, <2>2, <2>3 DEF EvolutionInv, CollectionOK
    <3>2. /\ collection.rows[r] \in Descriptors /\ Compatible(collection.rows[r], current)
          /\ Compatible(current, collection.rows[r])
      BY <2>1, <2>2, <3>1 DEF Growing, AnyDescriptor
    <3> QED
      BY <2>1, <3>2, CompatibleOrder
  <2>4. ColumnNames(collection.columns) = Projected(config)
    BY <2>1, <2>2 DEF EvolutionInv, CollectionOK
  <2> QED
    BY <2>3, <2>4
<1>2. At("write") => collection.columns = Declared(publisher.spec)
  BY DEF EvolutionInv, PublisherOK
<1> QED
  BY <1>1, <1>2 DEF AnswersAsConfigured, EvolutionInv, RefusedRightly

\* An index that answers has the rows and the columns of its current configuration, and
\* whoever is refused had a reason to be, whatever died between adding columns, rewriting
\* the stamp and writing the records, and wherever the configuration went meanwhile
\* (execution/search.py:466-564, retrieval/lancedb.py:459-508, search.py:345-366).
THEOREM IndexAnswersAsConfigured == EvolutionSpec => []AnswersAsConfigured
<1>1. EvolutionInit => EvolutionInv
  BY EvolutionInitial
<1>2. EvolutionInv /\ [EvolutionNext]_evolutionVars => EvolutionInv'
  BY EvolutionStepKeeps
<1> QED
  BY <1>1, <1>2, EvolutionInvAnswers, PTL DEF EvolutionSpec

LEMMA StampSteps ==
  ASSUME EvolutionInv, [EvolutionNext]_evolutionVars,
         Exists(collection), collection.stamp # NoDescriptor, Exists(collection)'
  PROVE  Extends(collection.stamp, collection'.stamp)
<1>0. /\ collection.stamp \in Descriptors
      /\ collection \in [columns : SUBSET Columns, stamp : AnyDescriptor,
                         legacy : Legacies \cup {<<>>},
                         rows : [Records -> AnyDescriptor] \cup {<<>>}]
  BY DEF EvolutionInv, EvolutionTypeOK, AnyDescriptor
<1>1. CASE Restamp
  <2> DEFINE current == Descriptor(publisher.spec)
  <2>1. At("restamp") /\ collection'.stamp = current /\ publisher.spec \in Configs
    BY <1>0, <1>1 DEF Restamp, EvolutionInv, EvolutionTypeOK
  <2>2. Compatible(collection.stamp, current) /\ current \in Descriptors
    BY <2>1, DescriptorFacts DEF EvolutionInv, PublisherOK
  <2> QED
    BY <1>0, <2>1, <2>2, CompatibleOrder
<1>2. CASE collection'.stamp = collection.stamp
  BY <1>0, <1>2, CompatibleOrder
<1>3. ~Create
  BY DEF Create, EvolutionInv, PublisherOK
<1>4. Restamp \/ collection'.stamp = collection.stamp
  <2>1. CASE Widen
    BY <1>0, <2>1 DEF Widen
  <2>2. ASSUME NEW r \in Records, WriteRecord(r) PROVE collection'.stamp = collection.stamp
    BY <1>0, <2>2 DEF WriteRecord
  <2>3. CASE Verify \/ Validate \/ MarkPublished \/ BeginPublish \/ CrashEvolution \/ Reconfigure
             \/ (\E r \in Records : RecordWritten(r)) \/ UNCHANGED evolutionVars
    BY <2>3 DEF Verify, Validate, Refuse, MarkPublished, BeginPublish, CrashEvolution, Reconfigure,
       RecordWritten, evolutionVars
  <2> QED
    BY <1>3, <2>1, <2>2, <2>3 DEF EvolutionNext, EvolutionStep
<1> QED
  BY <1>1, <1>2, <1>4

\* In place a stamp changes only to a definition that the rows already written can serve,
\* for every set of configurations (retrieval/evolution.py:116-190).
THEOREM StampsOnlyExtend == EvolutionSpec => StampOnlyExtends
<1>1. EvolutionInit => EvolutionInv
  BY EvolutionInitial
<1>2. EvolutionInv /\ [EvolutionNext]_evolutionVars => EvolutionInv'
  BY EvolutionStepKeeps
<1>3. EvolutionInv /\ [EvolutionNext]_evolutionVars =>
        [(Exists(collection) /\ collection.stamp # NoDescriptor /\ Exists(collection'))
            => Extends(collection.stamp, collection'.stamp)]_evolutionVars
  <2> SUFFICES ASSUME EvolutionInv, [EvolutionNext]_evolutionVars, Exists(collection),
                      collection.stamp # NoDescriptor, Exists(collection')
               PROVE  Extends(collection.stamp, collection'.stamp)
    OBVIOUS
  <2>1. Exists(collection)'
    BY DEF Exists
  <2> QED
    BY <2>1, StampSteps
<1> QED
  BY <1>1, <1>2, <1>3, PTL DEF EvolutionSpec, StampOnlyExtends

------------------------------------------------------------------------------
(* ProviderCalls: what a call was charged is what it reports               *)

StepsOfCall == {"send", "submit", "poll", "fetch", "end"}
Outcomes == {"none", "result", "rejected", "failed", "batch_error"}
ItemsOf(ids) ==
    [id : Range(ids), answer : Range(ids) \cup {"error"}, billed : BOOLEAN]

CallTypeOK ==
    /\ asked \in Calls /\ at \in StepsOfCall /\ outcome \in Outcomes
    /\ todo \in Seq(Seq(Range(asked.ids)))
    /\ got \in Seq(ItemsOf(asked.ids))
    /\ attempt \in Nat /\ usage \in Nat /\ charged \in Nat /\ silent \in BOOLEAN

\* Inputs of one wire request.
Size == IF asked.via = "vertex_embed" THEN PerRequest ELSE 1
UpTo(n) == IF n < Len(asked.ids) THEN n ELSE Len(asked.ids)

\* The requests that are left take the inputs after those that have an item.
Sending ==
    /\ asked.via # "native" /\ outcome = "none" /\ ~silent
    /\ charged = Reported(got)
    /\ \A k \in 1..Len(got) : got[k].id = asked.ids[k]
    /\ Len(todo) > 0
    /\ Len(got) + (Len(todo) - 1) * Size < Len(asked.ids)
    /\ Len(asked.ids) <= Len(got) + Len(todo) * Size
    /\ \A j \in 1..Len(todo) :
          todo[j] = SubSeq(asked.ids, Len(got) + (j - 1) * Size + 1, UpTo(Len(got) + j * Size))

Accounting ==
    /\ at = "send" => Sending
    /\ at \in {"submit", "poll", "fetch"} =>
          /\ asked.via = "native" /\ outcome = "none" /\ ~silent
          /\ got = <<>> /\ charged = 0
    /\ \A k \in DOMAIN got : got[k].answer \in {got[k].id, "error"}
    /\ CallsAccounted

LEMMA AskedTyped ==
  ASSUME NEW c \in Calls
  PROVE  /\ c.ids \in Seq(Range(c.ids)) /\ Len(c.ids) \in Nat \ {0} /\ c.retries \in Nat
         /\ DOMAIN c.ids = 1..Len(c.ids) /\ \A k \in 1..Len(c.ids) : c.ids[k] \in Range(c.ids)
  BY CallsAssumption, LenProperties DEF Range

LEMMA ReportedTyped ==
  ASSUME NEW T, NEW items \in Seq(T)
  PROVE  /\ Reported(items) \in Nat
         /\ IsFiniteSet({k \in DOMAIN items : items[k].billed})
<1>1. IsFiniteSet(1..Len(items)) /\ DOMAIN items = 1..Len(items)
  BY FS_Interval, LenProperties
<1>2. IsFiniteSet({k \in DOMAIN items : items[k].billed})
  BY <1>1, FS_Subset
<1> QED
  BY <1>2, FS_CardinalityType DEF Reported

\* Of the items of one answer only the first carries its usage.
LEMMA ReportedGrows ==
  ASSUME NEW ids, NEW s \in Seq(ItemsOf(ids)), NEW t \in Seq(ItemsOf(ids)), Len(t) > 0,
         \A k \in 2..Len(t) : ~t[k].billed
  PROVE  Reported(s \o t) = Reported(s) + (IF t[1].billed THEN 1 ELSE 0)
<1> DEFINE A == {k \in DOMAIN s : s[k].billed}
           B == {k \in DOMAIN (s \o t) : (s \o t)[k].billed}
<1>1. /\ s \o t \in Seq(ItemsOf(ids)) /\ Len(s) \in Nat /\ Len(t) \in Nat
      /\ DOMAIN s = 1..Len(s) /\ DOMAIN (s \o t) = 1..(Len(s) + Len(t))
      /\ \A k \in 1..(Len(s) + Len(t)) :
            (s \o t)[k] = IF k <= Len(s) THEN s[k] ELSE t[k - Len(s)]
  BY ConcatProperties, LenProperties
<1>2. IsFiniteSet(A)
  BY ReportedTyped
<1>3. B = IF t[1].billed THEN A \cup {Len(s) + 1} ELSE A
  <2>1. ASSUME NEW k \in 1..(Len(s) + Len(t)), k > Len(s)
        PROVE  (s \o t)[k].billed <=> k = Len(s) + 1 /\ t[1].billed
    <3>1. CASE k = Len(s) + 1
      BY <1>1, <3>1
    <3>2. CASE k # Len(s) + 1
      <4>1. k - Len(s) \in 2..Len(t)
        BY <1>1, <2>1, <3>2
      <4> QED
        BY <1>1, <2>1, <3>2, <4>1
    <3> QED
      BY <3>1, <3>2
  <2>2. ASSUME NEW k \in 1..Len(s) PROVE k \in 1..(Len(s) + Len(t)) /\ (s \o t)[k] = s[k]
    BY <1>1
  <2> QED
    BY <1>1, <2>1, <2>2
<1>4. Len(s) + 1 \notin A
  BY <1>1
<1>5. Reported(s \o t) = Cardinality(B) /\ Reported(s) = Cardinality(A)
  BY DEF Reported
<1> HIDE DEF A, B
<1>6. CASE t[1].billed
  BY <1>2, <1>3, <1>4, <1>5, <1>6, FS_AddElement
<1>7. CASE ~t[1].billed
  BY <1>3, <1>5, <1>7, <1>2, FS_CardinalityType
<1> QED
  BY <1>6, <1>7

LEMMA FunctionIsSeq ==
  ASSUME NEW S, NEW n \in Nat, NEW f, f \in [1..n -> S]
  PROVE  f \in Seq(S) /\ Len(f) = n
  BY SeqDef, LenProperties

LEMMA Division ==
  ASSUME NEW a \in Nat, NEW b \in Nat \ {0}
  PROVE  a \div b \in Nat /\ (a \div b) * b <= a /\ a < (a \div b) * b + b
  OBVIOUS

LEMMA CallTypeInit == CallInit => CallTypeOK
<1> SUFFICES ASSUME CallInit PROVE CallTypeOK
  OBVIOUS
<1>1. asked \in Calls /\ asked.ids \in Seq(Range(asked.ids))
  BY AskedTyped DEF CallInit
<1>2. OneEach(asked.ids) \in Seq(Seq(Range(asked.ids)))
  <2>1. OneEach(asked.ids) \in [1..Len(asked.ids) -> Seq(Range(asked.ids))]
    BY <1>1, AskedTyped DEF OneEach
  <2> QED
    BY <1>1, <2>1, AskedTyped, FunctionIsSeq
<1>3. SplitRequests(asked.ids) \in Seq(Seq(Range(asked.ids)))
  <2> DEFINE n == (Len(asked.ids) + PerRequest - 1) \div PerRequest
  <2>1. n \in Nat
    <3>1. Len(asked.ids) + PerRequest - 1 \in Nat
      BY <1>1, AskedTyped, CallsAssumption
    <3> QED
      BY <3>1, CallsAssumption, Division
  <2>2. ASSUME NEW k \in 1..n PROVE SplitRequests(asked.ids)[k] \in Seq(Range(asked.ids))
    <3> DEFINE a == (k - 1) * PerRequest + 1
               b == IF k * PerRequest < Len(asked.ids) THEN k * PerRequest ELSE Len(asked.ids)
    <3>1. SplitRequests(asked.ids)[k] = SubSeq(asked.ids, a, b)
      BY DEF SplitRequests
    <3>2. a \in Nat /\ a >= 1 /\ b \in Nat /\ b <= Len(asked.ids)
      BY <1>1, <2>1, AskedTyped, CallsAssumption
    <3> QED
      BY <1>1, <3>1, <3>2, SubSeqProperties, AskedTyped
  <2>3. SplitRequests(asked.ids) \in [1..n -> Seq(Range(asked.ids))]
    BY <2>2 DEF SplitRequests
  <2> QED
    BY <2>1, <2>3, FunctionIsSeq
<1>4. todo \in Seq(Seq(Range(asked.ids)))
  <2>1. <<asked.ids>> \in Seq(Seq(Range(asked.ids)))
    BY <1>1
  <2> QED
    BY <1>2, <1>3, <2>1 DEF CallInit
<1>5. <<>> \in Seq(ItemsOf(asked.ids))
  OBVIOUS
<1> QED
  BY <1>1, <1>4, <1>5 DEF CallInit, CallTypeOK, StepsOfCall, Outcomes

LEMMA SubSeqFacts ==
  ASSUME NEW T, NEW s \in Seq(T), NEW i \in 1..(Len(s) + 1), NEW j \in (i - 1)..Len(s)
  PROVE  /\ SubSeq(s, i, j) \in Seq(T) /\ Len(SubSeq(s, i, j)) = j - i + 1
         /\ \A k \in 1..(j - i + 1) : SubSeq(s, i, j)[k] = s[i + k - 1]
<1>1. Len(s) \in Nat
  BY LenProperties
<1> QED
  BY <1>1, SubSeqProperties

LEMMA Times ==
  ASSUME NEW j \in Int, NEW n \in Nat
  PROVE  (j + 1) * n = j * n + n /\ (j - 1) * n = j * n - n
  OBVIOUS

LEMMA SendingInit == CallInit /\ asked.via # "native" => Sending
<1> SUFFICES ASSUME CallInit, asked.via # "native" PROVE Sending
  OBVIOUS
<1> DEFINE N == Len(asked.ids)
<1>1. /\ asked \in Calls /\ asked.ids \in Seq(Range(asked.ids)) /\ N \in Nat \ {0}
      /\ DOMAIN asked.ids = 1..N
  BY AskedTyped DEF CallInit
<1>2. got = <<>> /\ Len(got) = 0 /\ charged = 0 /\ Reported(got) = 0
  <2>1. {k \in DOMAIN got : got[k].billed} = {}
    BY DEF CallInit
  <2> QED
    BY <2>1, FS_EmptySet DEF CallInit, Reported
<1>3. CASE asked.via = "vertex_embed"
  <2> DEFINE P == PerRequest
             n == (N + P - 1) \div P
  <2>1. P \in Nat \ {0} /\ N + P - 1 \in Nat
    BY <1>1, CallsAssumption
  <2>2. n \in Nat /\ n * P <= N + P - 1 /\ N + P - 1 < n * P + P
    BY <2>1, Division
  <2>4. todo = SplitRequests(asked.ids) /\ Size = P
    BY <1>3 DEF CallInit, Size
  <2>5. /\ Len(todo) = n
        /\ \A j \in 1..n : todo[j] = SubSeq(asked.ids, (j - 1) * P + 1, UpTo(j * P))
    <3>1. DOMAIN todo = 1..n
      BY <2>4 DEF SplitRequests
    <3>2. todo \in Seq(Seq(Range(asked.ids)))
      BY CallTypeInit DEF CallTypeOK
    <3>3. Len(todo) = n
      BY <2>2, <3>1, <3>2, LenProperties
    <3> QED
      BY <2>4, <3>3 DEF SplitRequests, UpTo
  <2> HIDE DEF n, P, N
  <2>3. n > 0
    <3>1. 0 * P = 0
      BY <2>1
    <3> QED
      BY <1>1, <2>1, <2>2, <3>1
  <2>6. (n - 1) * P = n * P - P
    BY <2>1, <2>2, Times
  <2>7. \A j \in 1..n : (j - 1) * P \in Int /\ j * P \in Int
    BY <2>1, <2>2
  <2>8. \A j \in 1..n : 0 + (j - 1) * P + 1 = (j - 1) * P + 1 /\ 0 + j * P = j * P
    BY <2>7
  <2>9. 0 + (n - 1) * P < N /\ N <= 0 + n * P
    BY <1>1, <2>1, <2>2, <2>6
  <2> QED
    BY <1>2, <1>3, <2>3, <2>4, <2>5, <2>8, <2>9 DEF CallInit, Sending, N
<1>4. CASE asked.via # "vertex_embed"
  <2>1. todo = OneEach(asked.ids) /\ Size = 1
    BY <1>4 DEF CallInit, Size
  <2>2. todo \in [1..N -> Seq(Range(asked.ids))] /\ Len(todo) = N
    <3>1. todo \in [1..N -> Seq(Range(asked.ids))]
      BY <1>1, <2>1, AskedTyped DEF OneEach
    <3> QED
      BY <1>1, <3>1, FunctionIsSeq
  <2>3. ASSUME NEW j \in 1..N
        PROVE  todo[j] = SubSeq(asked.ids, 0 + (j - 1) * 1 + 1, UpTo(0 + j * 1))
    <3>1. UpTo(j) = j
      BY <1>1 DEF UpTo
    <3>2. /\ SubSeq(asked.ids, j, j) \in Seq(Range(asked.ids))
          /\ Len(SubSeq(asked.ids, j, j)) = 1 /\ SubSeq(asked.ids, j, j)[1] = asked.ids[j]
      BY <1>1, SubSeqFacts
    <3>3. SubSeq(asked.ids, j, j) = <<asked.ids[j]>>
      <4>1. /\ <<asked.ids[j]>> \in Seq(Range(asked.ids)) /\ Len(<<asked.ids[j]>>) = 1
            /\ <<asked.ids[j]>>[1] = asked.ids[j]
        BY <1>1, AskedTyped
      <4> DEFINE s == SubSeq(asked.ids, j, j)
                 t == <<asked.ids[j]>>
      <4>2. s \in Seq(Range(asked.ids)) /\ t \in Seq(Range(asked.ids)) /\ Len(s) = Len(t)
        BY <3>2, <4>1
      <4>3. \A i \in 1..Len(s) : s[i] = t[i]
        BY <3>2, <4>1
      <4> HIDE DEF s, t
      <4>4. s = t
        BY <4>2, <4>3, SeqEqual
      <4> QED
        BY <4>4 DEF s, t
    <3>4. todo[j] = <<asked.ids[j]>>
      BY <1>1, <2>1 DEF OneEach
    <3> QED
      BY <1>1, <3>1, <3>3, <3>4
  <2> QED
    BY <1>1, <1>2, <2>1, <2>2, <2>3 DEF CallInit, Sending
<1> QED
  BY <1>3, <1>4

LEMMA AccountingInit == CallInit => Accounting
<1> SUFFICES ASSUME CallInit PROVE Accounting
  OBVIOUS
<1>1. CallTypeOK
  BY CallTypeInit
<1>2. got = <<>> /\ DOMAIN got = {} /\ at \in {"send", "submit"} /\ outcome = "none"
  BY DEF CallInit
<1>3. CallsAccounted
  <2>1. attempt <= asked.retries + 1
    BY <1>1, AskedTyped DEF CallInit, CallTypeOK
  <2> QED
    BY <1>2, <2>1 DEF CallsAccounted, ChargesReported, AnswersFitRequests
<1>4. at = "send" => asked.via # "native"
  BY DEF CallInit
<1> QED
  BY <1>2, <1>3, <1>4, SendingInit DEF Accounting, CallInit

\* What the first request that is left asks for.
LEMMA NextInputs ==
  ASSUME CallTypeOK, Sending
  PROVE  /\ Size \in Nat \ {0} /\ Len(got) \in Nat /\ Len(asked.ids) \in Nat /\ Len(todo) \in Nat
         /\ Head(todo) \in Seq(Range(asked.ids))
         /\ Len(Head(todo)) = UpTo(Len(got) + Size) - Len(got)
         /\ \A k \in 1..Len(Head(todo)) : Head(todo)[k] = asked.ids[Len(got) + k]
         /\ Len(got) < UpTo(Len(got) + Size) /\ UpTo(Len(got) + Size) <= Len(asked.ids)
         /\ Len(todo) = 1 => UpTo(Len(got) + Size) = Len(asked.ids)
         /\ Len(todo) > 1 => UpTo(Len(got) + Size) = Len(got) + Size
<1> DEFINE N == Len(asked.ids)
           m == Len(got)
           L == Len(todo)
           S == Size
<1>1. /\ S \in Nat \ {0} /\ m \in Nat /\ N \in Nat /\ L \in Nat \ {0}
      /\ asked.ids \in Seq(Range(asked.ids))
  BY AskedTyped, CallsAssumption, LenProperties DEF CallTypeOK, Size, Sending
<1>2. m + (L - 1) * S < N /\ N <= m + L * S
  BY DEF Sending
<1>3. L = 1 => m < N /\ N <= m + S
  <2>1. 0 * S = 0 /\ 1 * S = S
    BY <1>1
  <2> QED
    BY <1>1, <1>2, <2>1
<1>4. L > 1 => m + S < N
  <2> SUFFICES ASSUME L > 1 PROVE m + S < N
    OBVIOUS
  <2>1. L - 2 \in Nat /\ (L - 2) * S >= 0
    BY <1>1
  <2>2. (L - 1) * S = (L - 2) * S + S
    BY <1>1
  <2> QED
    BY <1>1, <1>2, <2>1, <2>2
<1>5. /\ m < UpTo(m + S) /\ UpTo(m + S) <= N /\ UpTo(m + S) \in Nat
      /\ L = 1 => UpTo(m + S) = N
      /\ L > 1 => UpTo(m + S) = m + S
  <2>1. UpTo(m + S) = IF m + S < N THEN m + S ELSE N
    BY DEF UpTo
  <2> HIDE DEF m, N, L, S
  <2>2. CASE L = 1
    BY <1>1, <1>3, <2>1, <2>2
  <2>3. CASE L # 1
    <3>1. L > 1
      BY <1>1, <2>3
    <3> QED
      BY <1>1, <1>4, <2>1, <3>1
  <2> QED
    BY <2>2, <2>3
<1>6. Head(todo) = SubSeq(asked.ids, m + 1, UpTo(m + S))
  <2>1. Head(todo) = todo[1]
    BY <1>1, HeadTailProperties DEF CallTypeOK
  <2>2. todo[1] = SubSeq(asked.ids, m + (1 - 1) * S + 1, UpTo(m + 1 * S))
    BY <1>1 DEF Sending
  <2>3. m + (1 - 1) * S + 1 = m + 1 /\ m + 1 * S = m + S
    BY <1>1
  <2> QED
    BY <2>1, <2>2, <2>3
<1> HIDE DEF S
<1>7. /\ Head(todo) \in Seq(Range(asked.ids)) /\ Len(Head(todo)) = UpTo(m + S) - m
      /\ \A k \in 1..Len(Head(todo)) : Head(todo)[k] = asked.ids[m + k]
  <2>1. m + 1 \in 1..(N + 1) /\ UpTo(m + S) \in ((m + 1) - 1)..N
    BY <1>1, <1>5
  <2>2. /\ Head(todo) \in Seq(Range(asked.ids))
        /\ Len(Head(todo)) = UpTo(m + S) - (m + 1) + 1
        /\ \A k \in 1..(UpTo(m + S) - (m + 1) + 1) : Head(todo)[k] = asked.ids[(m + 1) + k - 1]
    <3> DEFINE i == m + 1
               j == UpTo(m + S)
    <3>1. asked.ids \in Seq(Range(asked.ids)) /\ i \in 1..(Len(asked.ids) + 1)
          /\ j \in (i - 1)..Len(asked.ids)
      BY <1>1, <2>1
    <3>2. Head(todo) = SubSeq(asked.ids, i, j)
      BY <1>6
    <3> HIDE DEF i, j
    <3>3. /\ SubSeq(asked.ids, i, j) \in Seq(Range(asked.ids))
          /\ Len(SubSeq(asked.ids, i, j)) = j - i + 1
          /\ \A k \in 1..(j - i + 1) : SubSeq(asked.ids, i, j)[k] = asked.ids[i + k - 1]
      BY ONLY <3>1, SubSeqFacts
    <3>4. /\ Head(todo) \in Seq(Range(asked.ids))
          /\ Len(Head(todo)) = j - i + 1
          /\ \A k \in 1..(j - i + 1) : Head(todo)[k] = asked.ids[i + k - 1]
      BY ONLY <3>2, <3>3
    <3> QED
      BY ONLY <3>4 DEF i, j
  <2> QED
    BY <1>1, <1>5, <2>2
<1> QED
  BY <1>1, <1>5, <1>7 DEF S

\* The items of an answer take the call to its next request, or to its end.
LEMMA MovesOn ==
  ASSUME CallTypeOK, Accounting, at = "send", NEW items \in Seq(ItemsOf(asked.ids)),
         Len(items) = Len(Head(todo)),
         \A k \in 1..Len(items) : /\ items[k].id = Head(todo)[k]
                                  /\ items[k].answer \in {items[k].id, "error"}
                                  /\ k > 1 => ~items[k].billed,
         NextRequest(got \o items), UNCHANGED silent,
         charged' = charged + (IF items[1].billed THEN 1 ELSE 0)
  PROVE  CallTypeOK' /\ Accounting'
<1> DEFINE N == Len(asked.ids)
           m == Len(got)
           L == Len(todo)
           S == Size
           n == UpTo(m + S)
<1>1. Sending /\ \A k \in DOMAIN got : got[k].answer \in {got[k].id, "error"}
  BY DEF Accounting
<1>2. /\ S \in Nat \ {0} /\ m \in Nat /\ N \in Nat /\ L \in Nat \ {0} /\ n \in Nat
      /\ Head(todo) \in Seq(Range(asked.ids))
      /\ Len(Head(todo)) = n - m
      /\ \A k \in 1..Len(Head(todo)) : Head(todo)[k] = asked.ids[m + k]
      /\ m < n /\ n <= N /\ (L = 1 => n = N) /\ (L # 1 => n = m + S /\ L - 1 > 0)
  <2>1. /\ S \in Nat \ {0} /\ m \in Nat /\ N \in Nat /\ L \in Nat \ {0}
        /\ Head(todo) \in Seq(Range(asked.ids)) /\ Len(Head(todo)) = n - m
        /\ \A k \in 1..Len(Head(todo)) : Head(todo)[k] = asked.ids[m + k]
        /\ m < n /\ n <= N /\ (L = 1 => n = N) /\ (L > 1 => n = m + S)
    <3>1. Len(todo) > 0
      BY <1>1 DEF Sending
    <3> QED
      BY <1>1, <3>1, NextInputs
  <2>2. n \in Nat
    BY <2>1 DEF UpTo
  <2> HIDE DEF n, m, L, N, S
  <2>3. L # 1 => L > 1 /\ L - 1 > 0
    BY <2>1
  <2> QED
    BY <2>1, <2>2, <2>3
<1>3. asked' = asked /\ S' = S /\ N' = N
  BY DEF NextRequest, End, Size
<1>4. /\ got' = got \o items /\ got' \in Seq(ItemsOf(asked.ids)) /\ Len(got') = n
      /\ DOMAIN got' = 1..n
      /\ \A k \in 1..n : got'[k] = IF k <= m THEN got[k] ELSE items[k - m]
  <2>1. got' = got \o items
    BY DEF NextRequest
  <2>2. /\ got \o items \in Seq(ItemsOf(asked.ids)) /\ Len(got \o items) = m + Len(items)
        /\ \A k \in 1..(m + Len(items)) :
              (got \o items)[k] = IF k <= m THEN got[k] ELSE items[k - m]
    <3>1. got \in Seq(ItemsOf(asked.ids)) /\ items \in Seq(ItemsOf(asked.ids))
      BY DEF CallTypeOK
    <3>2. /\ got \o items \in Seq(ItemsOf(asked.ids))
          /\ Len(got \o items) = Len(got) + Len(items)
          /\ \A k \in 1..(Len(got) + Len(items)) :
                (got \o items)[k] = IF k <= Len(got) THEN got[k] ELSE items[k - Len(got)]
      <4> HIDE DEF n, m, L, N, S
      <4> QED
        BY ONLY <3>1, ConcatProperties
    <3> QED
      BY <3>2
  <2>3. m + Len(items) = n
    <3> HIDE DEF n, m, L, N, S
    <3> QED
      BY <1>2
  <2>4. DOMAIN (got \o items) = 1..n
    BY <2>2, <2>3, LenProperties
  <2> QED
    BY <2>1, <2>2, <2>3, <2>4
<1>5. /\ \A k \in 1..n : got'[k].id = asked.ids[k]
      /\ \A k \in 1..n : got'[k].answer \in {got'[k].id, "error"}
  <2> SUFFICES ASSUME NEW k \in 1..n
               PROVE  got'[k].id = asked.ids[k] /\ got'[k].answer \in {got'[k].id, "error"}
    OBVIOUS
  <2>1. CASE k <= m
    <3>1. got'[k] = got[k] /\ k \in 1..m /\ k \in DOMAIN got
      BY <1>2, <1>4, <2>1, LenProperties DEF CallTypeOK
    <3> QED
      BY <1>1, <3>1 DEF Sending
  <2>2. CASE k > m
    <3> HIDE DEF n, m, L, N, S
    <3>0. /\ m \in Nat /\ n \in Nat /\ k \in 1..n /\ Len(items) = n - m
          /\ got'[k] = IF k <= m THEN got[k] ELSE items[k - m]
      BY <1>2, <1>4
    <3>1. k - m \in 1..Len(items) /\ m + (k - m) = k
      BY ONLY <2>2, <3>0
    <3>2. got'[k] = items[k - m]
      BY ONLY <2>2, <3>0
    <3>3. \A i \in 1..Len(items) :
             items[i].id = asked.ids[m + i] /\ items[i].answer \in {items[i].id, "error"}
      BY <1>2
    <3> QED
      BY ONLY <3>1, <3>2, <3>3
  <2> QED
    BY <1>2, <2>1, <2>2
<1>6. charged' = Reported(got') /\ charged' \in Nat
  <2>1. Len(items) > 0 /\ \A k \in 2..Len(items) : ~items[k].billed
    BY <1>2
  <2>2. Reported(got') = Reported(got) + (IF items[1].billed THEN 1 ELSE 0)
    BY <1>4, <2>1, ReportedGrows DEF CallTypeOK
  <2>3. charged = Reported(got) /\ charged \in Nat
    BY <1>1 DEF Sending, CallTypeOK
  <2> QED
    BY <2>2, <2>3
<1>7. ~silent' /\ outcome = "none" /\ asked.via # "native"
  BY <1>1 DEF Sending
<1>8. CASE L = 1
  <2>1. at' = "end" /\ outcome' = "result" /\ usage' = Reported(got') /\ UNCHANGED <<todo, attempt>>
    BY <1>4, <1>8 DEF NextRequest, End
  <2>2. [k \in DOMAIN got' |-> got'[k].id] = asked.ids
    <3>1. asked.ids = [k \in 1..N |-> asked.ids[k]]
      BY AskedTyped DEF CallTypeOK
    <3> QED
      BY <1>2, <1>4, <1>5, <1>8, <3>1
  <2>3. CallTypeOK'
    BY <1>3, <1>4, <1>6, <2>1 DEF CallTypeOK, StepsOfCall, Outcomes
  <2>4. CallsAccounted'
    <3>1. ChargesReported'
      BY <1>6, <2>1 DEF ChargesReported
    <3>2. AnswersFitRequests'
      BY <1>3, <1>4, <1>5, <2>1, <2>2
      DEF AnswersFitRequests, Accounting, CallsAccounted
    <3> QED
      BY <3>1, <3>2 DEF CallsAccounted
  <2> QED
    BY <1>4, <1>5, <2>1, <2>3, <2>4 DEF Accounting
<1>9. CASE L # 1
  <2>1. todo' = Tail(todo) /\ attempt' = 1 /\ UNCHANGED <<asked, at, outcome, usage>>
    BY <1>9 DEF NextRequest
  <2>2. /\ todo' \in Seq(Seq(Range(asked.ids))) /\ Len(todo') = L - 1
        /\ \A j \in 1..(L - 1) : todo'[j] = todo[j + 1]
    BY <1>2, <1>9, <2>1, HeadTailProperties DEF CallTypeOK
  <2>3. CallTypeOK'
    BY <1>3, <1>4, <1>6, <2>1, <2>2 DEF CallTypeOK
  <2>4. n = m + S
    BY <1>2, <1>9
  <2>5. n + ((L - 1) - 1) * S < N /\ N <= n + (L - 1) * S
    <3>1. m + (L - 1) * S < N /\ N <= m + L * S
      BY <1>1 DEF Sending
    <3>2. (L - 1) * S = ((L - 1) - 1) * S + S /\ L * S = (L - 1) * S + S
      BY <1>2, <1>9
    <3>3. ((L - 1) - 1) * S \in Int /\ (L - 1) * S \in Int /\ L * S \in Int
      BY <1>2
    <3> QED
      BY <1>2, <2>4, <3>1, <3>2, <3>3
  <2>6. ASSUME NEW j \in 1..(L - 1)
        PROVE  todo'[j] = SubSeq(asked.ids, n + (j - 1) * S + 1, UpTo(n + j * S))
    <3>1. j + 1 \in 1..L
      BY <1>2, <2>6
    <3>2. todo[j + 1] = SubSeq(asked.ids, m + ((j + 1) - 1) * S + 1, UpTo(m + (j + 1) * S))
      BY <1>1, <3>1 DEF Sending
    <3>3. m + ((j + 1) - 1) * S + 1 = n + (j - 1) * S + 1 /\ m + (j + 1) * S = n + j * S
      <4>1. ((j + 1) - 1) * S = (j - 1) * S + S /\ (j + 1) * S = j * S + S
        BY <1>2, <2>6
      <4>2. (j - 1) * S \in Int /\ j * S \in Int
        BY <1>2, <2>6
      <4> QED
        BY <1>2, <2>4, <4>1, <4>2
    <3> QED
      BY <2>2, <3>2, <3>3
  <2>7. Sending'
    <3>1. L - 1 > 0
      BY <1>2, <1>9
    <3> HIDE DEF S, n, m, L, N
    <3>2. \A j \in 1..Len(todo') :
             todo'[j] = SubSeq(asked'.ids, Len(got') + (j - 1) * S + 1, UpTo(Len(got') + j * S))
      BY <1>3, <1>4, <2>2, <2>6
    <3> QED
      BY <1>3, <1>4, <1>5, <1>6, <1>7, <2>1, <2>2, <2>5, <3>1, <3>2 DEF Sending, UpTo, N, S
  <2>8. CallsAccounted'
    BY <1>1, <1>7, <2>1, AskedTyped
    DEF CallsAccounted, ChargesReported, AnswersFitRequests, CallTypeOK
  <2> QED
    BY <1>4, <1>5, <2>1, <2>3, <2>7, <2>8 DEF Accounting
<1> QED
  BY <1>8, <1>9

\* An aligned listing has for every charged answer one item that carries it.
LEMMA AlignedBatch ==
  ASSUME CallTypeOK, asked.via = "native", NEW raw \in RawItems, ~Misaligned(raw)
  PROVE  LET items == [k \in DOMAIN asked.ids |-> ItemOf(raw, k)]
             metered == {i \in DOMAIN raw : raw[i].type # "errored" /\ raw[i].metered}
         IN  /\ items \in Seq(ItemsOf(asked.ids))
             /\ DOMAIN items = DOMAIN asked.ids
             /\ \A k \in DOMAIN items : /\ items[k].id = asked.ids[k]
                                        /\ items[k].answer \in {items[k].id, "error"}
             /\ Cardinality(metered) = Reported(items)
<1> DEFINE N == Len(asked.ids)
           items == [k \in DOMAIN asked.ids |-> ItemOf(raw, k)]
           metered == {i \in DOMAIN raw : raw[i].type # "errored" /\ raw[i].metered}
           carried == {k \in DOMAIN items : items[k].billed}
           Own(k) == {i \in DOMAIN raw : raw[i].id = asked.ids[k]}
<1>1. /\ N \in Nat /\ DOMAIN asked.ids = 1..N
      /\ \A k \in 1..N : asked.ids[k] \in Range(asked.ids)
  BY AskedTyped DEF CallTypeOK
<1>2. PICK n \in 0..N :
         raw \in [1..n -> [id : ToSet(asked.ids) \cup {"unknown"},
                           type : {"ok", "errored", "unusable"}, metered : BOOLEAN]]
  BY DEF RawItems
<1>3. \A i \in DOMAIN raw : \E k \in 1..N : raw[i].id = asked.ids[k]
  BY <1>1 DEF Misaligned, ToSet
<1>4. \A i, j \in DOMAIN raw : raw[i].id = raw[j].id => i = j
  BY DEF Misaligned
<1>5. \A j, k \in 1..N : asked.ids[j] = asked.ids[k] => j = k
  BY <1>1, CallsAssumption DEF CallTypeOK, IsInjective
<1>6. ASSUME NEW k \in 1..N
      PROVE  /\ ItemOf(raw, k) \in ItemsOf(asked.ids)
             /\ ItemOf(raw, k).id = asked.ids[k]
             /\ ItemOf(raw, k).answer \in {ItemOf(raw, k).id, "error"}
             /\ ItemOf(raw, k).billed <=> \E i \in metered : raw[i].id = asked.ids[k]
  <2>1. CASE Own(k) = {}
    <3>1. ItemOf(raw, k) = [id |-> asked.ids[k], answer |-> "error", billed |-> FALSE]
      BY <2>1 DEF ItemOf
    <3>2. ~ \E i \in metered : raw[i].id = asked.ids[k]
      BY <2>1
    <3> QED
      BY <1>1, <3>1, <3>2 DEF ItemsOf
  <2>2. CASE Own(k) # {}
    <3> DEFINE i == CHOOSE j \in Own(k) : TRUE
    <3>1. i \in Own(k)
      BY <2>2
    <3> HIDE DEF i
    <3>2. /\ i \in DOMAIN raw /\ raw[i].id = asked.ids[k] /\ raw[i].metered \in BOOLEAN
          /\ raw[i].type \in {"ok", "errored", "unusable"}
      BY <1>2, <3>1
    <3>3. ItemOf(raw, k) = [id |-> raw[i].id,
                            answer |-> IF raw[i].type = "ok" /\ raw[i].metered
                                       THEN raw[i].id ELSE "error",
                            billed |-> raw[i].type # "errored" /\ raw[i].metered]
      BY <2>2 DEF ItemOf, i
    <3>4. ItemOf(raw, k).billed <=> i \in metered
      <4>1. ItemOf(raw, k).billed = (raw[i].type # "errored" /\ raw[i].metered)
        BY <3>3
      <4>2. i \in metered <=> raw[i].type # "errored" /\ raw[i].metered
        BY <3>2
      <4> HIDE DEF metered
      <4> QED
        BY <4>1, <4>2, Zenon
    <3>5. \A j \in metered : raw[j].id = asked.ids[k] => j = i
      BY <1>4, <3>2
    <3>6. ItemOf(raw, k) \in ItemsOf(asked.ids)
      BY <1>1, <3>2, <3>3 DEF ItemsOf
    <3> HIDE DEF metered
    <3> QED
      BY <3>2, <3>3, <3>4, <3>5, <3>6
  <2> QED
    BY <2>1, <2>2
<1>7. items \in [1..N -> ItemsOf(asked.ids)] /\ items \in Seq(ItemsOf(asked.ids))
  <2>1. items \in [1..N -> ItemsOf(asked.ids)]
    BY <1>1, <1>6
  <2> HIDE DEF items
  <2> QED
    BY <1>1, <2>1, FunctionIsSeq
<1>8. Cardinality(metered) = Cardinality(carried)
  <2> DEFINE f == [k \in carried |-> CHOOSE i \in metered : raw[i].id = asked.ids[k]]
  <2>1. \A k \in carried : k \in 1..N /\ f[k] \in metered /\ raw[f[k]].id = asked.ids[k]
    BY <1>1, <1>6
  <2>2. \A i \in metered : \E k \in carried : raw[i].id = asked.ids[k]
    BY <1>1, <1>3, <1>6
  <2>3. IsFiniteSet(carried)
    BY <1>7, ReportedTyped
  <2>4. f \in [carried -> metered]
    BY <2>1
  <2> HIDE DEF f, carried
  <2>5. \A i \in metered : \E k \in carried : f[k] = i
    BY <1>4, <2>1, <2>2
  <2>6. \A j, k \in carried : f[j] = f[k] => j = k
    BY <1>5, <2>1
  <2> HIDE DEF metered
  <2>7. f \in Surjection(carried, metered) /\ f \in Injection(carried, metered)
    BY <2>4, <2>5, <2>6 DEF Surjection, Injection, IsInjective
  <2> QED
    BY <2>3, <2>7, FS_Surjection
<1> QED
  BY <1>1, <1>6, <1>7, <1>8 DEF Reported

LEMMA AcceptedCounts ==
  ASSUME CallTypeOK, Accounting, Accepted PROVE CallTypeOK' /\ Accounting'
<1> DEFINE items == [k \in DOMAIN Head(todo) |->
                       [id |-> Head(todo)[k], answer |-> Head(todo)[k], billed |-> k = 1]]
<1>1. Sending
  BY DEF Accepted, Accounting
<1>2. /\ Head(todo) \in Seq(Range(asked.ids)) /\ Len(Head(todo)) \in Nat
      /\ DOMAIN Head(todo) = 1..Len(Head(todo)) /\ Len(Head(todo)) > 0
      /\ \A k \in 1..Len(Head(todo)) : Head(todo)[k] \in Range(asked.ids)
  <2>1. /\ Head(todo) \in Seq(Range(asked.ids))
        /\ Len(Head(todo)) = UpTo(Len(got) + Size) - Len(got)
        /\ Len(got) < UpTo(Len(got) + Size) /\ Len(got) \in Nat
        /\ Size \in Nat /\ Len(asked.ids) \in Nat
    BY <1>1, NextInputs
  <2>2. UpTo(Len(got) + Size) \in Nat
    BY <2>1 DEF UpTo
  <2> QED
    BY <2>1, <2>2, LenProperties
<1>3. items \in Seq(ItemsOf(asked.ids)) /\ Len(items) = Len(Head(todo))
  <2>1. items \in [1..Len(Head(todo)) -> ItemsOf(asked.ids)]
    BY <1>2 DEF ItemsOf
  <2> HIDE DEF items
  <2> QED
    BY <1>2, <2>1, FunctionIsSeq
<1>4. \A k \in 1..Len(items) : /\ items[k].id = Head(todo)[k]
                               /\ items[k].answer \in {items[k].id, "error"}
                               /\ k > 1 => ~items[k].billed
  <2> SUFFICES ASSUME NEW k \in 1..Len(items)
               PROVE  /\ items[k].id = Head(todo)[k]
                      /\ items[k].answer \in {items[k].id, "error"}
                      /\ k > 1 => ~items[k].billed
    OBVIOUS
  <2>1. items[k] = [id |-> Head(todo)[k], answer |-> Head(todo)[k], billed |-> k = 1]
    BY <1>2, <1>3
  <2>2. k > 1 => k # 1
    BY <1>2, <1>3
  <2> HIDE DEF items
  <2>3. items[k].billed = (k = 1)
    BY <2>1
  <2>4. ASSUME k > 1 PROVE ~items[k].billed
    <3>1. k # 1
      BY <2>2, <2>4
    <3> QED
      BY <2>3, <3>1, Zenon
  <2>5. items[k].id = Head(todo)[k] /\ items[k].answer = Head(todo)[k]
    BY <2>1
  <2> QED
    BY <2>4, <2>5
<1>5. items[1].billed
  <2>1. 1 \in DOMAIN Head(todo)
    BY <1>2
  <2>2. items[1] = [id |-> Head(todo)[1], answer |-> Head(todo)[1], billed |-> 1 = 1]
    BY <2>1
  <2> HIDE DEF items
  <2>3. items[1].billed = (1 = 1)
    BY <2>2
  <2> QED
    BY <2>3, Zenon
<1>6. at = "send" /\ NextRequest(got \o items) /\ UNCHANGED silent /\ charged' = charged + 1
  BY DEF Accepted
<1> HIDE DEF items
<1> QED
  BY <1>3, <1>4, <1>5, <1>6, MovesOn

\* An item of a sequential batch that has no answer of its own.
LEMMA ErrorItemCounts ==
  ASSUME CallTypeOK, Accounting, at = "send", asked.via = "sequential",
         NEW billed \in BOOLEAN,
         NextRequest(Append(got, [id |-> Head(Head(todo)), answer |-> "error", billed |-> billed])),
         UNCHANGED silent, charged' = charged + (IF billed THEN 1 ELSE 0)
  PROVE  CallTypeOK' /\ Accounting'
<1> DEFINE item == [id |-> Head(Head(todo)), answer |-> "error", billed |-> billed]
           items == <<item>>
<1>1. Sending
  BY DEF Accounting
<1>2. /\ Head(todo) \in Seq(Range(asked.ids)) /\ Len(Head(todo)) = 1
  <2>1. /\ Head(todo) \in Seq(Range(asked.ids))
        /\ Len(Head(todo)) = UpTo(Len(got) + Size) - Len(got)
        /\ Len(got) < UpTo(Len(got) + Size) /\ Len(got) \in Nat /\ Len(asked.ids) \in Nat
    BY <1>1, NextInputs
  <2>2. Size = 1
    BY DEF Size
  <2>3. UpTo(Len(got) + Size) = Len(got) + 1
    BY <2>1, <2>2 DEF UpTo
  <2>4. (Len(got) + 1) - Len(got) = 1
    BY <2>1
  <2>5. Len(Head(todo)) = (Len(got) + 1) - Len(got)
    BY <2>1, <2>3, Zenon
  <2> QED
    BY <2>1, <2>4, <2>5
<1>3. Head(Head(todo)) = Head(todo)[1] /\ Head(todo)[1] \in Range(asked.ids)
  BY <1>2, HeadTailProperties, LenProperties
<1>4. item \in ItemsOf(asked.ids) /\ item.id = Head(todo)[1] /\ item.answer = "error"
  BY <1>3 DEF ItemsOf
<1>5. item.billed = billed
  OBVIOUS
<1>6. NextRequest(Append(got, item))
  OBVIOUS
<1> HIDE DEF item
<1>7. /\ items \in Seq(ItemsOf(asked.ids)) /\ Len(items) = 1 /\ items[1] = item
      /\ Append(got, item) = got \o items
  BY <1>4, AppendIsConcat DEF CallTypeOK
<1> HIDE DEF items
<1>8. \A k \in 1..Len(items) : /\ items[k].id = Head(todo)[k]
                               /\ items[k].answer \in {items[k].id, "error"}
                               /\ k > 1 => ~items[k].billed
  BY <1>4, <1>7
<1>9. charged' = charged + (IF items[1].billed THEN 1 ELSE 0) /\ NextRequest(got \o items)
  BY <1>5, <1>6, <1>7
<1> QED
  BY <1>2, <1>7, <1>8, <1>9, MovesOn

\* A call that ends without a result.
LEMMA EndsEarly ==
  ASSUME CallTypeOK, Accounting, NEW what \in Outcomes \ {"result"}, NEW tokens \in Nat,
         End(what, tokens), UNCHANGED got, charged' \in Nat, silent' \in BOOLEAN,
         ~silent' => charged' = tokens
  PROVE  CallTypeOK' /\ Accounting'
<1>1. CallTypeOK'
  BY DEF CallTypeOK, End, StepsOfCall
<1>2. CallsAccounted'
  BY DEF End, Accounting, CallsAccounted, ChargesReported, AnswersFitRequests
<1> QED
  BY <1>1, <1>2 DEF End, Accounting

LEMMA RejectedCounts ==
  ASSUME CallTypeOK, Accounting, Rejected PROVE CallTypeOK' /\ Accounting'
<1>1. Sending /\ at = "send" /\ asked.via # "native"
  BY DEF Rejected, Accounting, Sending
<1>2. PICK metered \in BOOLEAN :
         /\ charged' = charged + (IF metered THEN 1 ELSE 0)
         /\ CASE asked.via \in {"anthropic", "vertex", "vertex_embed"} ->
                    End("rejected", BilledFailure(metered)) /\ UNCHANGED <<got, silent>>
              [] asked.via = "vllm" ->
                    End("rejected", 0) /\ silent' = (silent \/ metered) /\ UNCHANGED got
              [] asked.via = "sequential" ->
                    NextRequest(Append(got, [id |-> Head(Head(todo)), answer |-> "error",
                                         billed |-> BilledFailure(metered) > 0]))
                    /\ UNCHANGED silent
  BY DEF Rejected
<1>3. Reported(got) \in Nat /\ charged = Reported(got) /\ ~silent /\ charged' \in Nat
  BY <1>1, <1>2, ReportedTyped DEF CallTypeOK, Sending
<1>4. CASE asked.via \in {"anthropic", "vertex", "vertex_embed"}
  <2>1. End("rejected", BilledFailure(metered)) /\ UNCHANGED <<got, silent>>
    BY <1>2, <1>4
  <2>2. asked.via # "vertex_embed" => Reported(got) = 0
    <3>1. SUFFICES ASSUME asked.via # "vertex_embed" PROVE Reported(got) = 0
      OBVIOUS
    <3>2. Len(asked.ids) = 1 /\ Size = 1
      BY <1>4, <3>1, CallsAssumption DEF CallTypeOK, Size
    <3>3. Len(got) = 0
      BY <1>1, <3>2, NextInputs DEF UpTo
    <3>4. {k \in DOMAIN got : got[k].billed} = {}
      BY <3>3, LenProperties DEF CallTypeOK
    <3> QED
      BY <3>4, FS_EmptySet DEF Reported
  <2>3. BilledFailure(metered) = charged'
    BY <1>2, <1>3, <2>2 DEF BilledFailure
  <2>4. silent' \in BOOLEAN /\ "rejected" \in Outcomes \ {"result"} /\ UNCHANGED got
    BY <2>1 DEF CallTypeOK, Outcomes
  <2> QED
    BY <1>3, <2>1, <2>3, <2>4, EndsEarly
<1>5. CASE asked.via = "vllm"
  <2>1. End("rejected", 0) /\ silent' = (silent \/ metered) /\ UNCHANGED got
    BY <1>2, <1>5
  <2>2. Reported(got) = 0
    <3>2. Len(asked.ids) = 1 /\ Size = 1
      BY <1>5, CallsAssumption DEF CallTypeOK, Size
    <3>3. Len(got) = 0
      BY <1>1, <3>2, NextInputs DEF UpTo
    <3>4. {k \in DOMAIN got : got[k].billed} = {}
      BY <3>3, LenProperties DEF CallTypeOK
    <3> QED
      BY <3>4, FS_EmptySet DEF Reported
  <2>3. ~silent' => charged' = 0
    BY <1>2, <1>3, <2>1, <2>2
  <2> QED
    BY <1>3, <2>1, <2>3, EndsEarly DEF Outcomes, CallTypeOK
<1>6. CASE asked.via = "sequential"
  <2>1. (BilledFailure(metered) > 0) = metered
    BY <1>6 DEF BilledFailure
  <2>2. NextRequest(Append(got, [id |-> Head(Head(todo)), answer |-> "error", billed |-> metered]))
        /\ UNCHANGED silent
    BY <1>2, <1>6, <2>1
  <2> QED
    BY <1>1, <1>2, <1>6, <2>2, ErrorItemCounts
<1>7. asked.via \in Vias
  BY CallsAssumption DEF CallTypeOK
<1> QED
  BY <1>1, <1>4, <1>5, <1>6, <1>7 DEF Vias

LEMMA FetchCounts ==
  ASSUME CallTypeOK, Accounting, FetchBatch PROVE CallTypeOK' /\ Accounting'
<1> DEFINE items(raw) == [k \in DOMAIN asked.ids |-> ItemOf(raw, k)]
           metered(raw) == {i \in DOMAIN raw : raw[i].type # "errored" /\ raw[i].metered}
<1>1. asked.via = "native" /\ charged = 0 /\ ~silent /\ got = <<>>
  BY DEF FetchBatch, Accounting
<1>2. PICK raw \in RawItems :
         IF Misaligned(raw) \/ ~OneToOne(items(raw))
         THEN /\ End("batch_error", 0)
              /\ charged' = charged + Cardinality(metered(raw))
              /\ silent' = (metered(raw) # {}) /\ UNCHANGED got
         ELSE /\ charged' = charged + Cardinality(metered(raw))
              /\ got' = items(raw) /\ UNCHANGED silent
              /\ End("result", Reported(items(raw)))
  BY DEF FetchBatch
<1>3. IsFiniteSet(metered(raw)) /\ Cardinality(metered(raw)) \in Nat
  <2>1. PICK n \in 0..Len(asked.ids) : DOMAIN raw = 1..n
    BY DEF RawItems
  <2>2. IsFiniteSet(1..n)
    BY FS_Interval
  <2> QED
    BY <2>1, <2>2, FS_Subset, FS_CardinalityType
<1>4. charged' = Cardinality(metered(raw)) /\ charged' \in Nat
  BY <1>1, <1>2, <1>3
<1>5. CASE Misaligned(raw) \/ ~OneToOne(items(raw))
  <2>1. End("batch_error", 0) /\ silent' = (metered(raw) # {}) /\ UNCHANGED got
    BY <1>2, <1>5
  <2>2. ~silent' => charged' = 0
    BY <1>4, <2>1, FS_EmptySet
  <2> QED
    BY <1>4, <2>1, <2>2, EndsEarly DEF Outcomes
<1>6. CASE ~Misaligned(raw) /\ OneToOne(items(raw))
  <2>1. got' = items(raw) /\ UNCHANGED silent /\ End("result", Reported(items(raw)))
    BY <1>2, <1>6
  <2>2. /\ items(raw) \in Seq(ItemsOf(asked.ids))
        /\ DOMAIN items(raw) = DOMAIN asked.ids
        /\ \A k \in DOMAIN items(raw) : /\ items(raw)[k].id = asked.ids[k]
                                        /\ items(raw)[k].answer \in {items(raw)[k].id, "error"}
        /\ Cardinality(metered(raw)) = Reported(items(raw))
    BY <1>1, <1>6, AlignedBatch
  <2> HIDE DEF items, metered
  <2>3. /\ asked' = asked /\ at' = "end" /\ outcome' = "result"
        /\ usage' = Reported(items(raw)) /\ UNCHANGED <<todo, attempt>>
    BY <2>1 DEF End
  <2>4. Reported(items(raw)) \in Nat
    BY <1>3, <2>2
  <2>5. CallTypeOK'
    BY <1>4, <2>1, <2>2, <2>3, <2>4 DEF CallTypeOK, StepsOfCall, Outcomes
  <2>6. [k \in DOMAIN got' |-> got'[k].id] = asked.ids
    <3>1. asked.ids = [k \in DOMAIN asked.ids |-> asked.ids[k]]
      BY AskedTyped DEF CallTypeOK
    <3>2. [k \in DOMAIN got' |-> got'[k].id] = [k \in DOMAIN asked.ids |-> asked.ids[k]]
      BY <2>1, <2>2
    <3> QED
      BY <3>1, <3>2
  <2>7. CallsAccounted'
    <3>1. ChargesReported'
      BY <1>4, <2>2, <2>3 DEF ChargesReported
    <3>2. attempt' <= asked'.retries + 1
      BY <2>3 DEF Accounting, CallsAccounted, AnswersFitRequests
    <3>3. AnswersFitRequests'
      BY <2>1, <2>2, <2>3, <2>6, <3>2 DEF AnswersFitRequests
    <3> QED
      BY <3>1, <3>3 DEF CallsAccounted
  <2> QED
    BY <2>1, <2>2, <2>3, <2>5, <2>7 DEF Accounting
<1> QED
  BY <1>5, <1>6

LEMMA UnansweredCounts ==
  ASSUME CallTypeOK, Accounting, Unanswered PROVE CallTypeOK' /\ Accounting'
<1>1. at = "send" /\ Sending /\ UNCHANGED charged
  BY DEF Unanswered, Accounting
<1>2. Reported(got) \in Nat /\ charged = Reported(got) /\ ~silent /\ charged' \in Nat
  BY <1>1, ReportedTyped DEF CallTypeOK, Sending
<1>3. CASE asked.via = "sequential"
  <2>1. /\ NextRequest(Append(got, [id |-> Head(Head(todo)), answer |-> "error", billed |-> FALSE]))
        /\ UNCHANGED silent /\ charged' = charged + (IF FALSE THEN 1 ELSE 0)
    BY <1>1, <1>2, <1>3 DEF Unanswered
  <2> QED
    BY <1>1, <1>3, <2>1, ErrorItemCounts
<1>4. CASE asked.via # "sequential"
  <2>1. End("failed", 0) /\ silent' = (silent \/ Reported(got) > 0) /\ UNCHANGED got
    BY <1>4 DEF Unanswered
  <2>2. silent' \in BOOLEAN
    BY <1>2, <2>1 DEF CallTypeOK
  <2>3. ASSUME ~silent' PROVE charged' = 0
    <3>1. ~(Reported(got) > 0)
      BY <2>1, <2>3, Zenon
    <3> QED
      BY <1>1, <1>2, <3>1
  <2> QED
    BY <1>2, <2>1, <2>2, <2>3, EndsEarly DEF Outcomes
<1> QED
  BY <1>3, <1>4

LEMMA AccountingStep ==
  CallTypeOK /\ Accounting /\ [CallNext]_callVars => CallTypeOK' /\ Accounting'
<1> SUFFICES ASSUME CallTypeOK, Accounting, [CallNext]_callVars
             PROVE  CallTypeOK' /\ Accounting'
  OBVIOUS
<1>1. CASE Accepted
  BY <1>1, AcceptedCounts
<1>2. CASE Rejected
  BY <1>2, RejectedCounts
<1>3. CASE VectorsDisagree
  <2>1. /\ End("rejected", 0) /\ silent' = TRUE /\ UNCHANGED got
        /\ charged' \in Nat /\ "rejected" \in Outcomes \ {"result"}
    BY <1>3 DEF VectorsDisagree, CallTypeOK, Outcomes
  <2> QED
    BY <2>1, EndsEarly
<1>4. CASE Transient
  <2>1. /\ at = "send" /\ attempt <= asked.retries /\ attempt' = attempt + 1
        /\ UNCHANGED <<asked, at, todo, got, outcome, usage, charged, silent>>
    BY <1>4 DEF Transient, MayRetry
  <2>2. attempt' \in Nat /\ attempt' <= asked.retries + 1
    BY <2>1, AskedTyped DEF CallTypeOK
  <2>3. CallTypeOK'
    BY <2>1, <2>2 DEF CallTypeOK
  <2>4. Sending'
    BY <2>1 DEF Accounting, Sending, UpTo, Size
  <2>5. CallsAccounted'
    BY <2>1, <2>2 DEF Accounting, CallsAccounted, ChargesReported, AnswersFitRequests
  <2> QED
    BY <2>1, <2>3, <2>4, <2>5 DEF Accounting
<1>5. CASE Unanswered
  BY <1>5, UnansweredCounts
<1>6. CASE SubmitBatch \/ PollBatch
  <2>1. /\ at \in {"submit", "poll"} /\ at' \in {"poll", "fetch"}
        /\ UNCHANGED <<asked, todo, attempt, got, outcome, usage, charged, silent>>
    BY <1>6 DEF SubmitBatch, PollBatch
  <2> QED
    BY <2>1
    DEF CallTypeOK, StepsOfCall, Accounting, CallsAccounted, ChargesReported, AnswersFitRequests
<1>7. CASE FetchBatch
  BY <1>7, FetchCounts
<1>8. CASE BatchFails
  <2>1. /\ End("batch_error", 0) /\ UNCHANGED <<got, charged, silent>> /\ charged = 0
        /\ "batch_error" \in Outcomes \ {"result"}
    BY <1>8 DEF BatchFails, Accounting, Outcomes
  <2> QED
    BY <2>1, EndsEarly DEF CallTypeOK
<1>9. CASE UNCHANGED callVars
  BY <1>9 DEF callVars, CallTypeOK, Accounting, Sending, UpTo, Size, CallsAccounted,
              ChargesReported, AnswersFitRequests
<1> QED
  BY <1>1, <1>2, <1>3, <1>4, <1>5, <1>6, <1>7, <1>8, <1>9 DEF CallNext

\* Whatever the service answers, refuses or lists, for any calls and sizes of a request: a
\* call reports every token it was charged, but for the losses that "silent" marks; a result
\* has one item for every input, in the order asked, its own answer or an error; and retries
\* stay in their bound (base.py:454-470, 1123-1184, vertex.py:576-593, 654-670).
THEOREM CallsAreAccounted == CallSpec => []CallsAccounted
<1>1. CallInit => CallTypeOK /\ Accounting
  BY CallTypeInit, AccountingInit
<1>2. CallTypeOK /\ Accounting /\ [CallNext]_callVars => CallTypeOK' /\ Accounting'
  BY AccountingStep
<1>3. Accounting => CallsAccounted
  BY DEF Accounting
<1> QED
  BY <1>1, <1>2, <1>3, PTL DEF CallSpec

------------------------------------------------------------------------------
(* TransformModels: the rows of a parent follow its fingerprint            *)

Inputs == [docs : [Docs -> Texts \cup {Gone}], aliases : References, code : {1, 2}]

\* What one document gives, and every row there can be.
RowsLinked(d, t, r, c) ==
    {[link |-> l, version |-> ReferenceFingerprint(r, LinkOptions), code |-> c]
       : l \in DocumentLinks[d][t][r]}
LinkedRows ==
    UNION {RowsLinked(d, t, r, c) : d \in Docs, t \in Texts, r \in References, c \in {1, 2}}

TextPrint(t, r, c) == <<t, FrameFingerprint(r), c>>
Prints == {TextPrint(t, r, c) : t \in Texts, r \in References, c \in {1, 2}}

TransformSteps ==
    {"idle", "read", "classify", "invoke", "remove", "children", "replace", "baseline"}
Jobs ==
    [at : TransformSteps, full : BOOLEAN, loaded : {0, 1, 2}, input : Inputs \cup {<<>>},
     incremental : BOOLEAN, todo : SUBSET Docs, changed : SUBSET Docs,
     removed : SUBSET Docs, rows : SUBSET LinkedRows]

TransformTypeOK ==
    /\ upstream \in Inputs
    /\ target \in [exists : BOOLEAN, rows : SUBSET LinkedRows]
    /\ known \in [Docs -> Prints \cup {Unknown}]
    /\ job \in Jobs
    /\ job.at # "idle" => job.input \in Inputs /\ job.loaded \in {1, 2}
    /\ edits \in Nat /\ deaths \in Nat /\ torn \in BOOLEAN

RowsOf(rows, d) == {r \in rows : r.link.doc = d}
Follow ==
    \A d \in Docs : RowsOf(target.rows, d) = IF known[d] = Unknown THEN {}
                                              ELSE LinkedAs(d, known[d])

\* The parents as read, by the code as it was loaded.
Loaded == [job.input EXCEPT !.code = job.loaded]

\* From its classification on, an incremental run works on rows that follow the state,
\* and deletes what the state knows of the parents it links anew.
Following ==
    /\ ~target.exists => target.rows = {}
    /\ ChildrenFollowState
    /\ job.at \in {"remove", "children"} => job.incremental
    /\ job.at = "children" => job.todo # {}
    /\ job.at \in {"replace", "baseline"} => ~job.incremental
    /\ job.incremental =>
          /\ job.at \in {"invoke", "remove", "children"}
          /\ torn \/ Follow
          /\ job.todo \subseteq Present(job.input)
          /\ job.changed = {d \in job.todo : known[d] # Unknown}
          /\ job.removed \cap Present(job.input) = {}
          /\ job.at # "invoke" /\ job.todo # {} => job.rows = Output(Loaded, job.todo)
    /\ job.at \in {"invoke", "replace", "baseline"} /\ ~job.incremental =>
          /\ job.todo = Present(job.input)
          /\ job.at # "invoke" => job.rows = Output(Loaded, Docs)
          /\ job.at = "baseline" => target.rows = job.rows

LEMMA TextsTyped == \A t \in Texts : t # Gone
  BY TransformAssumption DEF Gone

LEMMA RowsOfDocument ==
  ASSUME NEW d \in Docs, NEW t \in Texts, NEW r \in References
  PROVE  \A l \in DocumentLinks[d][t][r] : l.doc = d
<1> DEFINE m == [id |-> d, doc |-> d, text |-> t]
           ms == <<m>>
           resolved == [i \in DOMAIN ms |-> Resolve(r, LinkOptions, ms[i])]
           rows == UNION {LinkRows(ms[i], resolved[i]) : i \in DOMAIN ms}
<1>1. DocumentLinks[d][t][r] = Rows(RunLinks(ms, r, LinkOptions))
  BY DEF DocumentLinks
<1>2. RunLinks(ms, r, LinkOptions) \in {Failed, [rows |-> {}], [rows |-> rows]}
  BY DEF RunLinks
<1>3. ms[1] = m /\ DOMAIN ms = {1}
  OBVIOUS
<1>4. m.doc = d
  OBVIOUS
<1> HIDE DEF m, ms, resolved
<1>6. ASSUME NEW x, NEW l \in LinkRows(m, x) PROVE l.doc = d
  <2>1. CASE DOMAIN x = {}
    <3>1. l = [mention |-> m.id, doc |-> m.doc, ns |-> "", id |-> "", method |-> "",
               status |-> "unmatched"]
      BY <1>6, <2>1 DEF LinkRows
    <3> QED
      BY <1>4, <3>1
  <2>2. CASE DOMAIN x # {}
    <3>1. PICK ns \in DOMAIN x : \E id \in x[ns].ids :
             l = [mention |-> m.id, doc |-> m.doc, ns |-> ns, id |-> id,
                  method |-> x[ns].method, status |-> x[ns].status]
      BY <1>6, <2>2 DEF LinkRows
    <3> QED
      BY <1>4, <3>1
  <2> QED
    BY <2>1, <2>2
<1>5. \A l \in rows : l.doc = d
  BY <1>3, <1>6
<1> HIDE DEF rows
<1> QED
  BY <1>1, <1>2, <1>5 DEF Rows

LEMMA BadRowsKept ==
  ASSUME NEW r, NEW s, \A i \in DOMAIN r : \E j \in DOMAIN s : r[i] = s[j],
         BadReference(r, FALSE)
  PROVE  BadReference(s, FALSE)
<1>1. PICK i \in DOMAIN r : r[i].ns = "" \/ r[i].id = "" \/ Blank(r[i].text)
  BY DEF BadReference
<1>2. PICK j \in DOMAIN s : r[i] = s[j]
  OBVIOUS
<1>3. s[j].ns = "" \/ s[j].id = "" \/ Blank(s[j].text)
  BY ONLY <1>1, <1>2
<1> QED
  BY ONLY <1>3 DEF BadReference

\* References with one fingerprint hold the same rows, so they resolve alike.
LEMMA ReferencesAlike ==
  ASSUME NEW r, NEW s, FrameFingerprint(r) = FrameFingerprint(s)
  PROVE  /\ ReferenceFingerprint(r, LinkOptions) = ReferenceFingerprint(s, LinkOptions)
         /\ \A d \in Docs, t \in Texts :
               r \in References /\ s \in References =>
                  DocumentLinks[d][t][r] = DocumentLinks[d][t][s]
<1>1. ToSet(r) = ToSet(s)
  <2>1. DOMAIN FrameFingerprint(r) = ToSet(r) /\ DOMAIN FrameFingerprint(s) = ToSet(s)
    BY DEF FrameFingerprint
  <2> QED
    BY <2>1
<1>2. /\ \A i \in DOMAIN r : \E j \in DOMAIN s : r[i] = s[j]
      /\ \A j \in DOMAIN s : \E i \in DOMAIN r : r[i] = s[j]
  BY <1>1 DEF ToSet
<1>3. ReferenceFingerprint(r, LinkOptions) = ReferenceFingerprint(s, LinkOptions)
  BY <1>2 DEF ReferenceFingerprint
<1>4. Namespaces(r) = Namespaces(s)
  BY <1>2 DEF Namespaces
<1>5. \A method, text, ns : Hits(r, method, text, ns) = Hits(s, method, text, ns)
  BY <1>2 DEF Hits
<1>6. \A methods, text, ns :
         WinningMethod(r, methods, text, ns) = WinningMethod(s, methods, text, ns)
  <2> SUFFICES ASSUME NEW methods, NEW text, NEW ns
               PROVE  WinningMethod(r, methods, text, ns) = WinningMethod(s, methods, text, ns)
    OBVIOUS
  <2>1. \A method : Hits(r, method, text, ns) = Hits(s, method, text, ns)
    BY <1>5
  <2> QED
    BY <2>1 DEF WinningMethod
<1>7. \A methods, text : AliasTableResolve(r, methods, text) = AliasTableResolve(s, methods, text)
  BY <1>4, <1>5, <1>6 DEF AliasTableResolve
<1>8. \A m : Resolve(r, LinkOptions, m) = Resolve(s, LinkOptions, m)
  BY <1>7, TransformAssumption DEF Resolve
<1>9. BadReference(r, FALSE) <=> BadReference(s, FALSE)
  BY ONLY <1>2, BadRowsKept
<1>10. \A ms : RunLinks(ms, r, LinkOptions) = RunLinks(ms, s, LinkOptions)
  BY <1>8, <1>9, TransformAssumption DEF RunLinks
<1> QED
  BY <1>3, <1>10 DEF DocumentLinks

LEMMA OutputRows ==
  ASSUME NEW input \in Inputs, NEW docs \in SUBSET Docs
  PROVE  /\ Output(input, docs) =
               UNION {RowsLinked(d, input.docs[d], input.aliases, input.code)
                        : d \in docs \cap Present(input)}
         /\ \A d \in Present(input) : d \in Docs /\ input.docs[d] \in Texts
         /\ Output(input, docs) \subseteq LinkedRows
         /\ \A o \in Output(input, docs) : o.link.doc \in docs \cap Present(input)
<1>1. \A d \in Present(input) : d \in Docs /\ input.docs[d] \in Texts
  BY DEF Inputs, Present
<1>2. input.aliases \in References /\ input.code \in {1, 2}
  BY DEF Inputs
<1>3. Output(input, docs) =
         UNION {RowsLinked(d, input.docs[d], input.aliases, input.code)
                  : d \in docs \cap Present(input)}
  BY DEF Output, RowsLinked
<1>4. Output(input, docs) \subseteq LinkedRows
  BY <1>1, <1>2, <1>3 DEF LinkedRows
<1>5. \A d \in Present(input) :
         \A o \in RowsLinked(d, input.docs[d], input.aliases, input.code) : o.link.doc = d
  BY <1>1, <1>2, RowsOfDocument DEF RowsLinked
<1> QED
  BY <1>1, <1>3, <1>4, <1>5

\* The rows of one document do not depend on the others that are linked with it.
LEMMA OutputByDocument ==
  ASSUME NEW input \in Inputs, NEW docs \in SUBSET Docs, NEW d \in Docs
  PROVE  RowsOf(Output(input, docs), d) =
            IF d \in docs \cap Present(input)
            THEN RowsLinked(d, input.docs[d], input.aliases, input.code) ELSE {}
<1>1. /\ Output(input, docs) =
            UNION {RowsLinked(x, input.docs[x], input.aliases, input.code)
                     : x \in docs \cap Present(input)}
      /\ \A x \in Present(input) : x \in Docs /\ input.docs[x] \in Texts
      /\ \A o \in Output(input, docs) : o.link.doc \in docs \cap Present(input)
  BY OutputRows
<1>2. \A x \in Present(input) :
         \A o \in RowsLinked(x, input.docs[x], input.aliases, input.code) : o.link.doc = x
  BY <1>1, RowsOfDocument DEF RowsLinked, Inputs
<1>3. \A o : o \in RowsOf(Output(input, docs), d) <=>
                d \in docs \cap Present(input)
                /\ o \in RowsLinked(d, input.docs[d], input.aliases, input.code)
  BY <1>1, <1>2 DEF RowsOf
<1> QED
  BY <1>3

LEMMA PrintsTyped ==
  ASSUME NEW t \in Texts, NEW r \in References, NEW c \in {1, 2}
  PROVE  /\ TextPrint(t, r, c) \in Prints /\ TextPrint(t, r, c) # Unknown
         /\ TextPrint(t, r, c)[1] = t /\ TextPrint(t, r, c)[2] = FrameFingerprint(r)
         /\ TextPrint(t, r, c)[3] = c
<1>1. Len(TextPrint(t, r, c)) = 3 /\ Len(Unknown) = 1
  BY DEF TextPrint, Unknown
<1> QED
  BY <1>1 DEF TextPrint, Prints

\* What a fingerprint stands for.
LEMMA PrintLinks ==
  ASSUME NEW d \in Docs, NEW t \in Texts, NEW r \in References, NEW c \in {1, 2}
  PROVE  LinkedAs(d, TextPrint(t, r, c)) = RowsLinked(d, t, r, c)
<1> DEFINE p == TextPrint(t, r, c)
           s == CHOOSE x \in References : FrameFingerprint(x) = p[2]
           input == [docs |-> [x \in Docs |-> p[1]], aliases |-> s, code |-> p[3]]
<1>1. p[1] = t /\ p[2] = FrameFingerprint(r) /\ p[3] = c
  BY PrintsTyped
<1>2. s \in References /\ FrameFingerprint(s) = FrameFingerprint(r)
  BY <1>1
<1> HIDE DEF p
<1>3. LinkedAs(d, p) = Output(input, {d})
  BY DEF LinkedAs
<1> HIDE DEF s
<1>4. /\ input.docs[d] = t /\ input.aliases = s /\ input.code = c /\ t # Gone
      /\ d \in Present(input)
  BY <1>1, TextsTyped DEF Present
<1> HIDE DEF input
<1>5. Output(input, {d}) = RowsLinked(d, t, s, c)
  BY <1>4 DEF Output, RowsLinked
<1>6. RowsLinked(d, t, s, c) = RowsLinked(d, t, r, c)
  <2>1. ReferenceFingerprint(s, LinkOptions) = ReferenceFingerprint(r, LinkOptions)
    BY <1>2, ReferencesAlike
  <2>2. DocumentLinks[d][t][s] = DocumentLinks[d][t][r]
    BY <1>2, ReferencesAlike
  <2> QED
    BY <2>1, <2>2 DEF RowsLinked
<1> QED
  BY <1>3, <1>5, <1>6 DEF p

LEMMA FingerprintPrint ==
  ASSUME NEW input \in Inputs, NEW d \in Present(input)
  PROVE  /\ Fingerprint(input, d) = TextPrint(input.docs[d], input.aliases, input.code)
         /\ d \in Docs /\ input.docs[d] \in Texts /\ input.aliases \in References
         /\ input.code \in {1, 2}
         /\ Fingerprint(input, d) \in Prints /\ Fingerprint(input, d) # Unknown
<1>1. /\ d \in Docs /\ input.docs[d] \in Texts /\ input.aliases \in References
      /\ input.code \in {1, 2}
  BY DEF Inputs, Present
<1>2. Fingerprint(input, d) = TextPrint(input.docs[d], input.aliases, input.code)
  BY DEF Fingerprint, TextPrint
<1> QED
  BY <1>1, <1>2, PrintsTyped

LEMMA TransformTypeInit == TransformInit => TransformTypeOK
<1> SUFFICES ASSUME TransformInit PROVE TransformTypeOK
  OBVIOUS
<1>1. upstream \in Inputs
  BY DEF TransformInit, Inputs
<1>2. target \in [exists : BOOLEAN, rows : SUBSET LinkedRows]
  <2>1. Output(upstream, Docs) \subseteq LinkedRows
    BY <1>1, OutputRows
  <2> QED
    <3> DEFINE rows == Output(upstream, Docs)
    <3>1. \/ target = [exists |-> FALSE, rows |-> {}]
          \/ target = [exists |-> TRUE, rows |-> rows]
      BY DEF TransformInit
    <3> HIDE DEF rows
    <3>2. rows \in SUBSET LinkedRows
      BY <2>1 DEF rows
    <3>3. {} \in SUBSET LinkedRows
      OBVIOUS
    <3>4. CASE target = [exists |-> FALSE, rows |-> {}]
      BY <3>3, <3>4
    <3>5. CASE target = [exists |-> TRUE, rows |-> rows]
      BY <3>2, <3>5
    <3> QED
      BY <3>1, <3>4, <3>5
<1>3. job \in Jobs
  BY DEF TransformInit, NoJob, Jobs, TransformSteps
<1> QED
  BY <1>1, <1>2, <1>3 DEF TransformInit, TransformTypeOK, NoJob

\* A step of the run changes its fields and leaves what was read and counted.
LEMMA JobFields ==
  ASSUME TransformTypeOK
  PROVE  /\ job = [at |-> job.at, full |-> job.full, loaded |-> job.loaded, input |-> job.input,
                   incremental |-> job.incremental, todo |-> job.todo, changed |-> job.changed,
                   removed |-> job.removed, rows |-> job.rows]
         /\ NoJob \in Jobs
         /\ job.at # "idle" => Loaded \in Inputs /\ Loaded.docs = job.input.docs
                               /\ Loaded.aliases = job.input.aliases /\ Loaded.code = job.loaded
                               /\ Present(Loaded) = Present(job.input)
<1>1. NoJob \in Jobs
  BY DEF NoJob, Jobs, TransformSteps
<1>2. ASSUME job.at # "idle"
      PROVE  /\ Loaded \in Inputs /\ Loaded.docs = job.input.docs
             /\ Loaded.aliases = job.input.aliases /\ Loaded.code = job.loaded
  BY <1>2 DEF TransformTypeOK, Loaded, Inputs
<1>3. job.at # "idle" => Present(Loaded) = Present(job.input)
  BY <1>2 DEF Present
<1> QED
  BY <1>1, <1>2, <1>3 DEF TransformTypeOK, Jobs

LEMMA ReplaceChildrenTyped ==
  ASSUME TransformTypeOK, job.at \in {"children", "baseline"}, Following
  PROVE  \A d \in job.todo : /\ Fingerprint(job.input, d) \in Prints
                             /\ Fingerprint(job.input, d) # Unknown
                             /\ d \in Present(job.input)
<1>1. job.input \in Inputs /\ job.todo \subseteq Present(job.input)
  BY DEF Following, TransformTypeOK
<1> QED
  BY <1>1, FingerprintPrint

LEMMA TransformTypeStep ==
  TransformTypeOK /\ Following /\ [TransformNext]_transformVars => TransformTypeOK'
<1> SUFFICES ASSUME TransformTypeOK, Following, [TransformNext]_transformVars
             PROVE  TransformTypeOK'
  OBVIOUS
<1> USE DEF TransformSteps
<1>1. CASE EditUpstream
  <2>1. /\ upstream' \in Inputs /\ edits' = edits + 1
        /\ UNCHANGED <<target, known, job, deaths, torn>>
    BY <1>1 DEF EditUpstream, Edit, Inputs, TransformTypeOK
  <2> QED
    BY <2>1 DEF TransformTypeOK
<1>2. ASSUME NEW full \in BOOLEAN, BeginTransform(full) PROVE TransformTypeOK'
  <2>1. job' \in Jobs /\ job'.input = upstream /\ job'.loaded = upstream.code
    BY <1>2 DEF BeginTransform, Step, NoJob, Jobs, TransformTypeOK, Inputs
  <2> QED
    BY <1>2, <2>1 DEF BeginTransform, Step, TransformTypeOK, Inputs
<1>3. CASE ReadReference
  <2>1. [upstream EXCEPT !.docs = job.input.docs] \in Inputs
    BY <1>3 DEF ReadReference, TransformTypeOK, Inputs
  <2>2. job' \in Jobs /\ job'.input = [upstream EXCEPT !.docs = job.input.docs]
        /\ job'.loaded = job.loaded
    BY <1>3, <2>1 DEF ReadReference, Step, Jobs, TransformTypeOK
  <2> QED
    BY <1>3, <2>1, <2>2 DEF ReadReference, Step, TransformTypeOK
<1>4. CASE Classify
  <2>1. job' \in Jobs /\ job'.input = job.input /\ job'.loaded = job.loaded
    BY <1>4 DEF Classify, Step, Jobs, TransformTypeOK, Present
  <2> QED
    BY <1>4, <2>1 DEF Classify, Step, TransformTypeOK
<1>5. CASE Invoke
  <2>1. /\ Output(Loaded, IF job.incremental THEN job.todo ELSE Docs) \in SUBSET LinkedRows
    <3>1. (IF job.incremental THEN job.todo ELSE Docs) \in SUBSET Docs /\ Loaded \in Inputs
      BY <1>5, JobFields DEF Invoke, TransformTypeOK, Jobs
    <3> QED
      BY <3>1, OutputRows
  <2>2. job' = [job EXCEPT !.at = IF job.incremental THEN "remove" ELSE "replace",
                           !.rows = Output(Loaded, IF job.incremental THEN job.todo ELSE Docs)]
    BY <1>5 DEF Invoke, Step, Loaded
  <2>3. job' \in Jobs /\ job'.input = job.input /\ job'.loaded = job.loaded
    BY <2>1, <2>2 DEF Jobs, TransformTypeOK
  <2> QED
    BY <1>5, <2>3 DEF Invoke, Step, TransformTypeOK
<1>6. CASE RemoveParents
  <2>1. job' \in {NoJob, [job EXCEPT !.at = "children"]}
    BY <1>6 DEF RemoveParents, Step
  <2>2. job' \in Jobs /\ (job'.at # "idle" => job'.input = job.input /\ job'.loaded = job.loaded)
    BY <2>1, JobFields DEF NoJob, Jobs, TransformTypeOK
  <2>3. target' \in [exists : BOOLEAN, rows : SUBSET LinkedRows]
    BY <1>6 DEF RemoveParents, TransformTypeOK
  <2>4. known' \in [Docs -> Prints \cup {Unknown}]
    BY <1>6 DEF RemoveParents, TransformTypeOK
  <2> QED
    BY <1>6, <2>2, <2>3, <2>4 DEF RemoveParents, Step, TransformTypeOK
<1>7. CASE ReplaceChildren
  <2>1. target' \in [exists : BOOLEAN, rows : SUBSET LinkedRows]
    BY <1>7 DEF ReplaceChildren, TransformTypeOK, Jobs
  <2>2. known' \in [Docs -> Prints \cup {Unknown}]
    BY <1>7, ReplaceChildrenTyped DEF ReplaceChildren, TransformTypeOK
  <2>3. job' = NoJob /\ NoJob.at = "idle" /\ torn' \in BOOLEAN
    BY <1>7 DEF ReplaceChildren, Step, NoJob, TransformTypeOK, Skewed
  <2> QED
    BY <1>7, <2>1, <2>2, <2>3, JobFields DEF ReplaceChildren, Step, TransformTypeOK
<1>8. CASE MaterializeFull
  <2>1. target' \in [exists : BOOLEAN, rows : SUBSET LinkedRows]
    BY <1>8 DEF MaterializeFull, TransformTypeOK, Jobs
  <2>2. job' \in Jobs /\ job'.input = job.input /\ job'.loaded = job.loaded
    BY <1>8 DEF MaterializeFull, Step, Jobs, TransformTypeOK
  <2> QED
    BY <1>8, <2>1, <2>2 DEF MaterializeFull, Step, TransformTypeOK
<1>9. CASE ReplaceBaseline
  <2>1. known' \in [Docs -> Prints \cup {Unknown}]
    BY <1>9, ReplaceChildrenTyped DEF ReplaceBaseline, TransformTypeOK
  <2>2. job' = NoJob /\ NoJob.at = "idle" /\ torn' \in BOOLEAN
    BY <1>9 DEF ReplaceBaseline, Step, NoJob, Skewed
  <2> QED
    BY <1>9, <2>1, <2>2, JobFields DEF ReplaceBaseline, Step, TransformTypeOK
<1>10. CASE RunDies
  <2>1. job' = NoJob /\ NoJob.at = "idle" /\ torn' \in BOOLEAN /\ deaths' = deaths + 1
    BY <1>10 DEF RunDies, NoJob, TransformTypeOK
  <2> QED
    BY <1>10, <2>1, JobFields DEF RunDies, TransformTypeOK
<1>11. CASE UNCHANGED transformVars
  BY <1>11 DEF transformVars, TransformTypeOK
<1> QED
  BY <1>1, <1>2, <1>3, <1>4, <1>5, <1>6, <1>7, <1>8, <1>9, <1>10, <1>11
  DEF TransformNext, Advance

LEMMA FollowingInit == TransformInit => Following
  BY DEF TransformInit, Following, ChildrenFollowState, NoState, NoJob

\* Rows and state that stay make what followed follow on.
LEMMA FollowKept ==
  ASSUME UNCHANGED <<target, known>>
  PROVE  Follow' = Follow /\ NoState' = NoState
  BY DEF Follow, NoState, RowsOf

LEMMA ChildrenOrFollow == ChildrenFollowState <=> torn \/ NoState \/ job.at = "baseline" \/ Follow
  BY DEF ChildrenFollowState, Follow, RowsOf

LEMMA ClassifyFollows ==
  ASSUME TransformTypeOK, Following, Classify PROVE Following'
<1> DEFINE incremental == ~job.full /\ ~(NoState /\ target.exists)
           parents == {d \in Present(job.input) :
                         incremental => known[d] # Fingerprint(job.input, d)}
<1>1. /\ job.at = "classify" /\ UNCHANGED <<target, known, torn>>
      /\ job' = [job EXCEPT !.incremental = incremental, !.todo = parents,
                   !.changed = {d \in parents : incremental /\ known[d] # Unknown},
                   !.removed = {d \in Docs \ Present(job.input) :
                                  incremental /\ known[d] # Unknown},
                   !.at = IF incremental /\ parents = {} THEN "remove" ELSE "invoke"]
  BY DEF Classify, Step
<1>2. /\ job'.input = job.input /\ job'.incremental = incremental /\ job'.todo = parents
      /\ job'.changed = {d \in parents : incremental /\ known[d] # Unknown}
      /\ job'.removed = {d \in Docs \ Present(job.input) : incremental /\ known[d] # Unknown}
      /\ job'.at = IF incremental /\ parents = {} THEN "remove" ELSE "invoke"
  BY <1>1 DEF TransformTypeOK, Jobs
<1>3. incremental \in BOOLEAN
  BY DEF TransformTypeOK, Jobs
<1>4. incremental => torn \/ Follow
  <2>1. CASE ~target.exists
    <3>1. target.rows = {}
      BY <2>1 DEF Following
    <3>2. CASE NoState
      BY <3>1, <3>2 DEF NoState, Follow, RowsOf
    <3>3. CASE ~NoState
      BY <1>1, <3>3, ChildrenOrFollow DEF Following
    <3> QED
      BY <3>2, <3>3
  <2>2. CASE target.exists
    <3>1. incremental => ~NoState
      BY <2>2
    <3> QED
      BY <1>1, <3>1, ChildrenOrFollow DEF Following
  <2> QED
    BY <2>1, <2>2
<1>5. parents \subseteq Present(job.input) /\ (~incremental => parents = Present(job.input))
  OBVIOUS
<1>6. Present(job.input)' = Present(job.input)
  BY <1>2 DEF Present
<1>7. Follow' = Follow /\ NoState' = NoState
  BY <1>1, FollowKept
<1>8. ChildrenFollowState'
  <2>1. torn' \/ NoState' \/ Follow'
    BY <1>1, <1>7, ChildrenOrFollow DEF Following
  <2> QED
    BY <2>1 DEF ChildrenFollowState, Follow, RowsOf
<1> HIDE DEF parents
<1>9. job'.removed \cap Present(job.input) = {}
  BY <1>2
<1>10. incremental => job'.changed = {d \in parents : known[d] # Unknown}
  BY <1>2
<1> HIDE DEF incremental
<1>11. CASE incremental
  BY <1>1, <1>2, <1>4, <1>5, <1>6, <1>7, <1>8, <1>9, <1>10, <1>11 DEF Following
<1>12. CASE ~incremental
  BY <1>1, <1>2, <1>3, <1>5, <1>6, <1>8, <1>12 DEF Following
<1> QED
  BY <1>11, <1>12

LEMMA InvokeFollows ==
  ASSUME TransformTypeOK, Following, Invoke PROVE Following'
<1>1. /\ job.at = "invoke" /\ UNCHANGED <<target, known, torn>>
      /\ job' = [job EXCEPT !.at = IF job.incremental THEN "remove" ELSE "replace",
                            !.rows = Output(Loaded, IF job.incremental THEN job.todo ELSE Docs)]
  BY DEF Invoke, Step, Loaded
<1>2. /\ job'.input = job.input /\ job'.loaded = job.loaded
      /\ job'.incremental = job.incremental /\ job'.todo = job.todo
      /\ job'.changed = job.changed /\ job'.removed = job.removed
      /\ job'.at = IF job.incremental THEN "remove" ELSE "replace"
      /\ job'.rows = Output(Loaded, IF job.incremental THEN job.todo ELSE Docs)
  BY <1>1 DEF TransformTypeOK, Jobs
<1>3. Loaded' = Loaded /\ Present(job.input)' = Present(job.input)
  BY <1>2 DEF Loaded, Present
<1>4. Follow' = Follow /\ NoState' = NoState
  BY <1>1, FollowKept
<1>5. ChildrenFollowState'
  <2>1. torn' \/ NoState' \/ Follow'
    BY <1>1, <1>4, ChildrenOrFollow DEF Following
  <2> QED
    BY <2>1 DEF ChildrenFollowState, Follow, RowsOf
<1>6. CASE job.incremental
  <2>1. job'.at = "remove" /\ job'.rows = Output(Loaded, job.todo)
    BY <1>2, <1>6
  <2>2. Output(Loaded, job.todo) = Output(Loaded, job.todo)'
    BY <1>2, <1>3 DEF Output, Present
  <2> QED
    BY <1>1, <1>2, <1>3, <1>4, <1>5, <1>6, <2>1, <2>2 DEF Following
<1>7. CASE ~job.incremental
  <2>1. job'.at = "replace" /\ job'.rows = Output(Loaded, Docs)
    BY <1>2, <1>7
  <2>2. Output(Loaded, Docs) = Output(Loaded, Docs)'
    BY <1>3 DEF Output, Present
  <2> QED
    BY <1>1, <1>2, <1>3, <1>5, <1>7, <2>1, <2>2 DEF Following
<1> QED
  BY <1>6, <1>7

LEMMA RemoveFollows ==
  ASSUME TransformTypeOK, Following, RemoveParents PROVE Following'
<1>1. /\ job.at = "remove" /\ job.incremental /\ torn' = torn
      /\ target' = [target EXCEPT !.rows = {o \in @ : o.link.doc \notin job.removed}]
      /\ known' = [d \in Docs |-> IF d \in job.removed THEN Unknown ELSE known[d]]
      /\ job' = IF job.todo = {} THEN NoJob ELSE [job EXCEPT !.at = "children"]
  BY DEF RemoveParents, Step, Following
<1>2. /\ target'.exists = target.exists
      /\ target'.rows = {o \in target.rows : o.link.doc \notin job.removed}
  BY <1>1 DEF TransformTypeOK
<1>3. torn \/ Follow'
  <2> SUFFICES ASSUME ~torn, NEW d \in Docs
               PROVE  RowsOf(target'.rows, d) = IF known'[d] = Unknown THEN {}
                                               ELSE LinkedAs(d, known'[d])
    BY DEF Follow
  <2>1. RowsOf(target.rows, d) = IF known[d] = Unknown THEN {} ELSE LinkedAs(d, known[d])
    BY <1>1 DEF Following, Follow
  <2>2. CASE d \in job.removed
    BY <1>1, <1>2, <2>2 DEF RowsOf
  <2>3. CASE d \notin job.removed
    <3>1. known'[d] = known[d]
      BY <1>1, <2>3
    <3>2. RowsOf(target'.rows, d) = RowsOf(target.rows, d)
      BY <1>2, <2>3 DEF RowsOf
    <3> QED
      BY <2>1, <3>1, <3>2
  <2> QED
    BY <2>2, <2>3
<1>4. ChildrenFollowState'
  BY <1>1, <1>3 DEF ChildrenFollowState, Follow, RowsOf
<1>5. ~target'.exists => target'.rows = {}
  BY <1>2 DEF Following
<1>6. CASE job.todo = {}
  <2>1. job' = NoJob
    BY <1>1, <1>6
  <2> QED
    BY <1>4, <1>5, <2>1 DEF Following, NoJob
<1>7. CASE job.todo # {}
  <2>1. /\ job'.at = "children" /\ job'.input = job.input /\ job'.loaded = job.loaded
        /\ job'.incremental = job.incremental /\ job'.todo = job.todo
        /\ job'.changed = job.changed /\ job'.removed = job.removed /\ job'.rows = job.rows
    BY <1>1, <1>7 DEF TransformTypeOK, Jobs
  <2>2. Loaded' = Loaded /\ Present(job.input)' = Present(job.input)
    BY <2>1 DEF Loaded, Present
  <2>3. Output(Loaded, job.todo)' = Output(Loaded, job.todo)
    BY <2>1, <2>2 DEF Output, Present
  <2>4. job'.changed = {d \in job'.todo : known'[d] # Unknown}
    <3>1. \A d \in job.todo : d \in Docs /\ d \notin job.removed
      BY <1>1 DEF Following, TransformTypeOK, Jobs
    <3>2. \A d \in job.todo : known'[d] = known[d]
      BY <1>1, <3>1
    <3>3. job.changed = {d \in job.todo : known[d] # Unknown}
      BY <1>1 DEF Following
    <3> QED
      BY <2>1, <3>2, <3>3
  <2> QED
    BY <1>1, <1>3, <1>4, <1>5, <1>7, <2>1, <2>2, <2>3, <2>4 DEF Following
<1> QED
  BY <1>6, <1>7

\* The rows of a run that was not overtaken by an edit of its code.
LEMMA LoadedRows ==
  ASSUME TransformTypeOK, job.at # "idle", ~Skewed, NEW docs \in SUBSET Docs, NEW d \in Docs
  PROVE  /\ RowsOf(Output(Loaded, docs), d) =
              IF d \in docs \cap Present(job.input)
              THEN RowsLinked(d, job.input.docs[d], job.input.aliases, job.input.code) ELSE {}
         /\ \A o \in Output(Loaded, docs) : o.link.doc \in docs
<1>1. /\ Loaded \in Inputs /\ Loaded.docs = job.input.docs
      /\ Loaded.aliases = job.input.aliases /\ Loaded.code = job.input.code
      /\ Present(Loaded) = Present(job.input)
  BY JobFields DEF Skewed
<1>2. RowsOf(Output(Loaded, docs), d) =
         IF d \in docs \cap Present(Loaded)
         THEN RowsLinked(d, Loaded.docs[d], Loaded.aliases, Loaded.code) ELSE {}
  BY <1>1, OutputByDocument
<1>3. \A o \in Output(Loaded, docs) : o.link.doc \in docs
  BY <1>1, OutputRows
<1> QED
  BY <1>1, <1>2, <1>3

\* The fingerprints that a run records stand for the rows it made.
LEMMA RecordedAs ==
  ASSUME TransformTypeOK, job.at # "idle", NEW d \in Present(job.input)
  PROVE  /\ LinkedAs(d, Fingerprint(job.input, d)) =
              RowsLinked(d, job.input.docs[d], job.input.aliases, job.input.code)
         /\ Fingerprint(job.input, d) # Unknown
<1>1. job.input \in Inputs
  BY DEF TransformTypeOK
<1>2. /\ Fingerprint(job.input, d) = TextPrint(job.input.docs[d], job.input.aliases, job.input.code)
      /\ d \in Docs /\ job.input.docs[d] \in Texts /\ job.input.aliases \in References
      /\ job.input.code \in {1, 2} /\ Fingerprint(job.input, d) # Unknown
  BY <1>1, FingerprintPrint
<1> QED
  BY <1>2, PrintLinks

LEMMA ChildrenFollows ==
  ASSUME TransformTypeOK, Following, ReplaceChildren PROVE Following'
<1>1. /\ job.at = "children" /\ job.at # "idle" /\ job.incremental /\ torn' = (torn \/ Skewed)
      /\ known' = [d \in Docs |-> IF d \in job.todo THEN Fingerprint(job.input, d) ELSE known[d]]
      /\ job' = NoJob
  BY DEF ReplaceChildren, Step, Following
<1>2. /\ target'.exists
      /\ target'.rows = {r \in {x \in target.rows : x.link.doc \notin job.changed} :
                           \A n \in job.rows : n.link # r.link} \cup job.rows
  BY DEF ReplaceChildren
<1>3. torn' \/ Follow'
  <2> SUFFICES ASSUME ~torn, ~Skewed, NEW d \in Docs
               PROVE  RowsOf(target'.rows, d) = IF known'[d] = Unknown THEN {}
                                               ELSE LinkedAs(d, known'[d])
    BY <1>1 DEF Follow
  <2>1. RowsOf(target.rows, d) = IF known[d] = Unknown THEN {} ELSE LinkedAs(d, known[d])
    BY <1>1 DEF Following, Follow
  <2>2. /\ job.rows = Output(Loaded, job.todo) /\ job.todo \subseteq Present(job.input)
        /\ job.changed = {x \in job.todo : known[x] # Unknown} /\ job.todo \in SUBSET Docs
    BY <1>1 DEF Following, TransformTypeOK, Jobs
  <2>3. /\ RowsOf(job.rows, d) =
             IF d \in job.todo
             THEN RowsLinked(d, job.input.docs[d], job.input.aliases, job.input.code) ELSE {}
        /\ \A n \in job.rows : n.link.doc \in job.todo
    <3>1. /\ RowsOf(Output(Loaded, job.todo), d) =
               IF d \in job.todo \cap Present(job.input)
               THEN RowsLinked(d, job.input.docs[d], job.input.aliases, job.input.code) ELSE {}
          /\ \A o \in Output(Loaded, job.todo) : o.link.doc \in job.todo
      <4>1. job.todo \in SUBSET Docs /\ job.at # "idle"
        BY <1>1, <2>2
      <4> QED
        BY ONLY <4>1, ~Skewed, TransformTypeOK, d \in Docs, LoadedRows
    <3>2. d \in job.todo \cap Present(job.input) <=> d \in job.todo
      BY <2>2
    <3>3. job.rows = Output(Loaded, job.todo)
      BY <2>2
    <3> QED
      BY ONLY <3>1, <3>2, <3>3
  <2>4. CASE d \in job.todo
    <3>1. \A r \in target.rows : r.link.doc = d => d \in job.changed
      BY <2>1, <2>2, <2>4 DEF RowsOf
    <3>2. RowsOf(target'.rows, d) = RowsOf(job.rows, d)
      BY <1>2, <3>1 DEF RowsOf
    <3>3. /\ known'[d] = Fingerprint(job.input, d) /\ known'[d] # Unknown
          /\ LinkedAs(d, known'[d]) =
               RowsLinked(d, job.input.docs[d], job.input.aliases, job.input.code)
      BY <1>1, <2>2, <2>4, RecordedAs
    <3> QED
      BY <2>3, <2>4, <3>2, <3>3
  <2>5. CASE d \notin job.todo
    <3>1. known'[d] = known[d]
      BY <1>1, <2>5
    <3>2. \A r \in target.rows : r.link.doc = d =>
             r.link.doc \notin job.changed /\ \A n \in job.rows : n.link # r.link
      BY <2>2, <2>3, <2>5
    <3>3. RowsOf(target'.rows, d) = RowsOf(target.rows, d)
      BY <1>2, <2>3, <2>5, <3>2 DEF RowsOf
    <3> QED
      BY <2>1, <3>1, <3>3
  <2> QED
    BY <2>4, <2>5
<1>4. ChildrenFollowState'
  BY <1>3 DEF ChildrenFollowState, Follow, RowsOf
<1> QED
  BY <1>1, <1>2, <1>4 DEF Following, NoJob

LEMMA MaterializeFollows ==
  ASSUME TransformTypeOK, Following, MaterializeFull PROVE Following'
<1>1. /\ job.at = "replace" /\ ~job.incremental /\ UNCHANGED <<known, torn>>
      /\ target' = [exists |-> TRUE, rows |-> job.rows]
      /\ job' = [job EXCEPT !.at = "baseline"]
  BY DEF MaterializeFull, Step, Following
<1>2. /\ job'.at = "baseline" /\ job'.input = job.input /\ job'.loaded = job.loaded
      /\ job'.incremental = job.incremental /\ job'.todo = job.todo /\ job'.rows = job.rows
  BY <1>1 DEF TransformTypeOK, Jobs
<1>3. Loaded' = Loaded /\ Present(job.input)' = Present(job.input)
  BY <1>2 DEF Loaded, Present
<1>4. Output(Loaded, Docs)' = Output(Loaded, Docs)
  BY <1>3 DEF Output, Present
<1>5. ChildrenFollowState'
  BY <1>2 DEF ChildrenFollowState
<1> QED
  BY <1>1, <1>2, <1>3, <1>4, <1>5 DEF Following

LEMMA BaselineFollows ==
  ASSUME TransformTypeOK, Following, ReplaceBaseline PROVE Following'
<1>1. /\ job.at = "baseline" /\ job.at # "idle" /\ ~job.incremental
      /\ torn' = Skewed /\ target' = target /\ job' = NoJob
      /\ known' = [d \in Docs |-> IF d \in job.todo THEN Fingerprint(job.input, d) ELSE Unknown]
      /\ job.todo = Present(job.input) /\ target.rows = job.rows
      /\ job.rows = Output(Loaded, Docs)
  BY DEF ReplaceBaseline, Step, Following
<1>2. torn' \/ Follow'
  <2> SUFFICES ASSUME ~Skewed, NEW d \in Docs
               PROVE  RowsOf(target'.rows, d) = IF known'[d] = Unknown THEN {}
                                               ELSE LinkedAs(d, known'[d])
    BY <1>1 DEF Follow
  <2>1. RowsOf(target'.rows, d) =
          IF d \in Present(job.input)
          THEN RowsLinked(d, job.input.docs[d], job.input.aliases, job.input.code) ELSE {}
    BY <1>1, LoadedRows
  <2>2. CASE d \in Present(job.input)
    <3>1. /\ known'[d] = Fingerprint(job.input, d) /\ known'[d] # Unknown
          /\ LinkedAs(d, known'[d]) =
               RowsLinked(d, job.input.docs[d], job.input.aliases, job.input.code)
      BY <1>1, <2>2, RecordedAs
    <3> QED
      BY <2>1, <2>2, <3>1
  <2>3. CASE d \notin Present(job.input)
    BY <1>1, <2>1, <2>3
  <2> QED
    BY <2>2, <2>3
<1>3. ChildrenFollowState'
  BY <1>2 DEF ChildrenFollowState, Follow, RowsOf
<1> QED
  BY <1>1, <1>3 DEF Following, NoJob

LEMMA DyingFollows ==
  ASSUME TransformTypeOK, Following, RunDies PROVE Following'
<1>1. /\ torn' = (torn \/ (job.at = "baseline" /\ ~NoState)) /\ job' = NoJob
      /\ UNCHANGED <<target, known>>
  BY DEF RunDies
<1>2. Follow' = Follow /\ NoState' = NoState
  BY <1>1, FollowKept
<1>3. torn' \/ NoState' \/ Follow'
  BY <1>1, <1>2, ChildrenOrFollow DEF Following
<1>4. ChildrenFollowState'
  BY <1>3 DEF ChildrenFollowState, Follow, RowsOf
<1> QED
  BY <1>1, <1>4 DEF Following, NoJob

\* A run that has not classified its parents yet has decided nothing.
LEMMA ReadingFollows ==
  ASSUME TransformTypeOK, Following, UNCHANGED <<target, known, torn>>,
         job'.at \in {"read", "classify"}, ~job'.incremental, job.at # "baseline"
  PROVE  Following'
<1>1. Follow' = Follow /\ NoState' = NoState
  BY FollowKept
<1>2. torn' \/ NoState' \/ Follow'
  BY <1>1, ChildrenOrFollow DEF Following
<1>3. ChildrenFollowState'
  BY <1>2 DEF ChildrenFollowState, Follow, RowsOf
<1> QED
  BY <1>3 DEF Following

LEMMA FollowingStep ==
  TransformTypeOK /\ Following /\ [TransformNext]_transformVars => Following'
<1> SUFFICES ASSUME TransformTypeOK, Following, [TransformNext]_transformVars
             PROVE  Following'
  OBVIOUS
<1>1. ASSUME UNCHANGED <<target, known, job, torn>> PROVE Following'
  <2>1. Follow' = Follow /\ NoState' = NoState
    BY <1>1, FollowKept
  <2>2. ChildrenFollowState'
    BY <1>1, <2>1, ChildrenOrFollow DEF Following, ChildrenFollowState, Follow, RowsOf
  <2>3. Loaded' = Loaded /\ Present(job.input)' = Present(job.input)
    BY <1>1 DEF Loaded, Present
  <2>4. /\ Output(Loaded, Docs)' = Output(Loaded, Docs)
        /\ Output(Loaded, job.todo)' = Output(Loaded, job.todo)
    BY <1>1, <2>3 DEF Output, Present
  <2> QED
    BY <1>1, <2>1, <2>2, <2>3, <2>4 DEF Following
<1>2. CASE EditUpstream
  <2>1. UNCHANGED <<target, known, job, torn>>
    BY <1>2 DEF EditUpstream, Edit
  <2> QED
    BY <1>1, <2>1
<1>3. ASSUME NEW full \in BOOLEAN, BeginTransform(full) PROVE Following'
  <2>1. /\ job.at = "idle" /\ job'.at = "read" /\ ~job'.incremental
        /\ UNCHANGED <<target, known, torn>>
    BY <1>3 DEF BeginTransform, Step, NoJob
  <2> QED
    BY <2>1, ReadingFollows
<1>4. CASE ReadReference
  <2>1. /\ job.at = "read" /\ job'.at = "classify" /\ job'.incremental = job.incremental
        /\ UNCHANGED <<target, known, torn>>
    BY <1>4 DEF ReadReference, Step, TransformTypeOK, Jobs
  <2>2. ~job'.incremental
    BY <2>1 DEF Following
  <2> QED
    BY <2>1, <2>2, ReadingFollows
<1>5. CASE UNCHANGED transformVars
  BY <1>1, <1>5 DEF transformVars
<1> QED
  BY <1>2, <1>3, <1>4, <1>5, ClassifyFollows, InvokeFollows, RemoveFollows, ChildrenFollows,
     MaterializeFollows, BaselineFollows, DyingFollows
  DEF TransformNext, Advance

\* A parent is skipped for good while its fingerprint stands, so the rows of a parent in
\* the state are always what its fingerprint links to, and a parent that the state does not
\* know has none: through edits between the two reads of a run, deaths between its steps,
\* and the first run over a filled target (transform.py:318-345).
THEOREM ChildrenKeepFollowing == TransformSpec => []ChildrenFollowState
<1>1. TransformInit => TransformTypeOK /\ Following
  BY TransformTypeInit, FollowingInit
<1>2. TransformTypeOK /\ Following /\ [TransformNext]_transformVars
         => (TransformTypeOK /\ Following)'
  BY TransformTypeStep, FollowingStep
<1>3. Following => ChildrenFollowState
  BY DEF Following
<1> QED
  BY <1>1, <1>2, <1>3, PTL DEF TransformSpec

------------------------------------------------------------------------------
(* EntityLinks: a mention is linked, or reported, and never guessed.       *)

\* What a resolver may answer: of every namespace it names, some candidates.
NamesCandidates(resolved) ==
  \A ns \in DOMAIN resolved : \E method, ids :
     ids # {} /\ IsFiniteSet(ids) /\ resolved[ns] = Resolution(method, ids)

\* The scores of a scored resolver are numbers; they are computed by folds over the texts
\* and vectors, of which nothing else is needed.
ScoresAreNumbers(mentions, aliases, o) ==
  LET Prepare(t) == IF o.normalize THEN NormalizeAliasText(t) ELSE t
      Signature(t) == FuzzyRepresentation(Prepare(t), o.metric)
  IN  /\ o.resolver # "alias_table" => o.margin \in Nat /\ o.threshold \in Int
      /\ \A i \in DOMAIN mentions, j \in DOMAIN aliases :
            /\ o.resolver = "vector_similarity" =>
                  Dot(mentions[i].vector, aliases[j].vector) \in Int
            /\ o.resolver = "fuzzy" =>
                  FuzzyScore(Signature(mentions[i].text), Signature(aliases[j].text), o.metric) \in Int

\* Of some subsets of a finite set, one includes no other.
LEMMA SmallestSubset ==
  ASSUME NEW S, IsFiniteSet(S), NEW C, C \subseteq SUBSET S, C # {}
  PROVE  \E t \in C : \A u \in C : u \subseteq t => u = t
<1>1. IsWellFoundedOn(StrictSubsetOrdering(S), FiniteSubsetsOf(S))
  BY FS_StrictSubsetOrderingWellFounded
<1>2. FiniteSubsetsOf(S) = SUBSET S
  BY FS_FiniteSubsetsOfFinite
<1>3. PICK t \in C : \A u \in C : ~(<<u, t>> \in StrictSubsetOrdering(S))
  BY <1>1, <1>2, WFMin
<1>4. \A u \in C : u \subseteq t => u = t
  BY <1>3 DEF StrictSubsetOrdering
<1> QED
  BY <1>4

\* A function on a finite set has a largest value.
LEMMA LargestValue ==
  ASSUME NEW S, IsFiniteSet(S), S # {}, NEW f, \A x \in S : f[x] \in Int
  PROVE  \E x \in S : \A y \in S : f[y] <= f[x]
<1> DEFINE Above(x) == {y \in S : f[y] > f[x]}
           C == {Above(x) : x \in S}
<1>1. C \subseteq SUBSET S /\ C # {}
  OBVIOUS
<1> HIDE DEF C
<1>2. PICK t \in C : \A u \in C : u \subseteq t => u = t
  BY <1>1, SmallestSubset
<1>3. PICK x \in S : t = Above(x)
  BY <1>2 DEF C
<1>4. ASSUME NEW y \in S, f[y] > f[x] PROVE FALSE
  <2>1. Above(y) \subseteq Above(x) /\ y \in Above(x) /\ y \notin Above(y)
    BY <1>4
  <2>2. Above(y) \in C
    BY DEF C
  <2> QED
    BY <1>2, <1>3, <2>1, <2>2
<1> QED
  BY <1>4

\* What is taken of a finite set, one value of each element, is finite.
LEMMA ImageFinite ==
  ASSUME NEW S, IsFiniteSet(S), NEW f
  PROVE  IsFiniteSet({f[x] : x \in S})
<1> DEFINE T == {f[x] : x \in S}
           g == [x \in S |-> f[x]]
<1>1. g \in Surjection(S, T)
  BY DEF Surjection
<1> HIDE DEF T, g
<1>2. IsFiniteSet(T)
  BY <1>1, FS_Surjection
<1> QED
  BY <1>2 DEF T

LEMMA CandidatesFinite ==
  ASSUME NEW S, NEW aliases \in Seq(S), NEW I, I \subseteq DOMAIN aliases
  PROVE  IsFiniteSet(I) /\ IsFiniteSet({aliases[i].id : i \in I})
<1>1. IsFiniteSet(DOMAIN aliases)
  BY FS_Interval
<1>2. IsFiniteSet(I)
  BY <1>1, FS_Subset
<1> DEFINE f == [i \in I |-> aliases[i].id]
<1>3. IsFiniteSet({f[i] : i \in I})
  <2> HIDE DEF f
  <2> QED
    BY <1>2, ImageFinite
<1>4. {f[i] : i \in I} = {aliases[i].id : i \in I}
  OBVIOUS
<1> QED
  BY <1>2, <1>3, <1>4

\* The method that wins a namespace is the first that finds something there.
LEMMA FirstMethodWins ==
  ASSUME NEW aliases, NEW M, NEW methods \in Seq(M), NEW text, NEW ns,
         NEW k \in DOMAIN methods, Hits(aliases, methods[k], text, ns) # {}
  PROVE  LET w == WinningMethod(aliases, methods, text, ns)
         IN  /\ w \in DOMAIN methods /\ Hits(aliases, methods[w], text, ns) # {}
             /\ \A j \in DOMAIN methods : Hits(aliases, methods[j], text, ns) # {} => w <= j
<1> DEFINE Finders == {j \in DOMAIN methods : Hits(aliases, methods[j], text, ns) # {}}
           f == [j \in Finders |-> -j]
<1>1. IsFiniteSet(DOMAIN methods)
  BY FS_Interval
<1>2. IsFiniteSet(Finders) /\ Finders # {} /\ Finders \subseteq Nat
  <2>1. Finders \subseteq DOMAIN methods /\ k \in Finders
    OBVIOUS
  <2> HIDE DEF Finders
  <2>2. IsFiniteSet(Finders)
    BY <1>1, <2>1, FS_Subset
  <2> QED
    BY <2>1, <2>2
<1> HIDE DEF Finders
<1>3. \A j \in Finders : f[j] \in Int /\ f[j] = -j
  BY <1>2
<1> HIDE DEF f
<1>4. PICK first \in Finders : \A j \in Finders : f[j] <= f[first]
  BY <1>2, <1>3, LargestValue
<1>5. \A j \in Finders : first <= j
  BY <1>2, <1>3, <1>4
<1>6. \E m \in DOMAIN methods : \A j \in DOMAIN methods :
         Hits(aliases, methods[j], text, ns) # {} =>
            m <= j /\ Hits(aliases, methods[m], text, ns) # {}
  BY <1>5 DEF Finders
<1> QED
  BY <1>6 DEF WinningMethod

LEMMA AliasTableAnswers ==
  ASSUME NEW S, NEW aliases \in Seq(S), NEW M, NEW methods \in Seq(M), NEW text
  PROVE  NamesCandidates(AliasTableResolve(aliases, methods, text))
<1> DEFINE answer == AliasTableResolve(aliases, methods, text)
           w(ns) == WinningMethod(aliases, methods, text, ns)
<1> SUFFICES ASSUME NEW ns \in DOMAIN answer
             PROVE  \E method, ids : /\ ids # {} /\ IsFiniteSet(ids)
                                     /\ answer[ns] = Resolution(method, ids)
  BY DEF NamesCandidates
<1>1. ~Blank(text)
  BY DEF AliasTableResolve
<1>2. /\ \E k \in DOMAIN methods : Hits(aliases, methods[k], text, ns) # {}
      /\ answer[ns] = Resolution(methods[w(ns)], Hits(aliases, methods[w(ns)], text, ns))
  BY <1>1 DEF AliasTableResolve
<1>3. Hits(aliases, methods[w(ns)], text, ns) # {}
  BY <1>2, FirstMethodWins
<1>4. IsFiniteSet(Hits(aliases, methods[w(ns)], text, ns))
  <2> SUFFICES ASSUME NEW method PROVE IsFiniteSet(Hits(aliases, method, text, ns))
    OBVIOUS
  <2>1. PICK I : I \subseteq DOMAIN aliases /\ Hits(aliases, method, text, ns) = {aliases[i].id : i \in I}
    BY DEF Hits
  <2> QED
    BY <2>1, CandidatesFinite
<1> QED
  BY <1>2, <1>3, <1>4

\* The best score of a namespace is among its winners.
LEMMA ScoredAnswers ==
  ASSUME NEW S, NEW aliases \in Seq(S), NEW score, \A i \in DOMAIN aliases : score[i] \in Int,
         NEW threshold \in Int, NEW margin \in Nat, NEW method
  PROVE  NamesCandidates(ResolveScored(aliases, score, threshold, margin, method))
<1> DEFINE answer == ResolveScored(aliases, score, threshold, margin, method)
<1> SUFFICES ASSUME NEW ns \in DOMAIN answer
             PROVE  \E m, ids : ids # {} /\ IsFiniteSet(ids) /\ answer[ns] = Resolution(m, ids)
  BY DEF NamesCandidates
<1> DEFINE In == {i \in DOMAIN aliases : aliases[i].ns = ns /\ score[i] >= threshold}
           Best == {i \in In : \A j \in In : score[j] - score[i] <= margin}
<1>1. In # {} /\ answer[ns] = Resolution(method, {aliases[i].id : i \in Best})
  BY DEF ResolveScored
<1>2. In \subseteq DOMAIN aliases /\ Best \subseteq In
  OBVIOUS
<1>3. \A i \in In : score[i] \in Int
  OBVIOUS
<1> HIDE DEF In
<1>4. PICK top \in In : \A j \in In : score[j] <= score[top]
  BY <1>1, <1>2, <1>3, CandidatesFinite, LargestValue
<1>5. top \in Best
  BY <1>3, <1>4
<1> HIDE DEF Best
<1>6. IsFiniteSet({aliases[i].id : i \in Best})
  BY <1>2, CandidatesFinite
<1> QED
  BY <1>1, <1>5, <1>6

LEMMA ResolveAnswers ==
  ASSUME NEW S, NEW aliases \in Seq(S), NEW mentions, NEW o,
         o.resolver \in {"alias_table", "vector_similarity", "fuzzy"},
         o.resolver = "alias_table" => o.methods \in Seq(STRING),
         ScoresAreNumbers(mentions, aliases, o), NEW i \in DOMAIN mentions,
         Resolve(aliases, o, mentions[i]) # Failed
  PROVE  NamesCandidates(Resolve(aliases, o, mentions[i]))
<1> DEFINE m == mentions[i]
           Prepare(t) == IF o.normalize THEN NormalizeAliasText(t) ELSE t
           Signature(t) == FuzzyRepresentation(Prepare(t), o.metric)
<1>1. NamesCandidates(<<>>)
  BY DEF NamesCandidates
<1>2. CASE o.resolver = "alias_table"
  <2>1. NamesCandidates(AliasTableResolve(aliases, o.methods, m.text))
    BY <1>2, AliasTableAnswers
  <2> QED
    BY <1>2, <2>1 DEF Resolve
<1>3. CASE o.resolver = "vector_similarity"
  <2> DEFINE score == [j \in DOMAIN aliases |-> Dot(m.vector, aliases[j].vector)]
  <2>1. /\ \A j \in DOMAIN aliases : score[j] \in Int
        /\ o.threshold \in Int /\ o.margin \in Nat
    BY <1>3 DEF ScoresAreNumbers
  <2>2. Resolve(aliases, o, m) = VectorResolve(aliases, m.vector, o.threshold, o.margin)
    BY <1>3 DEF Resolve
  <2>3. \/ VectorResolve(aliases, m.vector, o.threshold, o.margin) \in {<<>>, Failed}
        \/ VectorResolve(aliases, m.vector, o.threshold, o.margin)
             = ResolveScored(aliases, score, o.threshold, o.margin, "dot")
    BY DEF VectorResolve
  <2> HIDE DEF score
  <2>4. NamesCandidates(ResolveScored(aliases, score, o.threshold, o.margin, "dot"))
    BY <2>1, ScoredAnswers
  <2> QED
    BY <1>1, <2>2, <2>3, <2>4
<1>4. CASE o.resolver = "fuzzy"
  <2> DEFINE score == [j \in DOMAIN aliases |->
                         FuzzyScore(Signature(m.text), Signature(aliases[j].text), o.metric)]
             answer == FuzzyResolve(aliases, o.metric, o.normalize, o.threshold, o.margin, m.text)
  <2>1. /\ \A j \in DOMAIN aliases : score[j] \in Int
        /\ o.threshold \in Int /\ o.margin \in Nat
    BY <1>4 DEF ScoresAreNumbers
  <2>2. Resolve(aliases, o, m) = answer
    BY <1>4 DEF Resolve
  <2>3. \/ answer = <<>>
        \/ answer = ResolveScored(aliases, score, o.threshold, o.margin, o.metric)
    BY DEF FuzzyResolve
  <2> HIDE DEF score, answer
  <2>4. NamesCandidates(ResolveScored(aliases, score, o.threshold, o.margin, o.metric))
    BY <2>1, ScoredAnswers
  <2> QED
    BY <1>1, <2>2, <2>3, <2>4
<1> QED
  BY <1>2, <1>3, <1>4

\* The rows of one mention say what was found in each namespace, no more and no less.
LEMMA RowsOfMention ==
  ASSUME NEW mention, NEW resolved, NamesCandidates(resolved)
  PROVE  /\ NothingGuessed(LinkRows(mention, resolved))
         /\ \A r \in LinkRows(mention, resolved) : r.mention = mention.id
<1> DEFINE rows == LinkRows(mention, resolved)
           In(r) == {s \in rows : s.mention = r.mention /\ s.ns = r.ns}
<1>1. CASE DOMAIN resolved = {}
  <2> DEFINE only == [mention |-> mention.id, doc |-> mention.doc, ns |-> "", id |-> "",
                      method |-> "", status |-> "unmatched"]
  <2>1. rows = {only}
    BY <1>1 DEF LinkRows
  <2>2. only.mention = mention.id /\ only.status = "unmatched"
    OBVIOUS
  <2> HIDE DEF only, rows
  <2>3. NothingGuessed(rows)
    BY <2>1, <2>2 DEF NothingGuessed
  <2>4. \A r \in rows : r.mention = mention.id
    BY <2>1, <2>2
  <2> QED
    BY <2>3, <2>4 DEF rows
<1>2. CASE DOMAIN resolved # {}
  <2> DEFINE linked(ns, id) == [mention |-> mention.id, doc |-> mention.doc, ns |-> ns, id |-> id,
                                method |-> resolved[ns].method, status |-> resolved[ns].status]
             of(ns) == {linked(ns, id) : id \in resolved[ns].ids}
  <2>1. \A s : s \in rows <=> \E ns \in DOMAIN resolved : s \in of(ns)
    BY <1>2 DEF LinkRows
  <2> HIDE DEF rows
  <2>2. ASSUME NEW r \in rows
        PROVE  /\ r.mention = mention.id /\ r.status \in {"matched", "ambiguous"}
               /\ r.status = "matched" => In(r) = {r}
               /\ r.status = "ambiguous" => Cardinality(In(r)) > 1 /\ \A s \in In(r) : s.method = r.method
    <3>1. PICK ns \in DOMAIN resolved : r \in of(ns)
      BY <2>1
    <3>2. PICK method, ids : /\ ids # {} /\ IsFiniteSet(ids)
                             /\ resolved[ns] = Resolution(method, ids)
      BY DEF NamesCandidates
    <3>3. /\ resolved[ns].ids = ids /\ resolved[ns].method = method
          /\ resolved[ns].status = IF Cardinality(ids) = 1 THEN "matched" ELSE "ambiguous"
      BY <3>2 DEF Resolution
    <3>4. In(r) = of(ns)
      <4>1. r.mention = mention.id /\ r.ns = ns
        BY <3>1
      <4>2. \A s : s \in rows /\ s.ns = ns => s \in of(ns)
        BY <2>1
      <4>3. \A s \in of(ns) : s \in rows /\ s.mention = mention.id /\ s.ns = ns
        BY <2>1
      <4>4. \A s \in rows : s.mention = mention.id
        BY <2>1
      <4> HIDE DEF of
      <4> QED
        BY <4>1, <4>2, <4>3, <4>4
    <3>5. \A s \in of(ns) : /\ s.mention = mention.id /\ s.method = method
                            /\ s.status = resolved[ns].status
      BY <3>3
    <3>6. CASE Cardinality(ids) = 1
      <4>1. PICK x : ids = {x}
        BY <3>2, <3>6, FS_Singleton
      <4>2. of(ns) = {linked(ns, x)}
        BY <3>3, <4>1
      <4>3. r = linked(ns, x) /\ r.status = "matched"
        BY <3>1, <3>3, <3>6, <4>2
      <4> QED
        BY <3>1, <3>4, <3>5, <4>2, <4>3
    <3>7. CASE Cardinality(ids) # 1
      <4>1. PICK x \in ids, y \in ids : x # y
        BY <3>2, <3>7, FS_Singleton
      <4>2. linked(ns, x) \in of(ns) /\ linked(ns, y) \in of(ns)
        BY <3>3
      <4>3. linked(ns, x).id = x /\ linked(ns, y).id = y
        OBVIOUS
      <4>4. IsFiniteSet(of(ns))
        <5> DEFINE f == [id \in ids |-> linked(ns, id)]
        <5>1. of(ns) = {f[id] : id \in ids}
          BY <3>3
        <5> HIDE DEF f, of
        <5> QED
          BY <3>2, <5>1, ImageFinite
      <4> HIDE DEF of, linked
      <4>5. of(ns) # {} /\ \A z : of(ns) # {z}
        BY <4>1, <4>2, <4>3
      <4> DEFINE T == of(ns)
      <4> HIDE DEF T
      <4>6. Cardinality(T) \in Nat /\ Cardinality(T) # 0 /\ Cardinality(T) # 1
        <5>1. IsFiniteSet(T) /\ T # {} /\ \A z : T # {z}
          BY <4>4, <4>5 DEF T
        <5> QED
          BY <5>1, FS_CardinalityType, FS_EmptySet, FS_Singleton
      <4>7. Cardinality(T) > 1
        BY <4>6
      <4> QED
        BY <3>1, <3>3, <3>4, <3>5, <3>7, <4>7 DEF T
    <3> QED
      BY <3>6, <3>7
  <2>3. NothingGuessed(rows)
    BY <2>2 DEF NothingGuessed
  <2> QED
    BY <2>2, <2>3 DEF rows
<1> QED
  BY <1>1, <1>2

\* The rows of all the mentions of a run, when every mention has an id of its own.
LEMMA RowsOfMentions ==
  ASSUME NEW mentions, NEW resolved, ~BadMentions(mentions),
         \A i \in DOMAIN mentions : NamesCandidates(resolved[i])
  PROVE  NothingGuessed(UNION {LinkRows(mentions[i], resolved[i]) : i \in DOMAIN mentions})
<1> DEFINE part(i) == LinkRows(mentions[i], resolved[i])
           rows == UNION {part(i) : i \in DOMAIN mentions}
<1>1. \A s : s \in rows <=> \E i \in DOMAIN mentions : s \in part(i)
  OBVIOUS
<1>2. \A i \in DOMAIN mentions :
         NothingGuessed(part(i)) /\ \A r \in part(i) : r.mention = mentions[i].id
  BY RowsOfMention
<1>3. \A i, j \in DOMAIN mentions : mentions[i].id = mentions[j].id => i = j
  BY DEF BadMentions
<1> HIDE DEF part, rows
<1>4. ASSUME NEW r \in rows
      PROVE  LET In(q) == {s \in rows : s.mention = q.mention /\ s.ns = q.ns}
             IN  /\ r.status = "unmatched" => {s \in rows : s.mention = r.mention} = {r}
                 /\ r.status = "matched" => In(r) = {r}
                 /\ r.status = "ambiguous" =>
                      Cardinality(In(r)) > 1 /\ \A s \in In(r) : s.method = r.method
  <2>1. PICK i \in DOMAIN mentions : r \in part(i)
    BY <1>1
  <2>2. \A s \in rows : s.mention = r.mention => s \in part(i)
    BY <1>1, <1>2, <1>3, <2>1
  <2>3. \A s \in part(i) : s \in rows
    BY <1>1
  <2>4. {s \in rows : s.mention = r.mention} = {s \in part(i) : s.mention = r.mention}
    BY <2>2, <2>3
  <2>5. {s \in rows : s.mention = r.mention /\ s.ns = r.ns}
          = {s \in part(i) : s.mention = r.mention /\ s.ns = r.ns}
    BY <2>2, <2>3
  <2>6. NothingGuessed(part(i))
    BY <1>2
  <2> QED
    BY <2>1, <2>4, <2>5, <2>6 DEF NothingGuessed
<1>5. NothingGuessed(rows)
  BY <1>4 DEF NothingGuessed
<1> QED
  BY <1>5 DEF rows, part

\* Whatever the mentions, the reference and the resolver: a mention is linked by one row
\* in a namespace, or its candidates are reported as ambiguous, or it is reported as found
\* nowhere (run_links, _linking.py:79-143; linking.py:318-349).
THEOREM LinksNeverGuess ==
  ASSUME NEW S, NEW aliases \in Seq(S), NEW mentions, NEW o,
         o.resolver \in {"alias_table", "vector_similarity", "fuzzy"},
         o.resolver = "alias_table" => o.methods \in Seq(STRING),
         ScoresAreNumbers(mentions, aliases, o)
  PROVE  NeverGuesses(mentions, aliases, o)
<1> DEFINE resolved == [i \in DOMAIN mentions |-> Resolve(aliases, o, mentions[i])]
           rows == UNION {LinkRows(mentions[i], resolved[i]) : i \in DOMAIN mentions}
           result == RunLinks(mentions, aliases, o)
<1>1. NothingGuessed({})
  BY DEF NothingGuessed
<1>2. CASE BadMentions(mentions) \/ \E i \in DOMAIN mentions : resolved[i] = Failed
  <2>1. result \in {Failed, [rows |-> {}]}
    BY <1>2 DEF RunLinks
  <2>2. Rows(result) = {}
    BY <2>1 DEF Rows
  <2> QED
    BY <1>1, <2>2 DEF NeverGuesses
<1>3. CASE ~BadMentions(mentions) /\ \A i \in DOMAIN mentions : resolved[i] # Failed
  <2>1. \A i \in DOMAIN mentions : NamesCandidates(resolved[i])
    <3> SUFFICES ASSUME NEW i \in DOMAIN mentions PROVE NamesCandidates(resolved[i])
      OBVIOUS
    <3>1. Resolve(aliases, o, mentions[i]) # Failed
      BY <1>3
    <3>2. NamesCandidates(Resolve(aliases, o, mentions[i]))
      BY <3>1, ResolveAnswers
    <3> QED
      BY <3>2
  <2>2. NothingGuessed(rows)
    <3> HIDE DEF resolved
    <3> QED
      BY <1>3, <2>1, RowsOfMentions
  <2>3. result \in {Failed, [rows |-> {}], [rows |-> rows]}
    BY DEF RunLinks
  <2> HIDE DEF rows, result
  <2>4. Rows(result) \in {{}, rows}
    BY <2>3 DEF Rows
  <2>5. NothingGuessed(Rows(result))
    BY <1>1, <2>2, <2>4
  <2> QED
    BY <2>5 DEF NeverGuesses, result
<1> QED
  BY <1>2, <1>3

\* A mention whose text is in the reference is linked by that text, never by a looser
\* method: the methods of a list that begins with the exact one are tried in its order
\* (_AliasTableReference.resolve, linking.py:437-464).
THEOREM ExactMatchFirst ==
  ASSUME NEW aliases, NEW mentions, NEW o,
         o.resolver = "alias_table" => o.methods \in Seq(STRING) /\ o.methods # <<>>
  PROVE  ExactFirst(mentions, aliases, o)
<1> DEFINE resolved == [i \in DOMAIN mentions |-> Resolve(aliases, o, mentions[i])]
           rows == UNION {LinkRows(mentions[i], resolved[i]) : i \in DOMAIN mentions}
           result == RunLinks(mentions, aliases, o)
<1> SUFFICES ASSUME o.resolver = "alias_table", o.methods[1] = "exact",
                    NEW r \in Rows(result), NEW i \in DOMAIN mentions,
                    r.mention = mentions[i].id, r.status # "unmatched",
                    Hits(aliases, "exact", mentions[i].text, r.ns) # {}
             PROVE  r.method = "exact"
  BY DEF ExactFirst
<1>1. r \in rows /\ ~BadMentions(mentions)
  <2>1. result \in {Failed, [rows |-> {}], [rows |-> rows]} /\ (BadMentions(mentions) => result = Failed)
    BY DEF RunLinks
  <2> HIDE DEF rows, result
  <2> QED
    BY <2>1 DEF Rows
<1>2. PICK j \in DOMAIN mentions : r \in LinkRows(mentions[j], resolved[j])
  BY <1>1
<1> DEFINE answer == AliasTableResolve(aliases, o.methods, mentions[j].text)
<1>3. resolved[j] = answer
  BY DEF Resolve
<1>4. PICK ns \in DOMAIN answer : /\ r.ns = ns /\ r.method = answer[ns].method
                                  /\ r.mention = mentions[j].id
  <2>1. r \in LinkRows(mentions[j], answer)
    BY <1>2, <1>3
  <2> HIDE DEF answer
  <2> QED
    <3>1. DOMAIN answer # {}
      <4> DEFINE only == [mention |-> mentions[j].id, doc |-> mentions[j].doc, ns |-> "", id |-> "",
                          method |-> "", status |-> "unmatched"]
      <4>1. ASSUME DOMAIN answer = {} PROVE LinkRows(mentions[j], answer) = {only}
        BY <4>1 DEF LinkRows
      <4>2. only.status = "unmatched"
        OBVIOUS
      <4> HIDE DEF only
      <4> QED
        BY <2>1, <4>1, <4>2
    <3>2. PICK ns \in DOMAIN answer : \E id :
             r = [mention |-> mentions[j].id, doc |-> mentions[j].doc, ns |-> ns, id |-> id,
                  method |-> answer[ns].method, status |-> answer[ns].status]
      BY <2>1, <3>1 DEF LinkRows
    <3> QED
      BY <3>2
<1>5. i = j
  BY <1>1, <1>4 DEF BadMentions
<1> DEFINE w == WinningMethod(aliases, o.methods, mentions[j].text, ns)
<1>6. r.method = o.methods[w]
  <2>1. ~Blank(mentions[j].text)
    BY <1>4 DEF AliasTableResolve
  <2>2. answer[ns] = Resolution(o.methods[w], Hits(aliases, o.methods[w], mentions[j].text, ns))
    BY <1>4, <2>1 DEF AliasTableResolve
  <2> HIDE DEF answer, w
  <2> QED
    BY <1>4, <2>2 DEF Resolution
<1>7. w \in DOMAIN o.methods /\ w <= 1
  <2>1. 1 \in DOMAIN o.methods /\ Hits(aliases, o.methods[1], mentions[j].text, ns) # {}
    BY <1>4, <1>5
  <2> QED
    BY <2>1, FirstMethodWins
<1>8. w = 1
  BY <1>7
<1> QED
  BY <1>6, <1>8
===============================================================================
