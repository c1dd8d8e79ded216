-------------------------- MODULE WarehouseContract --------------------------
(***************************************************************************)
(* What adapters/base.py promises of a warehouse adapter, whatever the     *)
(* engine: an operation changes the model's table and its state rows in    *)
(* one step, the whole of its effect or none of it, and the rows it did    *)
(* not name keep what they held.  Three departures are announced by the    *)
(* code and are actions of their own: new columns may be added before the  *)
(* rows arrive, a missing table may be created before it is filled, and a  *)
(* layout an engine cannot replace in place is dropped and made again.     *)
(***************************************************************************)
EXTENDS WarehouseTables

CONSTANT Requests       \* what the execution modules may ask

VARIABLES
    table,      \* the model's table
    state,      \* the state rows of its scope
    call        \* the request being served, Idle between two

Idle == [kind |-> "idle"]

contractVars == <<table, state, call>>

(* The frame merged into the table: matched rows are replaced, the columns *)
(* decided by the schema policy; a missing table takes the whole frame.    *)
Merges(r, t) ==
    IF ~Exists(t) THEN {Chunk1(r)}
    ELSE LET plan == PlanSchemaChange(t.cols, r.cols, r.policy)
         IN  IF plan.ok THEN {Upserted(Padded(t, plan.add), r, plan.load)} ELSE {}

(* An SQL model merges into an existing table; whether a matched row keeps *)
(* a column its query no longer selects is left to the engine.             *)
SqlMerges(r, t) ==
    LET plan == PlanSchemaChange(t.cols, r.cols, r.policy)
        wide == Padded(t, plan.add)
    IN  IF plan.ok /\ Exists(t)
        THEN {Upserted(wide, r, plan.load), Updated(wide, r, plan.load)}
        ELSE {}

Children(r, t) ==
    LET rest == Without(t, OfDocs(t, r.parents))
    IN  IF r.keys = {} THEN {rest} ELSE Merges(r, rest)

(* The tables and states a request may leave behind when it takes effect.  *)
Effects(r, t, s) ==
    CASE r.kind \in {"full", "sql_full"} ->
            {<<IF Exists(Whole(r)) THEN [Whole(r) EXCEPT !.form = f] ELSE Absent, s>>
               : f \in {FormOf(r), t.form}}
      [] r.kind = "chunks" -> {<<Whole(r), s>>}
      [] r.kind = "incremental" /\ r.clean -> Merges(r, t) \X {s}
      [] r.kind = "sql_incremental" /\ r.clean -> SqlMerges(r, t) \X {s}
      [] r.kind = "children" /\ r.clean ->
            Children(r, t) \X {Recorded(s, r.records, r.value)}
      [] r.kind = "delete" ->
            {<<Without(t, r.keys), Forgotten(s, r.records)>>}
      [] r.kind = "scope" /\ r.clean ->
            {<<t, Recorded(NoState, r.records, r.value)>>}
      [] OTHER -> {}

(* What an engine can replace without the table being gone for a while.    *)
InPlace(r, t) ==
    \/ r.layout = "none"
    \/ r.layout # "iceberg" /\ (~Exists(t) \/ r.layout = t.form)

Invoke ==
    /\ call = Idle
    /\ call' \in Requests
    /\ UNCHANGED <<table, state>>

Apply ==
    /\ call # Idle
    /\ <<table', state'>> \in Effects(call, table, state)
    /\ UNCHANGED call

Widen ==
    /\ call # Idle
    /\ call.kind \in Merging
    /\ call.policy = "append_new_columns"
    /\ Exists(table)
    /\ \E add \in SUBSET call.cols : table' = Padded(table, add)
    /\ UNCHANGED <<state, call>>

Create ==
    /\ call # Idle
    /\ call.kind \in {"incremental", "children"}
    /\ ~Exists(table)
    /\ table' = Table(call.cols, {}, Null, FormOf(call))
    /\ UNCHANGED <<state, call>>

Remake ==
    /\ call # Idle
    /\ call.kind \in Replacing
    /\ ~InPlace(call, table)
    /\ table' \in {Absent, Table(call.cols \cup call.moreCols, {}, Null, FormOf(call))}
    /\ UNCHANGED <<state, call>>

Return ==
    /\ call # Idle
    /\ call' = Idle
    /\ UNCHANGED <<table, state>>

ContractInit == table = Absent /\ state = NoState /\ call = Idle
ContractNext == Invoke \/ Apply \/ Widen \/ Create \/ Remake \/ Return

Contract == ContractInit /\ [][ContractNext]_contractVars
==============================================================================
