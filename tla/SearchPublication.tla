------------------------- MODULE SearchPublication -------------------------
(***************************************************************************)
(* run_search_model (execution/search.py) with the bounded reconciliation  *)
(* of state_reconciliation.py, run after run over one search index: the    *)
(* upstream table is diffed batch by batch against the publication state   *)
(* kept in the warehouse, and the difference is applied to a vector store  *)
(* that shares no transaction with the warehouse.                          *)
(*                                                                         *)
(* One publisher at a time: the claim it works under is elected in         *)
(* ServingCoordination, and is here the flag claimed, which an operator's  *)
(* recovery takes away.  A row value stands for the pair of fingerprint    *)
(* and code version that classify_batch compares.                          *)
(***************************************************************************)
EXTENDS Naturals, FiniteSets

CONSTANTS
    Rows, Values,
    None,            \* a row that is absent, or a collection that does not exist
    BatchSize,       \* search.batch_size: rows of a batch and of a stale page
    Settings,        \* the environments publications run in
    MaxChanges       \* bound: changes of the environment

ASSUME BatchAssumption == BatchSize \in Nat \ {0}
ASSUME RowsAssumption == IsFiniteSet(Rows)
ASSUME NoneAssumption == None \notin Values /\ None \notin [Rows -> Values \cup {None}]
ASSUME SettingAssumption ==
    Settings \subseteq [governed : BOOLEAN, upstreamWaits : BOOLEAN,
                        vanishes : BOOLEAN, zombies : BOOLEAN, maxFaults : Nat]
ASSUME BoundAssumption == MaxChanges \in Nat

VARIABLES
    setting,    \* the environment of this behaviour
    upstream,   \* the upstream table
    store,      \* the physical collection, or None
    state,      \* the publication state of the scope in the warehouse
    ledger,     \* status of the serving ledger row
    claimed,    \* the running publisher still owns the ledger row
    pc,         \* control point of the running publication
    snap,       \* its immutable snapshot of upstream
    todo,       \* snapshot rows not read yet; in the stale pass, stale rows left
    batch,      \* pending rows of the current batch, or the current stale page
    forced,     \* force_publish: there was no collection when the run began
    published,  \* history: the snapshot whose publication became ready last
    changes, faults

tables == <<store, state>>
run    == <<snap, todo, batch, forced>>
env    == <<setting, changes, upstream>>
vars   == <<setting, upstream, store, state, ledger, claimed, pc, snap, todo, batch, forced,
            published, changes, faults>>

\* search.access = "governed"; upstream changes only while the index is not
\* waiting for a failed publication to be retried; the collection may be removed
\* between runs; recover() may be asserted while the owner lives.
Governed == setting.governed
UpstreamWaits == setting.upstreamWaits
CollectionVanishes == setting.vanishes
Zombies == setting.zombies
MaxFaults == setting.maxFaults      \* bound: faults

Content == [Rows -> Values \cup {None}]
Empty == [r \in Rows |-> None]
Present(content) == {r \in Rows : content[r] # None}
Writes == {"create", "revoke", "upsert", "record", "delete", "forget", "create_empty"}
Points == Writes \cup
    {"idle", "acquire", "inspect", "batch", "verify", "verify_record",
     "stale_open", "stale", "verify_stale", "verify_empty", "index", "validate",
     "confirm", "failing", "down"}

TypeOK ==
    /\ setting \in Settings
    /\ upstream \in Content /\ state \in Content /\ snap \in Content
    /\ store \in Content \cup {None}
    /\ published \in Content \cup {None}
    /\ ledger \in {"unpublished", "publishing", "ready", "failed"}
    /\ claimed \in BOOLEAN /\ forced \in BOOLEAN
    /\ pc \in Points
    /\ todo \in SUBSET Rows /\ batch \in SUBSET Rows
    /\ changes \in 0..MaxChanges /\ faults \in 0..MaxFaults

Init ==
    /\ setting \in Settings
    /\ upstream \in Content
    /\ store = None /\ state = Empty /\ snap = Empty /\ published = None
    /\ ledger = "unpublished" /\ claimed = FALSE /\ forced = FALSE
    /\ pc = "idle" /\ todo = {} /\ batch = {}
    /\ changes = 0 /\ faults = 0

-----------------------------------------------------------------------------
(* The claim.                                                              *)

\* The snapshot of upstream is opened before authority is claimed.
OpenSnapshot ==
    /\ pc = "idle"
    /\ snap' = upstream /\ todo' = Present(upstream) /\ batch' = {}
    /\ pc' = "acquire"
    /\ UNCHANGED <<setting, upstream, tables, ledger, claimed, forced, published, changes, faults>>

\* acquire_publish; a claim that a dead publisher left refuses it.
Acquire ==
    /\ pc = "acquire"
    /\ \/ /\ ledger # "publishing"
          /\ ledger' = "publishing" /\ claimed' = TRUE /\ pc' = "inspect"
       \/ /\ ledger = "publishing"
          /\ pc' = "idle" /\ UNCHANGED <<ledger, claimed>>
    /\ UNCHANGED <<env, tables, run, published, faults>>

\* verify_publish in front of a step.
Verify(point, next) ==
    /\ pc = point
    /\ pc' = IF claimed THEN next ELSE "failing"
    /\ UNCHANGED <<env, tables, ledger, claimed, run, published, faults>>

Inspect ==
    /\ pc = "inspect"
    /\ forced' = (store = None)
    /\ pc' = "batch"
    /\ UNCHANGED <<env, tables, ledger, claimed, snap, todo, batch, published, faults>>

-----------------------------------------------------------------------------
(* Batches of the snapshot.                                                *)

Pages ==
    {rows \in SUBSET todo : \/ Cardinality(rows) = BatchSize
                            \/ rows = todo /\ Cardinality(rows) < BatchSize}

\* Mutant: the fingerprint of a known row is not compared.
ChangedUnlessKnown(r) == forced \/ state[r] = None
\* classify_batch: a row is published unless the state proves it unchanged.
Pending(r) == forced \/ state[r] # snap[r]

\* Batches without pending rows are skipped.
NextBatch ==
    /\ pc = "batch"
    /\ IF todo = {}
       THEN pc' = "stale_open" /\ UNCHANGED <<todo, batch>>
       ELSE \E rows \in Pages :
              /\ todo' = todo \ rows
              /\ batch' = {r \in rows : Pending(r)}
              /\ pc' = IF batch' = {} THEN "batch" ELSE "verify"
    /\ UNCHANGED <<env, tables, ledger, claimed, snap, forced, published, faults>>

\* Known rows of a governed index are deleted first.
Known == {r \in batch : state[r] # None}
\* Mutants: a control point no handler knows; governed rows updated in place.
MutationUnknown == IF Governed /\ Known # {} THEN "replace" ELSE "upsert"
MutationInPlace == "upsert"
Mutation == IF Governed /\ Known # {} THEN "revoke" ELSE "upsert"

VerifyBatch == Verify("verify", IF store = None THEN "create" ELSE Mutation)

\* A call to the store or to the warehouse's state table succeeds, or fails
\* before or after it took effect, by an exception or with the process.
Call(point, newStore, newState, next) ==
    /\ pc = point
    /\ \/ /\ store' = newStore /\ state' = newState
          /\ pc' = next /\ UNCHANGED faults
       \/ /\ faults < MaxFaults /\ faults' = faults + 1
          /\ \/ store' = newStore /\ state' = newState
             \/ UNCHANGED tables
          /\ pc' \in {"failing", "down"}
    /\ UNCHANGED <<env, ledger, claimed, run, published>>

With(content, rows, values) == [r \in Rows |-> IF r \in rows THEN values[r] ELSE content[r]]

CreateCollection == Call("create", Empty, state, Mutation)

Revoke == Call("revoke", With(store, Known, Empty), state, "upsert")

Upsert == Call("upsert", With(store, batch, snap), state, "verify_record")

VerifyRecord == Verify("verify_record", "record")

\* Mutant: the whole snapshot is recorded with the first batch.
RecordSnapshot == Call("record", store, snap, "batch")
RecordState == Call("record", store, With(state, batch, snap), "batch")

-----------------------------------------------------------------------------
(* The stale pass.                                                         *)

\* state_page_reader: state rows whose keys upstream does not have now.
OpenStalePages ==
    /\ pc = "stale_open"
    /\ todo' = Present(state) \ Present(upstream)
    /\ pc' = "stale"
    /\ UNCHANGED <<env, tables, ledger, claimed, snap, batch, forced, published, faults>>

NextStalePage ==
    /\ pc = "stale"
    /\ IF todo = {}
       THEN pc' = "verify_empty" /\ UNCHANGED <<todo, batch>>
       ELSE \E rows \in Pages :
              batch' = rows /\ todo' = todo \ rows /\ pc' = "verify_stale"
    /\ UNCHANGED <<env, tables, ledger, claimed, snap, forced, published, faults>>

VerifyStale == Verify("verify_stale", "delete")

\* Mutant: stale rows are deleted from the state only.
DeleteNothing == Call("delete", store, state, "forget")
\* Deleting from a collection that does not exist is an error of the store.
DeleteStale ==
    \/ store # None /\ Call("delete", With(store, batch, Empty), state, "forget")
    \/ /\ store = None /\ pc = "delete" /\ pc' = "failing"
       /\ UNCHANGED <<env, tables, ledger, claimed, run, published, faults>>

ForgetState == Call("forget", store, With(state, batch, Empty), "stale")

-----------------------------------------------------------------------------
(* Completion.                                                             *)

\* An empty index still gets its collection.
VerifyEmpty ==
    \/ store = None /\ Verify("verify_empty", "create_empty")
    \/ /\ store # None /\ pc = "verify_empty" /\ pc' = "index"
       /\ UNCHANGED <<env, tables, ledger, claimed, run, published, faults>>

CreateEmpty == Call("create_empty", Empty, state, "index")

CountMatches == Cardinality(Present(store)) = Cardinality(Present(snap))

EnsureIndexes ==
    /\ pc = "index"
    /\ pc' = IF CountMatches THEN "validate" ELSE "failing"
    /\ UNCHANGED <<env, tables, ledger, claimed, run, published, faults>>

\* table_snapshot compares upstream with the snapshot as it closes.
ValidateSnapshot ==
    /\ pc = "validate"
    /\ pc' = IF upstream = snap THEN "confirm" ELSE "failing"
    /\ UNCHANGED <<env, tables, ledger, claimed, run, published, faults>>

\* verify_publish and mark_ready.
MarkReady ==
    /\ pc = "confirm"
    /\ \/ /\ claimed
          /\ ledger' = "ready" /\ claimed' = FALSE /\ published' = snap
          /\ pc' = "idle"
       \/ /\ ~claimed
          /\ pc' = "failing" /\ UNCHANGED <<ledger, claimed, published>>
    /\ UNCHANGED <<env, tables, run, faults>>

\* mark_failed records nothing for a publisher that lost its claim.
MarkFailed ==
    /\ pc = "failing"
    /\ ledger' = IF claimed THEN "failed" ELSE ledger
    /\ claimed' = FALSE
    /\ pc' = "idle"
    /\ UNCHANGED <<env, tables, run, published, faults>>

\* A warehouse error at a read, a verification or the completion, or the death
\* of the process there.
Fault ==
    /\ pc \notin Writes \cup {"idle", "acquire", "failing", "down"}
    /\ faults < MaxFaults /\ faults' = faults + 1
    /\ pc' \in {"failing", "down"}
    /\ UNCHANGED <<env, tables, ledger, claimed, run, published>>

Crash ==
    /\ pc \in {"acquire", "failing"}
    /\ faults < MaxFaults /\ faults' = faults + 1
    /\ pc' = "down"
    /\ UNCHANGED <<env, tables, ledger, claimed, run, published>>

-----------------------------------------------------------------------------
(* The environment.                                                        *)

\* The process is started again; what a dead one claimed stays claimed.
Restart ==
    /\ pc = "down"
    /\ pc' = "idle"
    /\ UNCHANGED <<env, tables, ledger, claimed, run, published, faults>>

\* `stel serving recover`.
Recover ==
    /\ Zombies \/ (ledger = "publishing" /\ pc \in {"idle", "down"})
    /\ ledger' = "failed" /\ claimed' = FALSE
    /\ UNCHANGED <<env, tables, pc, run, published, faults>>

Settled == pc = "idle" /\ ledger \in {"unpublished", "ready"}

ChangeUpstream ==
    /\ changes < MaxChanges /\ changes' = changes + 1
    /\ UpstreamWaits => Settled
    /\ \E r \in Rows, v \in Values \cup {None} : upstream' = [upstream EXCEPT ![r] = v]
    /\ UNCHANGED <<setting, tables, ledger, claimed, pc, run, published, faults>>

DropCollection ==
    /\ CollectionVanishes /\ Settled
    /\ changes < MaxChanges /\ changes' = changes + 1
    /\ store' = None
    /\ UNCHANGED <<setting, upstream, state, ledger, claimed, pc, run, published, faults>>

Publish ==
    \/ OpenSnapshot \/ Acquire \/ Inspect \/ NextBatch \/ VerifyBatch
    \/ CreateCollection \/ Revoke \/ Upsert \/ VerifyRecord \/ RecordState
    \/ OpenStalePages \/ NextStalePage \/ VerifyStale \/ DeleteStale \/ ForgetState
    \/ VerifyEmpty \/ CreateEmpty \/ EnsureIndexes \/ ValidateSnapshot
    \/ MarkReady \/ MarkFailed

Next ==
    \/ Publish \/ Fault \/ Crash
    \/ Restart \/ Recover \/ ChangeUpstream \/ DropCollection

Spec == Init /\ [][Next]_vars
\* The pipeline is run again and again, and a claim that keeps refusing it is
\* recovered by the operator.
FairSpec == Spec /\ WF_vars(Publish) /\ WF_vars(Restart) /\ SF_vars(Recover)

-----------------------------------------------------------------------------
(* Properties.                                                             *)

\* A ready index holds exactly the rows and values of the snapshot it was
\* published from: no failure, crash or retry before it leaves the store and the
\* state out of step when mark_ready is reached, as long as nobody else removes
\* the collection and upstream waits for a failed publication to be repeated.
ReadyIsSnapshot ==
    UpstreamWaits /\ ~CollectionVanishes /\ ledger = "ready" => store = published

\* "Advance state per batch, only for receipt-acknowledged rows": what a step
\* adds to the publication state is in the store.
StateFollowsStore ==
    [][\A r \in Rows : state'[r] \notin {None, state[r]} =>
        store # None /\ store[r] = state'[r]]_vars

\* "A failed publish leaves the old, possibly more permissive row absent, not
\* queryable": once the upsert of a governed batch was begun, no row of it is
\* stored with a value other than the new one.  A row that an interrupted run
\* stored but did not record is unknown to the next run and upserted unrevoked,
\* so this is promised of an upstream that waits for such a run to be repeated.
GovernedRevoked ==
    [][Governed /\ UpstreamWaits /\ pc = "upsert" /\ pc' # "upsert" =>
        \A r \in batch : store'[r] \in {None, snap[r]}]_vars

\* The index is ready for the current upstream again and again, whatever
\* failures the earlier runs met, if the upstream waits for it.
Converges == []<>(~UpstreamWaits \/ (ledger = "ready" /\ store = upstream))
=============================================================================
