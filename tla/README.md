# Specifications of stel

stel builds warehouse tables from documents (extract, transform, chunk, embed,
map with a model, train), publishes them to a vector store, serves searches from
it and answers agents through a context server.  This directory holds TLA+
models of it in two shapes.  What depends on the order of steps is a state
machine: runs with their threads and budgets, incremental state, native batch
jobs, the warehouse engines and the migration of what they hold, provider calls,
publication, the serving coordinator, the context server.  What is an algorithm
is a set of operators, judged on every case of a small set: text, checks,
retrieval, learning, and the plan of a project.  `PROJECT.json` maps every
definition to the lines of `src/` it stands for; paths below are relative to
`src/src/stel/`.

    tlc -workers 2 -config serving_serial.cfg MCServingCoordination
    tlc -workers 2 -config services.cfg MCServices
    tlapm ServingCoordinationProofs.tla

The last command is the same for the other six modules named `*Proofs` and for
`AgentContext`, which holds its own theorems.

## 1. Inventory

| Component | State it keeps | Operations | What makes it hard | What makes it correct |
|---|---|---|---|---|
| Runner (`runner.py`, `dag.py`) | none but the selection and the results of a run | `run_project`, `build_project`, threads over topological batches, `--source-filter`, `--full-refresh` | runs cut short anywhere; models of a batch share one connection behind a lock | running again repairs what a run left; a filtered run removes nothing; no thread waits for itself |
| Configuration, compiler, selection (`config/`, `profile.py`, `prompts.py`, `compiler.py`, `dag.py`, `versioning.py`) | files of the project, `profiles.yml`, the lock of prompts | load, expand templates, compile, resolve a target, select, version | what is accepted is carried out by code that reads it again | an accepted plan can be carried out: one writer per column, what is read was built, no capability missed half-way; settings of the operator's stay the operator's; a version decides what is asked |
| Document sources (`sources/`) | none | `discover`, `fetch` of directories, buckets, relations | the source changes between listing and fetching | no document lost, doubled, or read from outside or in another version than was listed |
| Extraction models (`execution/extraction.py`) | table of rows; state: fingerprint per document | diff, removal, flushes, merge then state, staging swap | documents change between discovery and fetch; crash between merge and state; budgets and failures in the middle | state never ahead of rows; a skipped document has its row |
| Native batches (`backends/llm_backend.py`) | `llm_cache` of answers, `llm_batch_jobs` records, the provider's jobs | partition, look up, submit, persist, poll, cancel, fetch, store | interrupts between a remote effect and its record; answers matched by position; partitions that change | no answer for another document; work billed once and nothing paid for lost, but for jobs given up at their deadline |
| Providers (`providers/`) | none between calls | wire requests, retries, batches, embeddings | an answer is billed and then rejected; items come back in any order | every charge is reported; an item answers its own input |
| Transforms (`execution/transform.py`, `transforms/`, `text/linking.py`, `text/relations.py`) | target rows; state per parent | full and incremental runs around user code, entity linking, relation extraction | inputs are read one after the other while they are edited; rows and state in two statements | a skipped parent has the children of its fingerprint; no input escapes the fingerprint; links and relations mean what their tables say |
| Chunk models (`execution/chunk.py`, `chunking.py`) | table of pieces; state per document | cutting, `delete_rows_and_state`, `replace_children`, full refresh | old and new pieces of a document; full refresh in two commits; sizes and overlaps at boundaries | pieces are those of the recorded input, no orphans; no letter lost |
| Embed models (`execution/embed.py`) | table of vectors; state per record | reuse, provider calls, publish, prune, state, rebuild | vectors taken over from earlier rows | a vector belongs to the text and configuration beside it |
| Map models and budgets (`execution/llm.py`, `llm_map.py`, `budget.py`) | counters of a model and of a run behind locks | `ensure_headroom`, `charge_*` | check and charge are two steps of many threads | what is spent passes the cap by no more than what is under way |
| Classic ML (`classic_ml/`, `execution/ml.py`, `ml_contracts.py`) | artifact directories, registry, journal | fit, publish, predict, recover | three files change together; paths alias each other | artifact and registry belong together after any interruption; the same rows train the same model |
| Checks (`checks/`, `retrieval_eval.py`, `retrieval_metrics.py`) | stored failures, evaluation rows | data tests, golden queries, judges | order of rows, NULLs, thresholds at zero | a test says the same of the same data; severity never hides a failure |
| Search publication (`execution/search.py`, `state_reconciliation.py`, `retrieval/evolution.py`) | collection in the store with its stamp; publication state in the warehouse | snapshot, diff by batches, revoke, upsert, record, stale pages, index, ready; widen and restamp | two systems without a common transaction; upstream moves; configuration changes; retries | what is ready is the snapshot; state never ahead of the store; governed rows are revoked; an index that answers has the rows its configuration describes |
| Serving coordination (`retrieval/coordination.py`) | ledger rows and lease rows | `acquire_publish`, `verify_publish`, `mark_ready`, `mark_failed`, `acquire_query`, `validate_query`, `release_query`, `recover` | no transaction spans two statements; some warehouses read snapshots; sessions die | one publisher; answers from one pinned generation; fences grow; authority moves only by recovery |
| Search query (`search.py`, `retrieval/lancedb.py`) | a lease | admission, checks, filters, store reads, fusion, validation | the store changes while it reads; policy is composed with user filters | as above, and only rows that every policy attribute admits |
| Adapters (`adapters/`) | tables, state table, staging tables | materialization, state calls, snapshots, state pages, schema evolution, name migration | multi-statement publications; BigQuery has no DDL transactions; answers get lost | rows and state change together where promised; no replacement loses the last good table, but for a drop whose answer is lost; incremental state survives a migration |
| Context server (`mcp_server/`, `agent_context.py`) | semaphore, pool, request times | admission, authorization, list, search, document, lineage, close | operations that outlive their time limit; rows revoked while they are read | bounded concurrency; every call answered, but for an append of the log that hangs; nothing served that was not readable; one current version of a document |
| Parsers, encodings, command line, docs, watch mode | none across calls | pure functions, I/O | - | unit tests |

The components meet in three places.  A run hands the rows of one model to the
next through the warehouse, and every model keeps its own state there.  A
publication reads upstream through one snapshot, writes the store, and asks the
coordinator before and after each write.  A query, from the command line or from
the context server, meets publishers only in the ledger, the leases and the
store.

`PROJECT.json` lists all components with their status, and every hazard at its
line.

## 2. Modules

| Module | Models | Built on |
|---|---|---|
| `ServingScope` | what the coordinator promises: a readers-writer lock that a finishing writer opens for queries | |
| `ServingCoordination` | the coordinator, statement by statement, with publishers, queries, operators and crashes | `ServingScope` by refinement |
| `ServingCoordinationProofs` | theorems about it | |
| `SearchPublication` | runs of one search model over warehouse state and store | |
| `SearchPublicationProofs` | theorems about it | |
| `BatchJobs` | native batches of an extraction model over interrupted runs | |
| `BatchJobsProofs` | theorems about it | |
| `IncrementalPipeline` | source, extraction, chunk and embed models, run after run | |
| `IncrementalPipelineProofs` | theorems about it | |
| `BudgetedWorkers` | the worker threads of extraction and llm models and the two ledgers they share | |
| `ProjectRun` | one `run`, threaded `run` or `build` over the graph of models | extends `BudgetedWorkers` |
| `ProjectRunProofs` | theorems about both | |
| `WarehouseTables` | tables, state rows and requests of an adapter | |
| `WarehouseContract` | what `adapters/base.py` promises, whatever the engine | `WarehouseTables` |
| `WarehouseAdapters` | DuckDB and BigQuery as the statements they send | `WarehouseContract` by refinement |
| `WarehouseProofs` | theorems about both | |
| `WarehouseLifecycle` | opening a warehouse with legacy names or v1 state, and `stel migrate` | |
| `ContextServer` | admission, time limits, the reads and re-authorization of an operation | |
| `ProviderCalls` | one call of a provider: requests, retries, billing, batches | |
| `TransformModels` | an incremental transform over edits and deaths | `EntityLinks` |
| `SearchEvolution` | a collection while its configuration changes | |
| `MLArtifacts` | publication and recovery of fitted artifacts | |
| `ServicesProofs` | theorems about `ContextServer`, `WarehouseLifecycle`, `ProviderCalls`, `TransformModels`, `MLArtifacts` and `SearchEvolution`, and about `EntityLinks` | |
| `EntityLinks`, `EntityRelations`, `TextChunks` | linking, relations, cutting of texts | |
| `DataTests` | data tests, drift, judges, enum checks | |
| `SearchQueries`, `AgentContext`, `ContextAccess` | a search and its evaluation; versions of documents, with theorems about them; principals, decisions, catalogs | |
| `TextFeatures`, `LearnedModels` | terms and naive Bayes; clusters and topics; what ML models may declare | |
| `ModelContracts`, `ProjectContract`, `ProjectFiles`, `TargetProfiles`, `DocumentSources` | one model, also the declared inputs of a transform; a project, its graph and selections; its files, templates, prompts; targets and versions; listing and fetching | `ProjectContract` extends `ModelContracts` |
| `MC*` | values and cases for TLC; `MCServices` puts six machines side by side, `MCAlgorithms` all the operators | |

### ServingCoordination

Publishers, queries and operators are sessions with a program counter; between
two of their statements any other session may act.  `ledger` and `leases` are
the rows of the two tables for one scope; a row is a record of `row_id`,
`fencing_token`, `status`, `publication_id` (`owner`), configuration and
`active_generation`.  A session inserts one row and mints one publication id, so
its number stands for both; numbers are ordered because duplicates are elected
by `MIN(row_id)`.  `store` is the collection: its version, the configuration
stamped on it and whether the indexes are complete.

With `SnapshotDML` a conditional statement is two steps: it reads, and commits
later.  An INSERT conflicts with nothing; an UPDATE whose row was changed in
between aborts (`ClaimConflict`).  Without it a statement is one step.  The
DELETE of duplicates and the statements of `recover` are single steps in both.

The publisher's part follows `run_search_model`: claim, publisher lock,
(widening of) the collection, batches of verify, write, verify, then indexes,
the last verification, `mark_ready` with its read-back, and `mark_failed` on
every error.  Any statement of the coordinator may also fail with an error of
the warehouse (`StatementFails`), which the code answers in different ways:
inside `acquire_publish` the caller has no lease to give back (`unacquired`),
and `mark_failed` suppresses only the coordinator's own errors (`unrecorded`);
in the completing statements it is recorded as any other failure.  A query that
fails in `acquire_query` does not delete the lease it inserted (`unadmitted`),
nor does one whose release fails (`unreleased`).  What is written is only a
version number here; `SearchPublication` says which rows.  A query is
`acquire_query`, the collection checks, one or more store reads,
`validate_query`, release.  Left out: the error code and the row counts of the
ledger, the restamping of a legacy collection (a widening), and `inspect`,
which only reads.

### SearchPublication

One publisher at a time, run again and again; `claimed` says whether the ledger
row is still its own, and `Recover` takes it away, with `Zombies` also from a
living owner.  A value stands for the pair of fingerprint and code version that
`classify_batch` compares.  Every call to the store or to the state table
(`Call`) succeeds, or fails before or after its effect, with the process or
without.  Pages are arbitrary subsets of their size: the properties do not
depend on the order of keys.

### BatchJobs

A document is its place in the listing, an answer the document it answers.
`cache`, `jobs` and `processed` survive a run, `provider` is the provider's:
what a job was asked, how it ended and which answers it has, each of them paid
for. At the deadline the job is asked to stop (`Timeout`): it ends with the
answers it has by then, or goes on, because a failed cancel is ignored; its
record is removed in either case (`Cancelled`), and `givenUp` remembers it.
`Interrupt` ends the run at any control point.  A published window is one step
(rows and state of a flush are the subject of `IncrementalPipeline`); budgets,
removed documents and fetch errors of single documents are left out.  A job is
found again by the exact list of its documents, as `_batch_job_key` hashes
their cache keys in order.

### IncrementalPipeline

Three tables and three states, written in the order the code writes them.  A
content stands for the bytes of a document and the code version that reads
them, and is the fingerprint of its row; `TextsOf` gives the texts of its
pieces.  A key is the document, the place and the text of a piece, as
`chunk_id` hashes them.  `Begin` is discovery with the diff and the removal
(one transaction), with a filter or without; a flush is any subset of the
documents left, of the flush size; `Interrupt` is any error or crash, which
leaves what was committed; `Exhaust` is a spent budget, which ends the model but
not the run.  A failed document lets `run` go on and makes `build` skip the
descendants (`GoOn`).  The models of a run are executed one after the other;
nobody drops tables; schema evolution is left out.

### BudgetedWorkers and ProjectRun

A thread takes the next document, passes the gates of the model's ledger and the
run's, counts the bytes of the document in both, asks the provider, and charges
the answer to both; each access to a ledger is a step of its own under the
ledger's lock (`budget.py`), and other threads act between two of them.  `llm`
models count no bytes and have no ledger of their own.  Documents and bytes are
counted first and refused afterwards, usage is charged after the answer, and
`Headroom` is the gate in between.  `billed` remembers what the provider really
answered.

`ProjectRun` adds the models.  In a run or a build they follow the topological
order one after the other; with threads `NextBatch` takes a generation, and the
next one when all of it ended.  A model reads its input, counts its documents,
lets its threads work, and publishes; the first failure in the order of the
documents decides what a cancelled pool returns (`Drain`, `GiveUp`).  A model
ends well, with errors, rejected by its tests, or with an exception: a `RunError`
is caught by a build and blocks the descendants, any other (`escaped`: an error of
the warehouse in the state tables or in a test) ends the build.  `lock` is
the lock of `_SerializedAdapter`: calls pass when it is free, a search model
keeps it while its snapshot is open, and a full materialization while its
documents are drawn.  The flushes of an extraction model are one window here
(`IncrementalPipeline` has them one by one), only the backends that ask a
provider are of interest, and the use of the run's ledger by LLM-judge tests is
left out.

### WarehouseTables, WarehouseContract, WarehouseAdapters

A cell is NULL or the value of the batch that wrote it; a table has columns,
rows and a layout.  `Request` is a call of an adapter method with everything
the engines treat differently (layout, schema policy, fence, watched columns,
state rows that go with it).  `WarehouseContract` gives each request its effect
in one step, and has three more actions for what the code announces: columns
may be added before rows arrive (`Widen`), a missing table may be created first
(`Create`), a layout that cannot be replaced in place is dropped and made again
(`Remake`).  `WarehouseAdapters` chooses for each request the statements of the
engine.  A statement is executed, fails (`Fail`), takes effect and loses its
answer (`LoseAnswer`, any statement of BigQuery; `lost` remembers that it was
the drop of a swap), or is the last before the process dies (`Crash`); a call
that fails runs its cleanup, whose statements may fail too. DuckDB brackets
statements in transactions, on whose view they work until the commit.  A second
claim may take the ledger between any two statements (`Reassign`), and a reader
pages through a snapshot while the writer works.

### WarehouseLifecycle

Two schemas, each with the state table, the serving ledger and a failures table
under their old and new names.  `Begin` is one command; what follows are the
statements of connecting (guard, state table, v1 to v2) or of `stel migrate`.
Any statement may fail, the process may die, and the operator does what the last
message says: migrate, pin the schema, or drop one of two conflicting names.

### ContextServer

Calls pass the rate limiter and the semaphore; a pool thread runs the operation
and releases the slot in the end, while the caller waits no longer than
`Timeout` ticks.  The operation reads index, chunk rows and registry one after
the other and asks the authorization provider about each row; publication and
policy change all three in between.  A search with a log row appends it on the
caller's thread before its answer is returned, without a time limit (`InAppend`,
`AppendLog`).  `Close` shuts the pool.

### ProviderCalls

One call over its wire requests; the service answers each in any way the code
tells apart (an answer that is accepted, rejected after billing, an error that
is retried or not).  `charged` is what the service billed, `usage` what the run
learns; an item is billed or not, and `Reported` counts those that are.
Batches come back in any order with items missing or doubled.

### TransformModels

An incremental transform around the entity linker, whose operators come from
`EntityLinks`.  A run loads its code, reads the mentions, reads the aliases,
computes its version, compares fingerprints, links, and publishes; in between
both inputs and the code are edited, and runs die.  A row is its link with the
version of the reference and the code that made it, and `entity_link_id` is the
link.  `torn` marks the two windows of section 5.

### SearchEvolution

The stamp on a collection against the configuration of the project: widened in
place, restamped, or refused, each a step, then the records written again;
publishers die between any two, and the configuration changes between runs,
also back.  Collections of the first contract have no stamp.  Columns are
compared by name and type, in any order, as the code does; the type of a field
is that of the upstream table, and the classification of changes does not look
at it.  A configuration that only reorders its display fields is another
fingerprint for the same row, and `SameRow` says so.

### MLArtifacts

Trainers of one project, each with a staging directory; publication is the lock,
the journal, two renames, the registry, the cleanup.  Errors roll back, kills do
not, and the next run that takes the lock recovers.

### The algorithms

A text is a sequence of numbers (white space, upper and lower case), a row a
record, a score or distance an exact fraction, a digest the value it was
computed of.  Each module has the operators of its files and, at its end, what
must hold of them, stated as a relation between two results (other order of
rows, one more document, one changed field) or between a result and what a
second piece of code makes of it.  `MCAlgorithms` picks a case in its initial
states and judges it in its only step.

- `PlansSound`: for every accepted model each column has one writer; for every
  accepted project each order of the graph builds what is read before it is
  read, `Before` and the graph agree, capabilities are known beforehand, an
  index can be asked what it declares; template variants are told apart; files
  stay inside and none is skipped; overrides are checked; the operator's
  profile wins and its secrets stay references; a model's options merge into
  what preflight looked at; a selection brings what it needs and excludes what
  it should; locked prompts keep their text; equal versions ask equal
  questions; local files, objects and rows are listed whole and fetched as
  listed.
- `TextSound`, `ChecksSound`, `RetrievalSound`, `LearningSound` are described
  where they are defined, in `MCAlgorithms`.

## 3. Runs

| Run | Question | Bounds |
|---|---|---|
| `serving_serial` | Do leases exclude publishers and fences grow when statements serialize, also with a changed configuration and crashes, and do sessions hand the scope back that fail otherwise than in the statements that take and return it? | 2 publishers, 1 query, 2 configurations, 4 store versions |
| `serving_recovery` | What if the operator recovers a scope whose publishers are alive?  Do the tables still implement `ServingScope`? | 2 publishers, 1 operator with the number between them, 1 query, 3 versions |
| `serving_snapshot` | Does the election survive statements that read snapshots? | 2 publishers, 1 query, 4 versions |
| `search_publish` | Is what becomes ready the snapshot, are governed rows revoked, does state stay behind the store, and does the index become ready again after faults? | 2 rows, 2 values, pages of 1, 2 changes; a patient upstream with 2 faults, and an impatient one with a vanishing collection, recovered living owners and 1 fault |
| `batch_jobs` | Do answers stay with their documents, is a job that is not given up billed once and nothing paid for lost, and is everything published in the end? | windows and partitions of 2; 3 documents interrupted anywhere, with arrivals, 2 faults, 8 jobs; 4 documents interrupted everywhere but around the job record, with expired jobs and the same partitions each time, 3 faults, 4 jobs; 3 documents interrupted in the same places, with arrivals and both policies for partial windows, 2 faults, 8 jobs |
| `pipeline_safe` | Do rows, pieces, vectors and states fit together whatever cuts a run short, and does running again repair everything? | 2 documents, 2 contents of one and two pieces with a common text, flushes of 1, 2 changes; 2 configurations and 1 fault with a source that moves, and full refreshes with 2 faults of a source that waits |
| `project_run` | Do parents come first, does a build skip exactly what is below a failure, do ledgers count what was billed, are tables written whole, and does every invocation end? | 4 models in every selection and mode: an extraction model of 3 documents with 2 threads, an llm model below it with 2, an extraction model in full with 1, a search model; caps on documents, file size, bytes, calls and tokens that some schedules reach and some do not; answers of no, one and two tokens; 2 threads for models |
| `warehouse` | Do both engines implement the contract of `adapters/base.py`, is the last good table ever lost, does a stale claim commit, does a snapshot mix versions? | 3 keys of 2 documents, 2 columns, plain, partitioned and Iceberg layouts, 2 calls of every kind and policy, 2 claims |
| `services` | Six machines that share no state, one to a behaviour: context server, warehouse lifecycle, provider calls, transforms, search evolution, ML artifacts | 2 requests, 2 chunks, 1 slot, time limit 1, with a query log and without; 2 failed statements; calls of 1 to 3 inputs; 2 documents, 2 edits, 1 death; 2 records, 9 configurations, one of them with another type of a field, 2 changes and 2 crashes; 2 trainers, 2 models, 2 trainings, 2 faults |
| `algorithms` | Do the operators keep what section 2 says of them? | 205,000 cases |
| `project_hang` (violation) | finding 2 | as `project_run`, with search models among those run with threads |
| `pipeline_orphans` (violation) | finding 1 | as `pipeline_safe`, with full refreshes and a source that moves at any time, 1 fault |

A run with several environments takes them from `Settings`, a constant that the
initial state chooses a member of; a property that cannot hold in one of them
says so in its antecedent.  `services` chooses its subject in the same way: the
variables of the other five keep one initial value, so its state space is the
sum and not the product of six.

Why these bounds are enough to be interesting.  Two publishers are what an
election needs, and with an operator numbered between them a recovered row has
a smaller or a greater `row_id` than the one it races with.  Every store write
makes a version, so four versions let both publishers write several times
before, between and after each other's verifications.  Two rows in pages of one
make a publication of several batches, of which some are recorded and some are
not; two faults let a fault hit the retry of a fault.  Partitions of two over
windows of two and three documents leave a partial partition, which changes
when an item fails or a document arrives; where nothing arrives and a partial
window is not published, each run cuts the documents left into the same
partitions (`SamePartitions`), which is the condition under which a job is found
again.  Two contents that begin with the
same text make pieces with equal keys across contents.  In `project_run` the run's
cap on tokens is below what two threads of two models can bill together, its
cap on bytes and on documents refuses a later model but not an earlier one, and
two threads of one model pass the gate together, so its cap on calls is overrun
by the greatest amount that `SpendBounded` allows.  In `warehouse` a second call
meets whatever the first left behind, staging tables included, and three keys of
two documents make a parent with several children beside one with one.  Two
requests on one slot make one wait for, or take over from, an operation that
hangs; two configuration changes lead away from a definition and back to it.  The
cases of `algorithms` contain for each rule an input that keeps it, one that
breaks it, and the boundary (equal scores, empty inputs, NULLs, values that
differ in case only).

A run's deadlock check is off where sessions or the source may come to rest.

### Fairness

- `ServingCoordination!FairSpec`: every session is scheduled until its program
  ends, a statement of it fails, or it crashes.  Its code has no loop that
  waits for another session: refusals end it.
- `SearchPublication!FairSpec`: the pipeline is run again and again, a dead
  process is restarted, and the operator recovers a claim that keeps refusing
  the publisher (strong fairness, because the refusal comes and goes with the
  runs).  There is no automatic recovery in the code, and the documents say so.
- `BatchJobs!FairSpec`: the model is run again while documents are left, and
  the provider ends its jobs, also those whose cancel failed.
- `IncrementalPipeline!FairSpec`: a started run goes on, and unfiltered
  incremental runs are started again and again; what stands between two of them
  (filtered runs, full refreshes) is not forced.
- `ProjectRun!FairSpec`: the thread of every model and every worker thread is
  scheduled.  A call of a provider returns or fails; the code gives each a time
  limit.
- `MCServices!Fairness`: a process that runs takes its next step; time passes
  and a waiting call of the server sees it, while an operation in the pool, and
  the append of a log row, may hang for ever; transforms, publications and
  trainings are started again; the operator of a warehouse does, sooner or
  later, what a message keeps asking for (strong fairness of `run`, `migrate`,
  pinning the schema and resolving a conflict, because what asks for it comes
  and goes).

`Converges` in `SearchPublication` and `IncrementalPipeline` is claimed for
environments that wait: upstream or the source changes only while nothing is
left to be retried; `AllPublished` for a provider that keeps results.  Edits,
reconfigurations and trainings are bounded, so `SubjectsSettle` is about what
happens after the last of them.

## 4. Theorems

Eight modules prove theorems, each for every value of the constants that the
named assumptions of its specification allow: any number of sessions, documents,
rows, models and threads, any sizes, caps and graphs, any set of environments.
TLC checked each inductive invariant on a run's instance before it was proved.
A theorem about a machine has one lemma for a group of actions and a part of the
invariant, and combines them with PTL.  Leaves are kept small, so that each is found
well within the provers' default time.

### The coordinator (`ServingCoordinationProofs`)

The assumptions: sessions are positive numbers, publishers and operators are
different, widenings are pairs of configurations, the switches are Boolean.

| Theorem | States | Under |
|---|---|---|
| `TypeCorrect` | `[]TypeOK` | - |
| `ElectionSafe` | `[]OneOwner`: at most one row of the scope carries a publication id | - |
| `AuthoritySafe` | `AuthorityKept`: a publication id leaves the ledger only by a step of its publisher or of an operator | - |
| `FencesRise` | `FenceIncreases`: a claim's token is above every earlier one | no operator |
| `LeasesExclude` | `[]LeaseExcludesPublisher` | serializing statements |
| `AnswersAreReady` | `[]ReadyIsAnswered`: what is ready is stored, and an answer was read wholly from the generation it pinned, of the query's configuration | no operator, or no widening |
| `TablesAreALock` | `ImplementsScope`: every step of the tables is a step of `ServingScope` or a stutter | serializing statements |

The hypotheses of the last four are those under which the runs check them, and
section 5 has the behaviour of the code that each of them leaves out.

`OneOwner` is not inductive.  A claim that has read its snapshot and not yet
committed carries the rows it matched, and these must still be the only
unclaimed ones when they are still in the ledger.  The inductive invariant
`Election` therefore adds to `OneOwner`:

- `InsertedOnce`, `UniqueIds`: a session that has not inserted has no row in
  the ledger, and a row id names one row, so a row is not confused with one
  that was deleted;
- `SawOneUnowned`: what a pending claim matched is at most one row, unclaimed;
- `SawOlder`, `SawAlone`, `SawAgree`: while a matched row is still in the
  ledger, a row that carries a publication id did not get it beside the matched
  one, and two pending claims that both may commit matched the same row, so the
  first commit makes the other a conflict.

`FencesRise` needs that the row a claim matched carries the greatest token
(`Tokens`): without a recovery a row that was ever claimed is the only one.
`AnswersAreReady` relates the store to the ledger (`StoreOK`): while a publisher
writes, nothing is ready and nobody else can still become ready; what is ready
names the version and the configuration of the store.  A query in between may
have read two versions, but both lie between the one it pinned and the present
one (`AnswersOK`), so its validation fails.  `TablesAreALock` maps the owner and
the served generation to a choice among rows, and needs that only one row is
owned or ready (`OneLive`).

### Publication (`SearchPublicationProofs`)

The assumptions: rows are finitely many, batches not empty, `None` is no value.

- `PublicationTypeCorrect`: `[]TypeOK`, in particular no write meets a missing
  collection;
- `StateNeverAheadOfStore`: `StateFollowsStore`, what a step records was stored,
  in every environment;
- `GovernedRowsRevoked`: `GovernedRevoked`;
- `ReadyIsPublished`: `[]ReadyIsSnapshot`.

A ready store equals its snapshot because the run left no row out, and because
no run before it did.  The invariant follows both: the loop has read, holds in a
batch, or has recorded each row of the snapshot (`LoopOK`); what is stored
without state is what upstream still holds, and the store differs from the state
only in rows that upstream has changed since (`WaitOK`, `ReadyOK`); the stale
pass empties the rest, and the count at the end finds what nobody recorded.  The
proof needs that nobody else removes the collection as well as that upstream
waits, so `ReadyIsSnapshot` says both: a collection that is removed while its row
says ready is no snapshot until it is published again, and what that publication
leaves behind is the row about `execution/search.py:143` in section 5.

### Native batches (`BatchJobsProofs`)

The assumptions: documents are finitely many positive numbers, a partition is not
larger than a window.

- `BatchTypeCorrect`: `[]TypeOK`;
- `AnswersStay`: `[]AnswersMatch`, whatever is interrupted, lost, resumed by
  position or forgotten by the provider;
- `PaidAnswersStay`: `[]PaidAnswersKept`;
- `WorkBilledOnce`: `[]BilledOnce`.

`Aligned` says what makes matching by position right: the job at hand is about
the documents of the partition in their order, and so are its answers.
`Tracked` is about jobs that may still bill: each has a record or is the run's
own.  `Sliced` carries the argument of `BilledOnce`: with the same partitions each
run meets the documents of an open job in one partition, which is exactly what
its record is about; its lemmas are about increasing sequences and the first
elements of a set.  `Once` then needs that what is submitted was never paid for in
a job that was followed to its end.  Jobs given up at their deadline (`givenUp`) are
outside of both properties: the code deletes their record whatever came of the cancel.
Both properties say under which conditions they hold, and the proof found two of
these: documents that arrive and windows published in part change the partitions
(`SamePartitions`), and a run with other partitions may prune the record of a job
whose results are gone for some documents only.

### The pipeline (`IncrementalPipelineProofs`)

The assumptions: documents are finitely many, each content has a sequence of
texts, `None` is no content, flushes are not empty.

- `PipelineTypeCorrect`: `[]TypeOK`;
- `StateNeverAhead`: `StateFollowsRows`, what the extraction or the embed model
  records is a row of its table;
- `RowsStayExact`: `[]RowsExact`, keys are unique, pieces are those of the
  recorded inputs and no others, what is skipped has a row, a vector belongs to
  the text and configuration beside it.

`RowsExact` is inductive together with what the control points know: what is
about to be recorded was published (`FlushOK`, `EmbedOK`), and a table is built
anew only in a full refresh or where there was none (`ModeOK`).

### Runs and budgets (`ProjectRunProofs`)

The assumptions: models are positive numbers in a topological order, threads are
finitely many and belong to models, sizes are natural numbers, caps are positive
or absent, `llm` models have no private ledger, and `MaxUse` bounds every answer.
Every graph, all three modes, search models in threads or without.

| Theorem | States |
|---|---|
| `RunTypeCorrect` | `[]TypeOK` |
| `SpendingIsBounded` | `[]SpendBounded`: a counter of calls or tokens passes its cap by less than one answer for each thread that uses the ledger |
| `SentIsBounded` | `[]SentBounded`: the bytes that were sent never pass the cap |
| `SpendingIsKnown` | `[]SpendingKnown`, where no answer is rejected after it was billed: and when no thread is under way a ledger says what was billed |
| `ParentsComeFirst` | `[]ParentsFirst` |
| `FailuresBlock` | `[]BlocksDescendants`: a build skips exactly what is below a failure |
| `PublishedWhole` | `[]AllOrNothing` |

None of these properties is inductive.  `SpendBounded` forgets what is under way:
`Reserved` adds, for each ledger, `MaxUse` for each thread that passed its gate
and was not charged (`Through`).  Every step is one of three for a ledger: it
keeps the counter and lets nobody in; it admits a thread, which proves the
counter below the cap; or it charges a thread, which leaves.  `Sent` and
`Balanced` are sharper: the sum, over the threads, of what each has counted and
not sent (has been billed and not counted) is exactly the difference of the two
counters.  `ParentsFirst` gets `Order`: a whole generation has its parents behind
it before any of it starts, and what runs with threads is in the generation.
`BlocksDescendants` gets `Blocking`: models end in their order, and `blocked` is
what has a failed ancestor.  `AllOrNothing` gets `Wholeness`: a document in the
hands of a thread is marked taken and in no other hands, threads work only for a
model that waits for them, `llm` models have no failed document, and only search
models are inside a snapshot.

Sums over a set of threads and the recursive function `Ancestors` would call for
induction over data.  They are handled by the library's facts about well-founded
relations, applied to strict subsets of a finite set and to numbers below a
number: the relation is fixed, and the induction is over a set and not over an
operator.

### The warehouse (`WarehouseProofs`)

The assumptions: the requests of an engine are well formed (rows over the columns
and keys they name), and the bounds are numbers.  Any keys, columns, documents,
values, requests and cleanups; BigQuery may lose the answer of any statement.

| Theorem | States |
|---|---|
| `WarehouseTypeCorrect` | `[]TypeOK`; BigQuery never has a transaction open |
| `ReplacementsSurvive` | `[]ReplacementSurvives`, unless the lost answer is that of the `DROP` of a swap (section 5) |
| `WritersAndReadersGuarded` | `GuardedByVersion`, an action property |
| `AdaptersKeepContract` | `ImplementsContract`: the initial states are the contract's, every statement is a step of it or a stutter |

A request is a program, and what a statement may do depends on what the ones before
it did.  `Place` is therefore one formula for each engine and kind of request: it
pairs every rest of the program that may be left with what is committed, what the
open transaction shows, and whether the target has been dropped.  `Where` adds the
calls that have failed and clean up.  One lemma for each kind of request (`Runs`)
shows that the next statement leads to the next place, or commits an effect the
contract allows; the statement that takes effect and loses its answer is the same
lemma, after which the cleanup begins.  `Moves` is what a consumer can see of a
statement: nothing, or `Widen`, `Create`, `Remake` or the effect of the request.
`Cleaning` says where the replacement is once the target is gone and that no
cleanup left takes it; `ReplacementSurvives` follows from it.  `Sane`, that a table
without columns has no rows, is needed because a deletion skips a table that is not
there, and the contract deletes from it.
`GuardedByVersion` needs the types, what a reader has seen (its table is the
version it started with, unless it was touched) and that a fenced statement has read
the claim it shows (`Fenced`), not the places.

### Context server, migration, calls, transforms, artifacts and evolution (`ServicesProofs`)

About `ServerSpec`, `LifecycleSpec`, `CallSpec`, `TransformSpec`, `ArtifactSpec` and
`EvolutionSpec`, the specifications of the six machines by themselves; `services`
runs each beside others that keep their first state.

- `StateRowsSurvive`: `[]StateSurvives`.  The rows are in some table
  (`RowsSomewhere`), the new default schema is not written to while it is not
  pinned (`DefaultUntouched`, from the guard), a command that passed the guard has
  the copy it counts (`OpenedOnRows`), and an old name is dropped only when the
  new one stands (`RenamesHaveRows`).
- `ArtifactsStayPaired`: `[]ArtifactsPaired`, for any number of processes, models,
  trainings and faults.  `LockHeld`: the holder of the lock works on the only
  journal, or found none.  `Fresh`: nothing carries the version of an artifact
  that waits to be published, so a rollback takes nothing else for it.
  `Pairing`: whatever the section does, the pending publication is either done or
  can be undone, and `Progress` says at each place which.
- `ServerStaysSound`: `[]ServerSound`, where requests and chunks are numbers and
  the limits positive.  `Served` says at each place of an operation which of the
  two relations it has read for the chunks at hand, and that an answer or a log
  row comes only from an operation that ended well.  `Permits` is inductive by
  itself once it is known that a caller that waits for a permit has no operation
  yet.  `Limited`: the limiter's times are the last of those it admitted, and all
  the earlier ones are a minute old; that gives the bound for every window of a
  minute, not only for those that end now.
- `IndexAnswersAsConfigured`: `[]AnswersAsConfigured`, and `StampsOnlyExtend`:
  `StampOnlyExtends`, for any records and configurations, whose attributes are
  finitely many.  `Growing` is the argument: the definition that is recorded of a
  record, the one it was written by and the stamp follow each other in the order
  of `Compatible`.  So where the stamp is the configuration and everything is
  recorded under it, the row in between is equal to both up to the order of the
  display fields, the one change that is compatible in both directions.
  `CollectionOK` has what a collection of the first contract is, and `PublisherOK`
  what the publisher knows at each step; a publication that is refused without one
  of the other reasons meets more columns than its stamp has (`RefusedRightly`).

- `CallsAreAccounted`: `[]CallsAccounted`, for any calls, numbers of inputs and
  sizes of a request; the ids of a batch are unique, as `_validate_batch_call`
  checks.  `Sending`: while requests go out, those left take the inputs that follow
  the ones that have an item, so the items of a result are the inputs in their
  order, and what was charged is what the items report.  A batch is fetched at once:
  `AlignedBatch` maps the charged answers of the listing one to one to billed items.
  That the requests of an embedding cut its inputs without a gap is arithmetic about
  `SplitRequests`.
- `ChildrenKeepFollowing`: `[]ChildrenFollowState`, for any documents, texts and
  alias tables.  `Following`: from its classification on, an incremental run works
  on rows that follow the state (`Follow`), deletes what the state knows of the
  parents it links anew, and holds their new links; a full run that has published
  holds what is in the table.  That suffices because the rows of one document do
  not depend on the others linked with it (`OutputByDocument`), and because alias
  tables with one fingerprint link alike (`ReferencesAlike`): a fingerprint is of
  the set of rows with their multiplicity, and neither the resolver nor the version
  of the reference looks at their order.

### The entity linker (`ServicesProofs`)

Two parts of `TextSound`, for any number of mentions, any alias rows and any
options:

- `LinksNeverGuess`: `NeverGuesses`.  A resolver answers only for namespaces where it
  has candidates, finitely many (`NamesCandidates`): the alias table because the
  method that wins a namespace has hits there (`FirstMethodWins`), a scored resolver
  because the best score is within every margin of itself (`ScoredAnswers`).  So the
  rows of one mention are one row, one matched row in a namespace or several
  ambiguous ones (`RowsOfMention`), and rows of two mentions never mix, because
  `run_links` refuses mentions that share an id.  That a scored resolver computes
  numbers (`ScoresAreNumbers`) is assumed: the scores are folds; TLC compares them as
  numbers in `algorithms`.  The margin is not negative, which the options check.
- `ExactMatchFirst`: `ExactFirst`, with nothing assumed but a list of methods that is
  not empty, which the options check as well.

### Versions, relations and freshness (`AgentContext`)

Three parts of `RetrievalSound`, for any rows:

- `OneVersionAtATime`: `OneVersionAsOf`, for any registry whose times are integers.
  The check of a registry compares each version with the one before it
  (`PreviousIsLast`); that two versions far apart do not overlap either follows
  along the order of the recording times (`VersionOrder`, `VersionsApart`).
- `AcceptedRelationsTrusted`: `RelationsTrusted`.  The proof found that the property
  said too much: two links with one name and key but different namespaces are two
  entities, as `make_entity_id` has them; the clause names the namespace now.
- `RowsOnlyStale`: `FreshnessForward`, whichever of the clocks are set.

Where such a proof needs a least element (the first method that hits, the best
score, the previous version), it takes one of the finite sets of those below it that
includes no other, as strict inclusion is well-founded on finite sets
(`SmallestSubset`, `LeastSubset`): that replaces an induction over the data.

### What is only model-checked

- Liveness and `ENABLED`, out of the prover's reach: `HandedBack`, `Converges` of
  the publication and of the pipeline, `AllPublished`, `Ends`, `SubjectsSettle`.
- The algorithms as wholes (`TextSound`, `ChecksSound`, `RetrievalSound`,
  `LearningSound`, `PlansSound`): besides the five parts above they judge recursive
  functions and folds over texts, rows and fractions, which need induction over
  data.

## 5. Findings, and what the checks had to leave out

Runs that end in a violation:

1. `pipeline_orphans` (`execution/chunk.py:195`).  A full refresh that dies
   between its table and its state leaves pieces that no later incremental run
   replaces, because only documents with state are looked at.
2. `project_hang` (`runner.py:135`).  With `--threads` above 1 a search model
   holds the lock of the connection while its snapshot is open and calls the
   same guarded connection inside; the lock is not reentrant, and the run never
   ends.

Behaviours of the code met while modelling that a passing run excludes, by a
constant, a setting or an exception named in the property.

| Where | What | Excluded by |
|---|---|---|
| `retrieval/coordination.py:317, 499` | under snapshot statements a claim and a lease insert both commit: a validated lease beside a publisher. The validation after the search still refuses the answer | `LeaseExcludesPublisher` with `SnapshotDML = TRUE` |
| `retrieval/coordination.py:191` | a late duplicate row beside a claimed one: every read of the scope raises until a recovery | `SnapshotDML = TRUE` |
| `retrieval/coordination.py:600` | between the DELETE and the INSERT of `recover` a publisher starts again from fence 1 | `FenceIncreases` with an operator |
| `retrieval/coordination.py:343-359`, `execution/search.py:97, 136, 328` | a statement after the committed claim fails with an `AdapterError`: `publish_lease` is still None, `mark_failed` is not called, and the claim stays until an operator recovers the scope | `unacquired` in `HandedBack` |
| `execution/search.py:382` | an `AdapterError` of `mark_failed` is not suppressed: the claim stays, and the error is not a `RunError` | `unrecorded` in `HandedBack` |
| `retrieval/coordination.py:530-542`, `search.py:387` | an `AdapterError` of the checks after the lease was inserted, or of its release, leaves the lease: no publisher can claim until an operator recovers the scope | `unadmitted`, `unreleased` in `HandedBack` |
| `execution/search.py:146` | an existing collection is widened before the claim is verified | `ReadyIsAnswered` with widenings and an operator |
| `retrieval/coordination.py:407` | a claim between the UPDATE of `mark_ready` and its read-back makes a completed activation end as failed | no property; two publishers |
| `execution/search.py:249` | the store was written and the state was not; upstream returns to the value the state still holds: the next run skips the row and the other value becomes ready | `ReadyIsSnapshot`, `upstreamWaits` |
| `execution/search.py:143` | a vanished collection is published again and the run is cut short after its first batch: state runs ahead of the new collection, and the row count never fits | `Converges`, `vanishes` |
| `execution/search.py:311` | a row in the store that never got state, gone upstream before the retry: the count check fails for ever | `Converges`, `upstreamWaits` |
| `execution/search.py:285` | no collection and an empty upstream: the stale pass fails for ever | `Converges`, `vanishes` |
| `execution/search.py:197` | a governed row without state is updated in place, not revoked | `GovernedRevoked`, `upstreamWaits` |
| `retrieval/lancedb.py:459-482` | a publisher dies between adding columns and restamping, and the configuration is taken back: every later publication is refused until the collection is rebuilt | `ForeverRefused` in `AnswersAsConfigured` |
| `execution/search.py:404-419, 483-485` | a field that changes its type upstream under the same configuration is no change for the descriptor, and every later publication is refused by the comparison of schemas, after the claim revoked the index | `Retyped` in `AnswersAsConfigured` |
| `execution/search.py:466-540` | adding with the policy `fail`, or a refused publication, leaves the index revoked | `SettlesOrRefuses` counts a refusal |
| `budget.py:113` | "never billing past the cap by more than one response": it is one response for each worker thread | the bound of `SpendBounded` with `Cardinality(Payers(l))` replaced by 1 |
| `execution/extraction.py:528`, `execution/llm.py:326` | an answer that a post-extract hook rejects or that is malformed was billed and is never charged | `SpendingKnown`, `AnswersRejected = TRUE` |
| `runner.py:433`, `execution/extraction.py:700, 772` | a build catches only `RunError`: any other exception of a model or of its tests, an `AdapterError` of the state tables for one, ends the build, and no descendant is reported as skipped (318-321 say that a model whose run errors blocks its descendants) | `escaped` in `ProjectRun` |
| `execution/llm.py:352` | the comment says that `run_project` skips descendants of a spent budget; only `build_project` does | `BlocksDescendants` without its mode |
| `backends/llm_backend.py:833-845` | a job that passes its deadline loses its record with the answers it already has, which were paid for, and which the next run pays for again | `givenUp` in `BilledOnce` and `PaidAnswersKept` |
| `backends/llm_backend.py:878-891` | a failed cancel is ignored and the record deleted: the job goes on and bills answers that nobody fetches (the docstring says "the job is cancelled", 781-782; `docs/reference.md:285` "cancel the provider job past this deadline") | the same |
| `backends/llm_backend.py:853` | the record of a job is removed before its answers are cached; an interrupt in between pays twice | `BilledOnce`, interrupt at `store` |
| `backends/llm_backend.py:818` | a job accepted and not recorded is submitted again | `BilledOnce`, interrupt at `persist` |
| `backends/llm_backend.py:339` | partitions cut elsewhere after a failed item, or after a new document arrived, miss the record of a job in flight | `BilledOnce`, `SamePartitions` |
| `backends/llm_backend.py:853` | and when results expire, a run that cut other partitions prunes the record of a job whose answers it did not read | `PaidAnswersKept`, `Expires` without `SamePartitions` |
| `backends/llm_backend.py:848` | a job whose results are gone fails every later run | `AllPublished`, `expires` |
| `execution/extraction.py:772` | after a full refresh that dies before its state, a removed document that returns is skipped without a row | `SkippedHasRow` in `RowsExact`, `fullRefresh` |
| `execution/transform.py:400-403` | the same of a transform: rows of the new run under the state of the old one | `torn` in `ChildrenFollowState` |
| `execution/transform.py:172, 325`, `execution/llm.py:242, 253`, `execution/extraction.py:343, 405` | code, prompt or hook is loaded before the version is computed; an edit in between leaves rows of the old code under the new version, and they are not redone | `Skewed` in `ChildrenFollowState` |
| `adapters/bigquery.py:2213-2236, 2529-2558` | a swap of layouts whose drop took effect and whose answer was lost cleans up the staging table: old and new are gone | `lost` in `ReplacementSurvives` |
| `adapters/bigquery.py:1840-1850` | an Iceberg full refresh that fails after the drop leaves an empty table | announced there; the layout is excepted |
| `adapters/bigquery.py` (SQL incremental) | a MERGE keeps the old values of columns that the query does not select; DuckDB sets them to NULL | two effects in `WarehouseContract` |
| `adapters/migration.py:102` | a copy that was cut makes the next `stel migrate` report a conflict, although the text says that it resumes | the operator resolves it (`ResolveConflict`) |
| `mcp_server/service.py:165-183` | an operation that timed out keeps its slot; one that hangs keeps it for ever | `EveryCallAnswered` is about the caller |
| `mcp_server/service.py:284-285`, `mcp_server/repository.py:69-95` | the row of the query log is appended on the caller's thread, outside the time limit: a warehouse that hangs there keeps a finished answer back for ever, although the comment (274-276) says that a slow warehouse cannot spend the deadline | `InAppend` in `EveryCallAnswered` |
| `mcp_server/service.py:758-808` | the list of models shows entity types of chunk rows that were checked, without a registry check | `list` in `ServedWasReadable` |
| `providers/base.py` (batches), `providers/vllm.py`, `providers/vertex.py` | a listing refused whole, any failure of vLLM, and an embedding cut off between two of its requests lose the usage that was reported | `silent` in `ChargesReported` |
| `classic_ml/artifacts.py:390-403` | a kill in a rollback that an interrupt began after the registry was replaced | `late` in `ArtifactsPaired` |
| `classic_ml/matrix.py:259` | rows that share a `row_id` are merged, and the last one's value wins | `MatrixUnorderedIfKeyed` asks for keys |
| `chunking.py:212-301` | with overlap a recursive piece may exceed the size (`execution/chunk.py:128` says never), and a tail may be shorter than half of the overlap | the bounds in `RowsFit` |
| `versioning.py`, `llm_map.py:90` | the identity of an llm model leaves out its input, id, row-id and ordinal fields: renaming them is no modification, although `docs/reference.md:503-511` selects changed configuration | not part of `VersionDecides` |
| `config/model.py:482` | temperatures, token limits, retries are accepted in ranges that every call then refuses (`backends/options.py:45-54`) | options are within both |
| `prompts.py:317` | deleting the lock file and locking again forgets what was released | nobody deletes it in `ReleasesKept` |
| `sources/local.py`, `sources/gcs.py` | `**` alone matches every depth of a directory and the first level of a bucket; a pattern with slashes is anchored in one and not in the other | `SourcesAgree` compares patterns of one name |
| `checks/schema.py:193` | two tests of the same column overwrite each other's stored failures | one test at a time in `StoredExplains` |
| `search.py:552`, `retrieval/lancedb.py:816` | policy filters skip the check of the operator; a filter on an array compiles to a scalar comparison | scalar attributes |

## 6. Plan

Done: the coordinator and its election theorem, search publication and
evolution, native batches, provider calls, the incremental pipeline, transforms,
project runs with worker threads and budgets, the warehouse contract with both
engines, opening and migration, the context server, artifacts, and the
algorithms of text, checks, retrieval, learning and planning; every invariant and
every action property that a run of a state machine checks as a theorem, the
refinements of the coordinator and of the warehouse step by step, and those
promises of the entity linker and of the agent context that hold for any rows
without an induction over them.

Next: the same for policy filters, access decisions and data tests, as far as a
theorem says more than the definition.

Not modelled, and why.

- Parsers (`backends/*_backend.py` but the batches of `llm_backend.py`) and the
  text functions besides linking, relations and chunking (deduplication,
  language, PII, keyphrases, tone, the NLP wrappers): functions of one text
  around external libraries, without state and without an order of steps.
- Command line, manifest, docs, dbt code generation, progress: they format what
  the modelled parts computed.  The commands that change state (`stel migrate`,
  the serving commands) are the operators of `WarehouseLifecycle` and
  `ServingCoordination`.
- Watch mode: a loop around runs that keeps nothing between them.
- `adapters/bigquery.py`: insert_overwrite batches, quotas, cost estimates and
  the emulation of vector functions; LanceDB, sklearn, the providers' services
  and the file systems are external and answer as the code allows for.
- Weights (l2, c-TF-IDF), silhouette and coherence: real arithmetic.
- Demonstration data (`concept_cloud/`, `synth/`).
