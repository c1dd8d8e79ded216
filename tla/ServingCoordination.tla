------------------------- MODULE ServingCoordination -------------------------
(***************************************************************************)
(* The serving coordinator of retrieval/coordination.py for one scope,     *)
(* statement by statement, driven by the three programs that call it: the  *)
(* search publisher (execution/search.py), the search query (search.py)    *)
(* and the operator's `stel serving recover`.                              *)
(*                                                                         *)
(* The warehouse holds two tables: the ledger, whose rows for this scope   *)
(* should be one but may be several, and the query leases.  Sessions share *)
(* nothing else but the vector store and its single-host publisher lock.   *)
(*                                                                         *)
(* Sessions are numbers, because the row_id a session inserts is compared  *)
(* with the others (the election by MIN(row_id)); a session inserts at     *)
(* most one ledger row and mints at most one publication_id, so its number *)
(* stands for both.                                                        *)
(***************************************************************************)
EXTENDS Naturals

CONSTANTS
    Publishers,   \* processes that run the search model once
    Queriers,     \* processes that answer one search request
    Operators,    \* processes that run `stel serving recover` once
    Configs,      \* collection configuration fingerprints
    Widenings,    \* pairs <<from, to>> that `on_index_change: online` accepts
    OwnerTerminated, \* TRUE: the operator's assertion that no publisher is
                  \* alive is true when recovery starts
    SnapshotDML,  \* TRUE: a conditional statement reads a snapshot and commits
                  \* later (BigQuery, MotherDuck); FALSE: statements serialize
    MaxVersion    \* bound on the number of physical store versions

ASSUME SessionsAssumption ==
    /\ Publishers \subseteq Nat \ {0}
    /\ Operators \subseteq Nat \ {0}
    /\ Publishers \cap Operators = {}
ASSUME ConfigsAssumption == Widenings \subseteq Configs \X Configs
ASSUME SwitchAssumption == SnapshotDML \in BOOLEAN /\ OwnerTerminated \in BOOLEAN
ASSUME BoundAssumption == MaxVersion \in Nat

NoOne == 0          \* a NULL publication_id, or a free publisher lock
NoGeneration == 0   \* a NULL active_generation; version 0 of an absent collection
Status == {"unpublished", "publishing", "ready", "failed"}

VARIABLES
    ledger,     \* the scope's rows of the serving ledger
    leases,     \* the scope's rows of the serving lease table
    highWater,  \* history: the greatest fencing token ever written
    store,      \* the physical collection: version, stamped configuration, and
                \* whether every declared index covers every row
    lock,       \* holder of the store's publisher lock
    ppc,        \* publishers: control point,
    ptoken,     \*   fencing token of the publish lease,
    pconfig,    \*   configuration fingerprint published,
    psaw,       \*   rows matched in the snapshot of the running statement,
    pempty,     \*   whether that snapshot showed no ledger row,
    pgen,       \*   generation read after index creation
    qpc,        \* queries: control point,
    qconfig,    \*   configuration the project expects,
    qpin,       \*   token, generation and configuration read at admission,
    qmatch,     \*   whether the lease insert's snapshot matched a row,
    qseen,      \*   store versions the search itself read
    opc,        \* operators: control point,
    ofence      \*   fence to install

tables  == <<ledger, leases, highWater>>
storage == <<store, lock>>
pubVars == <<ppc, ptoken, pconfig, psaw, pempty, pgen>>
qryVars == <<qpc, qconfig, qpin, qmatch, qseen>>
opVars  == <<opc, ofence>>
vars    == <<tables, storage, pubVars, qryVars, opVars>>

Row == [id : Publishers \cup Operators, token : Nat, status : Status,
        owner : Publishers \cup {NoOne}, config : Configs \cup {NoOne},
        generation : Nat]
Pin == [token : Nat, generation : Nat, config : Configs \cup {NoOne}]
Lease == [holder : Queriers, pin : Pin]

PublisherPoints ==
    {"start", "inserting", "dedupe", "claim", "claiming", "readback", "fence",
     "prepare", "batch", "write", "record", "index", "confirm", "activate",
     "ready_write", "ready_check", "failing",
     "published", "failed", "busy", "error", "unacquired", "unrecorded", "crashed"}
PublisherEnds ==
    {"published", "failed", "busy", "error", "unacquired", "unrecorded", "crashed"}
QueryPoints ==
    {"start", "insert", "inserting", "held", "admit", "inspect", "search",
     "recheck", "refusing", "answering", "answered", "refused", "unadmitted",
     "unreleased", "crashed"}
QueryEnds == {"answered", "refused", "unadmitted", "unreleased", "crashed"}
OperatorPoints == {"start", "max", "drop", "insert", "recovered", "crashed"}

TypeOK ==
    /\ ledger \subseteq Row
    /\ leases \subseteq Lease
    /\ highWater \in Nat
    /\ store \in [version : Nat, config : Configs \cup {NoOne}, indexed : BOOLEAN]
    /\ lock \in Publishers \cup {NoOne}
    /\ ppc \in [Publishers -> PublisherPoints]
    /\ ptoken \in [Publishers -> Nat]
    /\ pconfig \in [Publishers -> Configs]
    /\ psaw \in [Publishers -> SUBSET Row]
    /\ pempty \in [Publishers -> BOOLEAN]
    /\ pgen \in [Publishers -> Nat]
    /\ qpc \in [Queriers -> QueryPoints]
    /\ qconfig \in [Queriers -> Configs]
    /\ qpin \in [Queriers -> Pin]
    /\ qmatch \in [Queriers -> BOOLEAN]
    /\ qseen \in [Queriers -> SUBSET Nat]
    /\ opc \in [Operators -> OperatorPoints]
    /\ ofence \in [Operators -> Nat]

NoPin == [token |-> 0, generation |-> NoGeneration, config |-> NoOne]

Init ==
    /\ ledger = {} /\ leases = {} /\ highWater = 0
    /\ store = [version |-> NoGeneration, config |-> NoOne, indexed |-> FALSE]
    /\ lock = NoOne
    /\ ppc = [p \in Publishers |-> "start"]
    /\ ptoken = [p \in Publishers |-> 0]
    /\ pconfig \in [Publishers -> Configs]
    /\ psaw = [p \in Publishers |-> {}]
    /\ pempty = [p \in Publishers |-> FALSE]
    /\ pgen = [p \in Publishers |-> NoGeneration]
    /\ qpc = [q \in Queriers |-> "start"]
    /\ qconfig \in [Queriers -> Configs]
    /\ qpin = [q \in Queriers |-> NoPin]
    /\ qmatch = [q \in Queriers |-> FALSE]
    /\ qseen = [q \in Queriers |-> {}]
    /\ opc = [o \in Operators |-> "start"]
    /\ ofence = [o \in Operators |-> 0]

-----------------------------------------------------------------------------
(* Reads of the ledger.  _read_row refuses more than one row.              *)

IsRow(r) == ledger = {r}
Absent == ledger = {}
Conflicting == \E r, s \in ledger : r # s

\* The row a publication's guarded statements address.
Claimed(p) == {r \in ledger : r.owner = p /\ r.token = ptoken[p]}
\* Mutant: verify_publish dropped.
HoldsUnverified(p) == TRUE
\* verify_publish succeeds.
Holds(p) == \E r \in Claimed(p) : IsRow(r)

\* The row validate_query accepts.
Valid(r, pin) ==
    /\ r.token = pin.token /\ r.status = "ready"
    /\ r.owner = NoOne /\ r.generation = pin.generation

PGoto(p, point) == ppc' = [ppc EXCEPT ![p] = point]
QGoto(q, point) == qpc' = [qpc EXCEPT ![q] = point]
OGoto(o, point) == opc' = [opc EXCEPT ![o] = point]

-----------------------------------------------------------------------------
(* acquire_publish.                                                        *)

\* Mutant: the status column is filled with a word no reader knows.
FreshRowUnknownStatus(p) == [id |-> p, token |-> 0, status |-> "new",
                owner |-> NoOne, config |-> NoOne, generation |-> NoGeneration]
\* The unclaimed row of a scope seen for the first time.
FreshRow(p) == [id |-> p, token |-> 0, status |-> "unpublished", owner |-> NoOne,
                config |-> NoOne, generation |-> NoGeneration]

\* INSERT ... WHERE NOT EXISTS, reading a snapshot ...
EnsureRowSnapshot(p) ==
    /\ SnapshotDML /\ ppc[p] = "start"
    /\ pempty' = [pempty EXCEPT ![p] = Absent]
    /\ PGoto(p, "inserting")
    /\ UNCHANGED <<tables, storage, ptoken, pconfig, psaw, pgen, qryVars, opVars>>

\* ... and committing: an INSERT conflicts with nothing.
EnsureRow(p) ==
    /\ \/ ~SnapshotDML /\ ppc[p] = "start" /\ pempty' = [pempty EXCEPT ![p] = Absent]
       \/ ppc[p] = "inserting" /\ UNCHANGED pempty
    /\ ledger' = IF pempty'[p] THEN ledger \cup {FreshRow(p)} ELSE ledger
    /\ PGoto(p, "dedupe")
    /\ UNCHANGED <<leases, highWater, storage, ptoken, pconfig, psaw, pgen,
                   qryVars, opVars>>

\* Mutant: the DELETE forgets `status = unpublished AND publication_id IS NULL`.
CollapseAnyDuplicates(p) ==
    /\ ppc[p] = "dedupe"
    /\ ledger' = {r \in ledger : \A s \in ledger : r.id <= s.id}
    /\ PGoto(p, "claim")
    /\ UNCHANGED <<leases, highWater, storage, ptoken, pconfig, psaw, pempty, pgen,
                   qryVars, opVars>>

\* DELETE of the unclaimed unpublished rows above MIN(row_id).
CollapseDuplicates(p) ==
    /\ ppc[p] = "dedupe"
    /\ ledger' = {r \in ledger :
                    \/ r.status # "unpublished" \/ r.owner # NoOne
                    \/ \A s \in ledger : r.id <= s.id}
    /\ PGoto(p, "claim")
    /\ UNCHANGED <<leases, highWater, storage, ptoken, pconfig, psaw, pempty, pgen,
                   qryVars, opVars>>

\* Mutants: the claim forgets NOT EXISTS(leases) or COUNT(*) = 1.
ClaimableDespiteLeases == {r \in ledger : r.owner = NoOne /\ IsRow(r)}
ClaimableDespiteDuplicates == {r \in ledger : r.owner = NoOne /\ leases = {}}
\* The rows the claim's WHERE clause matches now.
Claimable == {r \in ledger : r.owner = NoOne /\ leases = {} /\ IsRow(r)}

\* Mutant: the fence is not advanced.
ClaimedRowSameFence(p, r) == [r EXCEPT !.owner = p, !.status = "publishing",
                                       !.config = pconfig[p]]
ClaimedRow(p, r) == [r EXCEPT !.owner = p, !.token = @ + 1,
                              !.status = "publishing", !.config = pconfig[p]]

ClaimSnapshot(p) ==
    /\ SnapshotDML /\ ppc[p] = "claim"
    /\ psaw' = [psaw EXCEPT ![p] = Claimable]
    /\ PGoto(p, "claiming")
    /\ UNCHANGED <<tables, storage, ptoken, pconfig, pempty, pgen, qryVars, opVars>>

\* UPDATE of the matched row, if no other statement changed it since.
ClaimRows(p, matched) ==
    /\ matched \subseteq ledger
    /\ ledger' = (ledger \ matched) \cup {ClaimedRow(p, r) : r \in matched}
    /\ \/ /\ matched = {}
          /\ UNCHANGED highWater
       \/ \E r \in matched :
            highWater' = IF r.token + 1 > highWater THEN r.token + 1 ELSE highWater

Claim(p) ==
    /\ \/ ~SnapshotDML /\ ppc[p] = "claim" /\ ClaimRows(p, Claimable)
       \/ ppc[p] = "claiming" /\ ClaimRows(p, psaw[p])
    /\ psaw' = [psaw EXCEPT ![p] = {}]
    /\ PGoto(p, "readback")
    /\ UNCHANGED <<leases, storage, ptoken, pconfig, pempty, pgen, qryVars, opVars>>

\* A row changed under the statement: the warehouse aborts it.
ClaimConflict(p) ==
    /\ ppc[p] = "claiming" /\ ~(psaw[p] \subseteq ledger)
    /\ psaw' = [psaw EXCEPT ![p] = {}]
    /\ PGoto(p, "error")
    /\ UNCHANGED <<tables, storage, ptoken, pconfig, pempty, pgen, qryVars, opVars>>

\* The claim is proven by reading our own publication_id back.
ReadBack(p) ==
    /\ ppc[p] = "readback"
    /\ \/ \E r \in ledger :
            /\ IsRow(r) /\ r.owner = p
            /\ ptoken' = [ptoken EXCEPT ![p] = r.token]
            /\ PGoto(p, "fence")
       \/ \E r \in ledger :
            /\ IsRow(r) /\ r.owner # p
            /\ PGoto(p, "busy") /\ UNCHANGED ptoken
       \/ /\ Absent \/ Conflicting
          /\ PGoto(p, "error") /\ UNCHANGED ptoken
    /\ UNCHANGED <<tables, storage, pconfig, psaw, pempty, pgen, qryVars, opVars>>

-----------------------------------------------------------------------------
(* run_search_model after the claim: the store I/O.                        *)

\* publisher_fence is a non-blocking lock: a held one is an error.
TakeFence(p) ==
    /\ ppc[p] = "fence"
    /\ \/ lock = NoOne /\ lock' = p /\ PGoto(p, "prepare")
       \/ lock # NoOne /\ UNCHANGED lock /\ PGoto(p, "failing")
    /\ UNCHANGED <<tables, store, ptoken, pconfig, psaw, pempty, pgen, qryVars, opVars>>

Mutate(p, indexed) ==
    /\ store.version < MaxVersion
    /\ store' = [version |-> store.version + 1, config |-> pconfig[p],
                 indexed |-> indexed]

\* _verify_collection_config: an existing collection of another configuration
\* is widened in place, or refused; nothing verifies the claim first.
PrepareCollection(p) ==
    /\ ppc[p] = "prepare"
    /\ \/ /\ store.version = NoGeneration \/ store.config = pconfig[p]
          /\ PGoto(p, "batch")
          /\ UNCHANGED storage
       \/ /\ store.version # NoGeneration /\ <<store.config, pconfig[p]>> \in Widenings
          /\ Mutate(p, FALSE)
          /\ PGoto(p, "batch")
          /\ UNCHANGED lock
       \/ /\ store.version # NoGeneration /\ store.config # pconfig[p]
          /\ lock' = NoOne
          /\ PGoto(p, "failing")
          /\ UNCHANGED store
    /\ UNCHANGED <<tables, ptoken, pconfig, psaw, pempty, pgen, qryVars, opVars>>

\* A batch with pending rows, a stale page, or the creation of an empty
\* collection verifies the claim and then mutates the store.
VerifyBatch(p) ==
    /\ ppc[p] = "batch"
    /\ \/ Holds(p) /\ PGoto(p, "write") /\ UNCHANGED lock
       \/ ~Holds(p) /\ PGoto(p, "failing") /\ lock' = NoOne
    /\ UNCHANGED <<tables, store, ptoken, pconfig, psaw, pempty, pgen, qryVars, opVars>>

\* An upsert batch goes on to record state, a stale page to the next batch.
WriteBatch(p) ==
    /\ ppc[p] = "write"
    /\ Mutate(p, FALSE)
    /\ \E point \in {"record", "batch"} : PGoto(p, point)
    /\ UNCHANGED <<tables, lock, ptoken, pconfig, psaw, pempty, pgen, qryVars, opVars>>

\* The second verification, before upsert_state.
VerifyRecord(p) ==
    /\ ppc[p] = "record"
    /\ \/ Holds(p) /\ PGoto(p, "batch") /\ UNCHANGED lock
       \/ ~Holds(p) /\ PGoto(p, "failing") /\ lock' = NoOne
    /\ UNCHANGED <<tables, store, ptoken, pconfig, psaw, pempty, pgen, qryVars, opVars>>

\* No batch is left and the collection exists.
LastBatch(p) ==
    /\ ppc[p] = "batch" /\ store.version # NoGeneration
    /\ PGoto(p, "index")
    /\ UNCHANGED <<tables, storage, ptoken, pconfig, psaw, pempty, pgen, qryVars, opVars>>

\* ensure_indexes writes if an index is missing or has unindexed rows; its
\* metadata names the generation, and leaving the fence releases the lock.
EnsureIndexes(p) ==
    /\ ppc[p] = "index"
    /\ \/ store.indexed /\ UNCHANGED store
       \/ ~store.indexed /\ Mutate(p, TRUE)
    /\ pgen' = [pgen EXCEPT ![p] = store'.version]
    /\ lock' = NoOne
    /\ PGoto(p, "confirm")
    /\ UNCHANGED <<tables, ptoken, pconfig, psaw, pempty, qryVars, opVars>>

\* Mutant: the error handler does not reach mark_failed.
StoreErrorUnrecorded(p) ==
    /\ ppc[p] \in {"prepare", "batch", "write", "record", "index"}
    /\ lock' = NoOne
    /\ PGoto(p, "failed")
    /\ UNCHANGED <<tables, store, ptoken, pconfig, psaw, pempty, pgen, qryVars, opVars>>

\* A store or warehouse error inside the fence, or a refused configuration,
\* schema, receipt or row count.
StoreError(p) ==
    /\ ppc[p] \in {"prepare", "batch", "write", "record", "index"}
    /\ lock' = NoOne
    /\ PGoto(p, "failing")
    /\ UNCHANGED <<tables, store, ptoken, pconfig, psaw, pempty, pgen, qryVars, opVars>>

-----------------------------------------------------------------------------
(* Completion: the last verify_publish, mark_ready and mark_failed.        *)

Confirm(p) ==
    /\ ppc[p] = "confirm"
    /\ PGoto(p, IF Holds(p) THEN "activate" ELSE "failing")
    /\ UNCHANGED <<tables, storage, ptoken, pconfig, psaw, pempty, pgen, qryVars, opVars>>

\* mark_ready's own read, with the configuration check.
ReadBeforeReady(p) ==
    /\ ppc[p] = "activate"
    /\ PGoto(p, IF \E r \in Claimed(p) : IsRow(r) /\ r.config = pconfig[p]
                THEN "ready_write" ELSE "failing")
    /\ UNCHANGED <<tables, storage, ptoken, pconfig, psaw, pempty, pgen, qryVars, opVars>>

\* _finish's UPDATE.
Finished(p, status, generation) ==
    (ledger \ Claimed(p)) \cup
    {[r EXCEPT !.status = status, !.generation = generation, !.owner = NoOne]
        : r \in Claimed(p)}

FinishReady(p) ==
    /\ ppc[p] = "ready_write"
    /\ ledger' = Finished(p, "ready", pgen[p])
    /\ PGoto(p, "ready_check")
    /\ UNCHANGED <<leases, highWater, storage, ptoken, pconfig, psaw, pempty, pgen,
                   qryVars, opVars>>

\* _finish's read-back.
CheckReady(p) ==
    /\ ppc[p] = "ready_check"
    /\ PGoto(p, IF \E r \in ledger : /\ IsRow(r) /\ r.token = ptoken[p]
                                     /\ r.status = "ready" /\ r.owner = NoOne
                THEN "published" ELSE "failing")
    /\ UNCHANGED <<tables, storage, ptoken, pconfig, psaw, pempty, pgen, qryVars, opVars>>

\* Mutant: a failed publication reverts to the generation that was ready.
FinishFailedReverting(p) ==
    /\ ppc[p] = "failing"
    /\ ledger' = (ledger \ Claimed(p)) \cup
          {[r EXCEPT !.owner = NoOne,
                     !.status = IF r.generation = NoGeneration THEN "failed" ELSE "ready"]
               : r \in Claimed(p)}
    /\ PGoto(p, "failed")
    /\ UNCHANGED <<leases, highWater, storage, ptoken, pconfig, psaw, pempty, pgen,
                   qryVars, opVars>>

\* _mark_search_publication_failed; what its read-back finds is suppressed.
FinishFailed(p) ==
    /\ ppc[p] = "failing"
    /\ ledger' = Finished(p, "failed", NoGeneration)
    /\ PGoto(p, "failed")
    /\ UNCHANGED <<leases, highWater, storage, ptoken, pconfig, psaw, pempty, pgen,
                   qryVars, opVars>>

\* The statements of acquire_publish, and those after the fence.
Acquiring == {"start", "inserting", "dedupe", "claim", "claiming", "readback"}
Finishing == {"confirm", "activate", "ready_write", "ready_check"}

\* A statement of the coordinator fails with an AdapterError.  Inside
\* acquire_publish it leaves publish_lease None, so that nothing is recorded even
\* if the claim is committed; in a completing statement it is recorded as a
\* failure; in mark_failed it escapes the handler, which suppresses the
\* coordinator's own errors only.  A statement that takes effect and loses its
\* answer is the statement followed by a failure of the next one.
PublisherStatementFails(p) ==
    /\ \/ ppc[p] \in Acquiring /\ PGoto(p, "unacquired")
       \/ ppc[p] = "failing" /\ PGoto(p, "unrecorded")
       \/ ppc[p] \in Finishing /\ PGoto(p, "failing")
    /\ psaw' = [psaw EXCEPT ![p] = {}]
    /\ UNCHANGED <<tables, storage, ptoken, pconfig, pempty, pgen, qryVars, opVars>>

\* The process dies (or an exception the handler does not catch leaves it):
\* the operating system drops the lock, the claim stays.
CrashPublisher(p) ==
    /\ ppc[p] \notin PublisherEnds \cup {"start"}
    /\ lock' = IF lock = p THEN NoOne ELSE lock
    /\ PGoto(p, "crashed")
    /\ UNCHANGED <<tables, store, ptoken, pconfig, psaw, pempty, pgen, qryVars, opVars>>

-----------------------------------------------------------------------------
(* search(): acquire_query, the read of the store, validate, release.      *)

ReadForQuery(q) ==
    /\ qpc[q] = "start"
    /\ \/ \E r \in ledger :
            /\ IsRow(r) /\ r.owner = NoOne
            /\ r.status = "ready" /\ r.generation # NoGeneration
            /\ qpin' = [qpin EXCEPT ![q] = [token |-> r.token,
                            generation |-> r.generation, config |-> r.config]]
            /\ QGoto(q, "insert")
       \/ /\ ~\E r \in ledger : /\ IsRow(r) /\ r.owner = NoOne
                                /\ r.status = "ready" /\ r.generation # NoGeneration
          /\ QGoto(q, "refused")
          /\ UNCHANGED qpin
    /\ UNCHANGED <<tables, storage, pubVars, qconfig, qmatch, qseen, opVars>>

\* The lease INSERT's EXISTS clause.
LeaseAllowed(q) == \E r \in ledger : Valid(r, qpin[q])

InsertLeaseSnapshot(q) ==
    /\ SnapshotDML /\ qpc[q] = "insert"
    /\ qmatch' = [qmatch EXCEPT ![q] = LeaseAllowed(q)]
    /\ QGoto(q, "inserting")
    /\ UNCHANGED <<tables, storage, pubVars, qconfig, qpin, qseen, opVars>>

InsertLease(q) ==
    /\ \/ /\ ~SnapshotDML /\ qpc[q] = "insert"
          /\ qmatch' = [qmatch EXCEPT ![q] = LeaseAllowed(q)]
       \/ qpc[q] = "inserting" /\ UNCHANGED qmatch
    /\ leases' = IF qmatch'[q] THEN leases \cup {[holder |-> q, pin |-> qpin[q]]}
                 ELSE leases
    /\ QGoto(q, "held")
    /\ UNCHANGED <<ledger, highWater, storage, pubVars, qconfig, qpin, qseen, opVars>>

LeaseHeld(q) == \E l \in leases : l.holder = q

CheckHeld(q) ==
    /\ qpc[q] = "held"
    /\ QGoto(q, IF LeaseHeld(q) THEN "admit" ELSE "refused")
    /\ UNCHANGED <<tables, storage, pubVars, qconfig, qpin, qmatch, qseen, opVars>>

\* Mutant: validate_query dropped.
StillValidUnread(q) == TRUE
StillValid(q) == \E r \in ledger : IsRow(r) /\ Valid(r, qpin[q])

ValidateAdmission(q) ==
    /\ qpc[q] = "admit"
    /\ QGoto(q, IF StillValid(q) THEN "inspect" ELSE "refusing")
    /\ UNCHANGED <<tables, storage, pubVars, qconfig, qpin, qmatch, qseen, opVars>>

\* Mutant: only the generation is compared.
ExpectedGeneration(q) == store.version = qpin[q].generation
\* The checks of the lease's and the collection's configuration and generation.
ExpectedCollection(q) ==
    /\ qpin[q].config = qconfig[q]
    /\ store.version = qpin[q].generation
    /\ store.config = qconfig[q]

InspectCollection(q) ==
    /\ qpc[q] = "inspect"
    /\ QGoto(q, IF ExpectedCollection(q) THEN "search" ELSE "refusing")
    /\ UNCHANGED <<tables, storage, pubVars, qconfig, qpin, qmatch, qseen, opVars>>

\* One read of the collection; a hybrid query makes two.
SearchStore(q) ==
    /\ qpc[q] = "search"
    /\ qseen' = [qseen EXCEPT ![q] = @ \cup {store.version}]
    /\ \E point \in {"search", "recheck"} : QGoto(q, point)
    /\ UNCHANGED <<tables, storage, pubVars, qconfig, qpin, qmatch, opVars>>

\* Mutant: the lease is not released in a finally clause.
QueryErrorKeepsLease(q) ==
    /\ qpc[q] \in {"inspect", "search", "recheck"}
    /\ QGoto(q, "refused")
    /\ UNCHANGED <<tables, storage, pubVars, qconfig, qpin, qmatch, qseen, opVars>>

\* The embedding provider, the store or the last validation's statement fails.
QueryError(q) ==
    /\ qpc[q] \in {"inspect", "search", "recheck"}
    /\ QGoto(q, "refusing")
    /\ UNCHANGED <<tables, storage, pubVars, qconfig, qpin, qmatch, qseen, opVars>>

ValidateAnswer(q) ==
    /\ qpc[q] = "recheck"
    /\ QGoto(q, IF StillValid(q) THEN "answering" ELSE "refusing")
    /\ UNCHANGED <<tables, storage, pubVars, qconfig, qpin, qmatch, qseen, opVars>>

ReleaseLease(q) ==
    /\ qpc[q] \in {"answering", "refusing"}
    /\ leases' = {l \in leases : l.holder # q}
    /\ QGoto(q, IF qpc[q] = "answering" THEN "answered" ELSE "refused")
    /\ UNCHANGED <<ledger, highWater, storage, pubVars, qconfig, qpin, qmatch, qseen,
                   opVars>>

\* A statement of acquire_query or release_query fails with an AdapterError:
\* acquire_query gives its lease back on the coordinator's own errors only, so
\* one that is inserted stays, as does one whose DELETE fails.
QueryStatementFails(q) ==
    /\ \/ /\ qpc[q] \in {"start", "insert", "inserting", "held", "admit"}
          /\ QGoto(q, "unadmitted")
       \/ /\ qpc[q] \in {"answering", "refusing"}
          /\ QGoto(q, "unreleased")
    /\ UNCHANGED <<tables, storage, pubVars, qconfig, qpin, qmatch, qseen, opVars>>

CrashQuery(q) ==
    /\ qpc[q] \notin QueryEnds \cup {"start"}
    /\ QGoto(q, "crashed")
    /\ UNCHANGED <<tables, storage, pubVars, qconfig, qpin, qmatch, qseen, opVars>>

-----------------------------------------------------------------------------
(* recover(owner_terminated=True): four statements, no transaction.  The   *)
(* assertion is the operator's: no code checks it, and a publisher may     *)
(* start while the recovery runs.                                          *)

ClearLeases(o) ==
    /\ opc[o] = "start"
    /\ OwnerTerminated => \A p \in Publishers : ppc[p] \in PublisherEnds \cup {"start"}
    /\ leases' = {}
    /\ OGoto(o, "max")
    /\ UNCHANGED <<ledger, highWater, storage, pubVars, qryVars, ofence>>

\* SELECT COALESCE(MAX(fencing_token), 0), plus one.
ReadMaxFence(o) ==
    /\ opc[o] = "max"
    /\ \/ Absent /\ ofence' = [ofence EXCEPT ![o] = 1]
       \/ \E r \in ledger : /\ \A s \in ledger : s.token <= r.token
                            /\ ofence' = [ofence EXCEPT ![o] = r.token + 1]
    /\ OGoto(o, "drop")
    /\ UNCHANGED <<tables, storage, pubVars, qryVars>>

DropRows(o) ==
    /\ opc[o] = "drop"
    /\ ledger' = {}
    /\ OGoto(o, "insert")
    /\ UNCHANGED <<leases, highWater, storage, pubVars, qryVars, ofence>>

RecoveredRow(o) == [id |-> o, token |-> ofence[o], status |-> "failed",
                    owner |-> NoOne, config |-> NoOne, generation |-> NoGeneration]

InsertRecovered(o) ==
    /\ opc[o] = "insert"
    /\ ledger' = ledger \cup {RecoveredRow(o)}
    /\ highWater' = IF ofence[o] > highWater THEN ofence[o] ELSE highWater
    /\ OGoto(o, "recovered")
    /\ UNCHANGED <<leases, storage, pubVars, qryVars, ofence>>

\* The operator's process dies, or one of its statements fails.
CrashOperator(o) ==
    /\ opc[o] \in {"max", "drop", "insert"}
    /\ OGoto(o, "crashed")
    /\ UNCHANGED <<tables, storage, pubVars, qryVars, ofence>>

-----------------------------------------------------------------------------
PublisherStep(p) ==
    \/ EnsureRowSnapshot(p) \/ EnsureRow(p) \/ CollapseDuplicates(p)
    \/ ClaimSnapshot(p) \/ Claim(p) \/ ClaimConflict(p) \/ ReadBack(p)
    \/ TakeFence(p) \/ PrepareCollection(p) \/ VerifyBatch(p) \/ WriteBatch(p)
    \/ VerifyRecord(p) \/ LastBatch(p) \/ EnsureIndexes(p) \/ StoreError(p)
    \/ Confirm(p) \/ ReadBeforeReady(p) \/ FinishReady(p) \/ CheckReady(p)
    \/ FinishFailed(p)

QueryStep(q) ==
    \/ ReadForQuery(q) \/ InsertLeaseSnapshot(q) \/ InsertLease(q) \/ CheckHeld(q)
    \/ ValidateAdmission(q) \/ InspectCollection(q) \/ SearchStore(q)
    \/ QueryError(q) \/ ValidateAnswer(q) \/ ReleaseLease(q)

RecoverStep(o) ==
    ClearLeases(o) \/ ReadMaxFence(o) \/ DropRows(o) \/ InsertRecovered(o)

\* Sessions that run to their end.
Work ==
    \/ \E p \in Publishers : PublisherStep(p)
    \/ \E q \in Queriers : QueryStep(q)
    \/ \E o \in Operators : RecoverStep(o)

Crash ==
    \/ \E p \in Publishers : CrashPublisher(p)
    \/ \E q \in Queriers : CrashQuery(q)
    \/ \E o \in Operators : CrashOperator(o)

\* Statements the warehouse refuses to a session that goes on.
StatementFails ==
    \/ \E p \in Publishers : PublisherStatementFails(p)
    \/ \E q \in Queriers : QueryStatementFails(q)

Next == Work \/ Crash \/ StatementFails
Spec == Init /\ [][Next]_vars

\* Every session that does not die is scheduled until its program ends.
FairSpec ==
    /\ Spec
    /\ \A p \in Publishers : WF_vars(PublisherStep(p))
    /\ \A q \in Queriers : WF_vars(QueryStep(q))
    /\ \A o \in Operators : WF_vars(RecoverStep(o))

-----------------------------------------------------------------------------
(* Properties.                                                             *)

\* At most one row of the scope carries a publication_id, however sessions,
\* recoveries and late snapshot commits interleave: the conditional UPDATE of
\* acquire_publish really elects one publisher.
OneOwner ==
    \A r, s \in ledger : r.owner # NoOne /\ s.owner # NoOne => r = s

\* A ready, unclaimed row names exactly what the store holds: no publisher,
\* stale or current, mutates the collection behind a ready generation.
ReadyIsStored ==
    \A r \in ledger : IsRow(r) /\ r.status = "ready" /\ r.owner = NoOne =>
        store.version = r.generation /\ store.config = r.config

\* Every answer search() returns was read wholly from the generation the query
\* pinned, which carries the configuration the project expects.
AnswersPinned ==
    \A q \in Queriers : qpc[q] \in {"answering", "answered"} =>
        /\ qseen[q] = {qpin[q].generation}
        /\ qpin[q].config = qconfig[q]

\* What is ready is stored, and what is answered was ready all along.
ReadyIsAnswered == ReadyIsStored /\ AnswersPinned

\* "Queries acquire shared leases that pin the active physical generation": an
\* admitted query whose lease is in the table excludes every publisher.
LeaseExcludesPublisher ==
    \A q \in Queriers :
        LeaseHeld(q) /\ qpc[q] \in {"inspect", "search", "recheck"} =>
            \A r \in ledger : r.owner = NoOne

\* "A monotonically increasing fencing token": every claim mints a token
\* greater than any the scope ever had.
FenceIncreases ==
    [][\A p \in Publishers :
        \A r \in ledger' \ ledger : r.owner = p => r.token > highWater]_vars

\* "There is no timeout-based lease stealing": a publication_id leaves the
\* ledger only by a step of the publisher that put it there, or by an
\* operator's recovery.
AuthorityKept ==
    [][\A p \in Publishers :
        Claimed(p) # {} /\ Claimed(p)' = {} =>
            ppc'[p] # ppc[p] \/ \E o \in Operators : opc'[o] # opc[o]]_vars

\* The rows that carry the publisher's publication_id, read back or not.
Owned(p) == {r \in ledger : r.owner = p}

\* No claim outlives a publisher that runs to its end, whatever the store, the
\* providers and the other sessions do and whichever statement fails outside
\* acquire_publish and mark_failed.
ClaimHandedBack ==
    \A p \in Publishers :
        Owned(p) # {} ~>
            Owned(p) = {} \/ ppc[p] \in {"crashed", "unacquired", "unrecorded"}

\* No lease of a query stays to block publication, whichever statement fails
\* outside acquire_query and release_query.
LeaseHandedBack ==
    \A q \in Queriers :
        LeaseHeld(q) ~>
            ~LeaseHeld(q) \/ qpc[q] \in {"crashed", "unadmitted", "unreleased"}

\* Claims and leases go back: what is left for the operator is left by a crash,
\* or by an error of the warehouse in the statements that take or return it.
HandedBack == ClaimHandedBack /\ LeaseHandedBack
-----------------------------------------------------------------------------
(* With serializing statements the tables implement ServingScope.          *)

OwnerOf(rows) ==
    IF \E r \in rows : r.owner # NoOne
    THEN (CHOOSE r \in rows : r.owner # NoOne).owner ELSE NoOne
ServedFrom(rows) ==
    IF \E r \in rows : r.status = "ready" /\ r.owner = NoOne
    THEN (CHOOSE r \in rows : r.status = "ready" /\ r.owner = NoOne).generation
    ELSE NoGeneration

Scope == INSTANCE ServingScope WITH
    Writers <- Publishers, Readers <- Queriers, Generations <- 0..MaxVersion,
    writer <- OwnerOf(ledger),
    readers <- {l.holder : l \in leases},
    served <- ServedFrom(ledger)

\* The ledger and lease tables implement a readers-writer lock that a finishing
\* publisher opens for queries and an operator may reset.
ImplementsScope == Scope!Spec
=============================================================================
