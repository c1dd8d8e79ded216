---------------------------- MODULE ContextServer ----------------------------
(***************************************************************************)
(* The MCP context server (mcp_server/service.py): callers pass a rate     *)
(* limiter and a semaphore, wait a bounded time for an operation that a    *)
(* pool thread runs, and append the log row of a search, without a time    *)
(* limit, before they return its answer.  An operation reads the index,    *)
(* the chunk rows and the registry row one after the other, while          *)
(* publication and policy change all three, and asks the authorization     *)
(* provider again about every row it read.                                 *)
(* One governed model, one document version, several of its chunks.        *)
(***************************************************************************)
EXTENDS Integers, FiniteSets, Sequences

CONSTANTS
    Requests,        \* tool calls, numbered in the order they arrive
    Chunks,          \* chunk rows of the document, numbered in reading order
    Linked,          \* the chunks an entity relation names
    MaxConcurrency,  \* ContextServerSettings.max_concurrency
    MaxPerMinute,    \* ContextServerSettings.max_requests_per_minute
    Minute,          \* 60 s, in ticks
    Timeout,         \* ContextServerSettings.timeout_seconds, in ticks
    Worlds           \* bound: how many tool calls of which kinds meet how many
                     \* changes of rows and policy, how many ticks pass while no call
                     \* waits, and whether the target enables a query log:
                     \* [calls, kinds, changes, ticks, log]

ASSUME ServerAssumption ==
    /\ Requests \subseteq Nat /\ Chunks \subseteq Nat /\ Linked \subseteq Chunks
    /\ {MaxConcurrency, MaxPerMinute, Minute, Timeout} \subseteq Nat \ {0}
    /\ \A w \in Worlds :
          w.log \in BOOLEAN /\ w.kinds \subseteq {"list", "search", "document", "lineage"}

VARIABLES
    bounds,    \* the member of Worlds this behaviour is about
    now,       \* the monotonic clock
    times,     \* _OperationLimiter._request_times
    slots,     \* free permits of the semaphore
    closed,    \* close() was called
    call,      \* a request's caller: [at, kind, since, answer, chunks]
    work,      \* its operation: [at, left, chunks, pending]
    row,       \* can_read of each chunk row: "granted", "denied", or "absent"
    registry,  \* the same of the document's registry row
    index,     \* the chunks the store returns under the caller's policy filters
    logged,    \* history: requests with a row in the query log
    admitted,  \* history: the times of the calls the rate limiter let through
    wasRow,    \* history: chunks whose row was readable at a moment of the operation
    wasDoc     \* history: the same of the registry row

serverVars == <<bounds, now, times, slots, closed, call, work, row, registry, index,
                logged, admitted, wasRow, wasDoc>>

world == <<row, registry, index>>
limits == <<bounds, now, times, slots, closed, admitted>>
seen == <<wasRow, wasDoc>>

Status == {"granted", "denied", "absent"}
NoCall == [at |-> "idle", kind |-> "list", since |-> 0, answer |-> "none", chunks |-> {}]
NoOp == [at |-> "none", left |-> {}, chunks |-> {}, pending |-> FALSE]

ServerInit ==
    /\ bounds \in Worlds
    /\ now = 0 /\ times = <<>> /\ slots = MaxConcurrency /\ closed = FALSE
    /\ call = [r \in Requests |-> NoCall]
    /\ work = [r \in Requests |-> NoOp]
    /\ row = [c \in Chunks |-> "granted"] /\ registry = "granted" /\ index = Chunks
    /\ logged = {} /\ admitted = <<>>
    /\ wasRow = [r \in Requests |-> {}] /\ wasDoc = [r \in Requests |-> FALSE]

------------------------------------------------------------------------------
(* The caller: ContextService._respond around _OperationLimiter.run.       *)

Answered(r, answer, chunks) ==
    call' = [call EXCEPT ![r].at = "responded", ![r].answer = answer, ![r].chunks = chunks]

\* What the next check leaves of a sequence of times: it pops from the left, up to the
\* first one that is recent.
Recent(ts) ==
    LET stops == {n \in 0..Len(ts) : n = Len(ts) \/ ts[n + 1] > now - Minute}
        popped == CHOOSE n \in stops : \A m \in stops : n <= m
    IN  SubSeq(ts, popped + 1, Len(ts))

\* _check_rate_limit: every call it lets through counts, whatever becomes of it.
Arrive(r) ==
    /\ call[r].at = "idle" /\ r <= bounds.calls
    /\ \A q \in Requests : q < r => call[q].at # "idle"
    /\ \E kind \in bounds.kinds :
          IF Len(Recent(times)) >= MaxPerMinute
          THEN /\ times' = Recent(times)
               /\ call' = [call EXCEPT ![r] = [NoCall EXCEPT !.at = "responded",
                                               !.kind = kind, !.answer = "BUSY"]]
               /\ UNCHANGED admitted
          ELSE /\ times' = Append(Recent(times), now)
               /\ admitted' = Append(admitted, now)
               /\ call' = [call EXCEPT ![r] = [NoCall EXCEPT !.at = "admitted", !.kind = kind]]
    /\ UNCHANGED <<bounds, now, slots, closed, work, world, logged, seen>>

\* acquire(blocking=False): no permit, no waiting.
Acquire(r) ==
    /\ call[r].at = "admitted"
    /\ IF slots = 0
       THEN Answered(r, "BUSY", {}) /\ UNCHANGED slots
       ELSE slots' = slots - 1 /\ call' = [call EXCEPT ![r].at = "acquired"]
    /\ UNCHANGED <<bounds, now, times, closed, admitted, work, world, logged, seen>>

\* submit; a pool that was shut down raises, and the permit is handed back.
Submit(r) ==
    /\ call[r].at = "acquired"
    /\ IF closed
       THEN Answered(r, "INTERNAL", {}) /\ slots' = slots + 1 /\ UNCHANGED work
       ELSE /\ call' = [call EXCEPT ![r].at = "waiting", ![r].since = now]
            /\ work' = [work EXCEPT ![r].at = "queued"]
            /\ UNCHANGED slots
    /\ UNCHANGED <<bounds, now, times, closed, admitted, world, logged, seen>>

\* future.result returned or raised; an answer may exceed max_response_bytes.
Collect(r) ==
    /\ call[r].at = "waiting"
    /\ \/ /\ work[r].at = "done"
          /\ \/ Answered(r, "OK", work[r].chunks)
             \/ Answered(r, "RESPONSE_LIMIT", {})
       \/ work[r].at = "failed" /\ Answered(r, "ERROR", {})
       \/ work[r].at = "cancelled" /\ Answered(r, "INTERNAL", {})
    /\ UNCHANGED <<limits, work, world, logged, seen>>

\* Mutant: the permit goes back with the answer, and the operation still runs.
TimeOutFreesPermit(r) ==
    /\ call[r].at = "waiting" /\ now >= call[r].since + Timeout
    /\ work[r].at \notin {"done", "failed", "cancelled"}
    /\ slots' = slots + 1 /\ Answered(r, "TIMEOUT", {})
    /\ UNCHANGED <<bounds, now, times, closed, admitted, work, world, logged, seen>>

\* Mutant: future.result() without its timeout.
NeverTimesOut(r) == r = 0 /\ UNCHANGED serverVars

\* future.result(timeout): the caller gives up and the operation goes on.
TimeOut(r) ==
    /\ call[r].at = "waiting" /\ now >= call[r].since + Timeout
    /\ work[r].at \notin {"done", "failed", "cancelled"}
    /\ Answered(r, "TIMEOUT", {})
    /\ UNCHANGED <<limits, work, world, logged, seen>>

\* search_context looks for the row its operation has left by now, late as that may be,
\* and log_query returns at once where the target has no log.
InAppend(r) == call[r].at = "responded" /\ work[r].pending /\ bounds.log

ReturnAnswer(r) ==
    /\ call[r].at = "responded" /\ ~InAppend(r)
    /\ call' = [call EXCEPT ![r].at = "answered"]
    /\ UNCHANGED <<limits, work, world, logged, seen>>

\* log_query appends on the caller's thread and waits for the warehouse.  An append that
\* fails writes nothing, or its answer alone is lost; either way the call is answered.
AppendLog(r) ==
    /\ InAppend(r)
    /\ call' = [call EXCEPT ![r].at = "answered"]
    /\ logged' \in {logged, logged \cup {r}}
    /\ UNCHANGED <<limits, work, world, seen>>

\* ContextService.close: shutdown(wait=False, cancel_futures=True).
Close ==
    /\ ~closed /\ closed' = TRUE
    /\ work' = [r \in Requests |-> IF work[r].at = "queued"
                                 THEN [work[r] EXCEPT !.at = "cancelled"] ELSE work[r]]
    /\ UNCHANGED <<bounds, now, times, slots, admitted, call, world, logged, seen>>

Tick ==
    /\ \/ now < bounds.ticks
       \/ \E r \in Requests : call[r].at = "waiting" /\ now < call[r].since + Timeout
    /\ now' = now + 1
    /\ UNCHANGED <<bounds, times, slots, closed, admitted, call, work, world, logged, seen>>

------------------------------------------------------------------------------
(* The operation, on a pool thread.  Each read takes a snapshot of one     *)
(* relation; nothing holds between two of them.                            *)

Steps == {"authorize", "hits", "chunks", "registry", "links"}
Running == {r \in Requests : work[r].at \in Steps \cup {"return", "raise", "released", "erred"}}

Move(r, at) == work' = [work EXCEPT ![r].at = at]
OpOnly == UNCHANGED <<limits, call, world, logged, seen>>

\* A free pool thread takes the work item.
Start(r) ==
    /\ work[r].at = "queued" /\ Cardinality(Running) < MaxConcurrency
    /\ Move(r, "authorize")
    /\ wasRow' = [wasRow EXCEPT ![r] = {c \in Chunks : row[c] = "granted"}]
    /\ wasDoc' = [wasDoc EXCEPT ![r] = (registry = "granted")]
    /\ UNCHANGED <<limits, call, world, logged>>

\* _principal and _authorize_resource (_list_context_models has no resource of
\* its own to authorize): no principal, no such model and no claims all end it.
AuthorizeResource(r) ==
    /\ work[r].at = "authorize" /\ OpOnly
    /\ \/ Move(r, CASE call[r].kind = "search" -> "hits"
                    [] call[r].kind = "document" -> "registry"
                    [] call[r].kind = "lineage" -> "chunks"
                    [] call[r].kind = "list" -> "links")
       \/ Move(r, "raise")

\* ContextSearch.execute under the policy filters: what the index held, stale or not.
SearchHits(r) ==
    /\ work[r].at = "hits" /\ OpOnly
    /\ \E hits \in SUBSET index :
          work' = [work EXCEPT ![r].at = "chunks", ![r].left = hits]

\* Mutant: the policy filters of the search are trusted.
CanReadIndexed(c) == row[c] # "absent"

\* can_read of one chunk row, as the provider answers it for the row just read.
CanReadRow(c) == row[c] = "granted"

\* The rows of these chunks that one read of the context relation finds, and
\* those among them that the caller may read.
Found(chunks) == {c \in chunks : row[c] # "absent"}
Readable(chunks) == {c \in Found(chunks) : CanReadRow(c)}

\* _search_context: the rows of the hits; the caller may not read all of them.
ReadHitRows(r) ==
    /\ work[r].at = "chunks" /\ call[r].kind = "search" /\ OpOnly
    /\ work' = [work EXCEPT ![r].at = "registry", ![r].left = Readable(work[r].left)]

\* _get_document: a document with no row, or one row that is denied, is denied.
ReadDocumentRows(r) ==
    /\ work[r].at = "chunks" /\ call[r].kind = "document" /\ OpOnly
    /\ IF Found(Chunks) = {} \/ Readable(Chunks) # Found(Chunks)
       THEN Move(r, "raise")
       ELSE work' = [work EXCEPT ![r].at = "links", ![r].chunks = Readable(Chunks)]

\* _get_context_lineage: the rows that the reference names.
ReadReferenceRows(r) ==
    /\ work[r].at = "chunks" /\ call[r].kind = "lineage" /\ OpOnly
    /\ work' = [work EXCEPT ![r].at = "registry", ![r].left = Found(Chunks),
                        ![r].chunks = Readable(Chunks)]

\* _entity_types: of the chunks that entity relations name, those the caller may read.
ReadNamedRows(r) ==
    /\ work[r].at = "chunks" /\ call[r].kind = "list" /\ OpOnly
    /\ work' = [work EXCEPT ![r].at = "return", ![r].chunks = Readable(work[r].left)]

\* can_read of the registry row.
CanReadDocument == registry = "granted"

\* _registry_by_versions for a search: a hit without a readable document is dropped.
ReadHitDocuments(r) ==
    /\ work[r].at = "registry" /\ call[r].kind = "search" /\ OpOnly
    /\ work' = [work EXCEPT ![r].at = "links",
                        ![r].chunks = IF CanReadDocument THEN work[r].left ELSE {}]

\* _get_document reads the registry before the chunks.
ReadDocumentRegistry(r) ==
    /\ work[r].at = "registry" /\ call[r].kind = "document" /\ OpOnly
    /\ Move(r, IF CanReadDocument THEN "chunks" ELSE "raise")

\* _get_context_lineage takes its rows newest first, reads the registry again for
\* each, and keeps the first pair the caller may read.
ReadReferenceDocument(r) ==
    /\ work[r].at = "registry" /\ call[r].kind = "lineage" /\ OpOnly
    /\ IF work[r].left = {} THEN Move(r, "raise")
       ELSE LET newest == CHOOSE c \in work[r].left : \A d \in work[r].left : d <= c
            IN  work' = IF newest \in work[r].chunks /\ CanReadDocument
                      THEN [work EXCEPT ![r].at = "links", ![r].chunks = {newest}]
                      ELSE [work EXCEPT ![r].left = @ \ {newest}]

\* _entity_links of what will be answered; a search leaves its log row.
ReadLinks(r) ==
    /\ work[r].at = "links" /\ call[r].kind # "list" /\ OpOnly
    /\ work' = [work EXCEPT ![r].at = "return", ![r].pending = (call[r].kind = "search")]

\* _entity_types: the chunks that open links name.
ReadAllLinks(r) ==
    /\ work[r].at = "links" /\ call[r].kind = "list" /\ OpOnly
    /\ work' = [work EXCEPT ![r].at = IF Linked = {} THEN "return" ELSE "chunks", ![r].left = Linked]

\* ContextRepositoryError, ContextRepositoryLimitError, SearchError, a bad cursor.
OperationFails(r) ==
    /\ work[r].at \in {"hits", "chunks", "registry", "links"} /\ OpOnly
    /\ Move(r, "raise")

\* guarded(): the permit is released when the operation ends, however it ends ...
Release(r) ==
    /\ work[r].at \in {"return", "raise"}
    /\ slots' = slots + 1
    /\ Move(r, IF work[r].at = "return" THEN "released" ELSE "erred")
    /\ UNCHANGED <<bounds, now, times, closed, admitted, call, world, logged, seen>>

\* ... and then the future resolves and the thread is free.
ResolveCall(r) ==
    /\ work[r].at \in {"released", "erred"} /\ OpOnly
    /\ Move(r, IF work[r].at = "released" THEN "done" ELSE "failed")

------------------------------------------------------------------------------
(* The world: rows and policies change, and the index follows later.       *)

Observe(rows, doc) ==
    /\ wasRow' = [r \in Requests |-> IF r \in Running
                     THEN wasRow[r] \cup {c \in Chunks : rows[c] = "granted"} ELSE wasRow[r]]
    /\ wasDoc' = [r \in Requests |-> IF r \in Running
                     THEN wasDoc[r] \/ doc = "granted" ELSE wasDoc[r]]

\* Changes are counted by how far the world is from its start.
Change ==
    /\ \/ \E c \in Chunks, to \in Status \ {"granted"} :
             row[c] = "granted" /\ row' = [row EXCEPT ![c] = to] /\ UNCHANGED registry
       \/ \E to \in Status \ {"granted"} :
             registry = "granted" /\ registry' = to /\ UNCHANGED row
    /\ Cardinality({c \in Chunks : row'[c] # "granted"})
          + (IF registry' = "granted" THEN 0 ELSE 1) <= bounds.changes
    /\ Observe(row', registry')
    /\ UNCHANGED <<limits, call, work, index, logged>>

\* A publication run brings the index up to the rows.
Publish ==
    /\ index # {c \in Chunks : row[c] = "granted"}
    /\ index' = {c \in Chunks : row[c] = "granted"}
    /\ UNCHANGED <<limits, call, work, row, registry, logged, seen>>

------------------------------------------------------------------------------
CallerStep(r) ==
    \/ Arrive(r) \/ Acquire(r) \/ Submit(r) \/ Collect(r) \/ TimeOut(r)
    \/ ReturnAnswer(r) \/ AppendLog(r)

OperationStep(r) ==
    \/ Start(r) \/ AuthorizeResource(r) \/ SearchHits(r)
    \/ ReadHitRows(r) \/ ReadDocumentRows(r) \/ ReadReferenceRows(r) \/ ReadNamedRows(r)
    \/ ReadHitDocuments(r) \/ ReadDocumentRegistry(r) \/ ReadReferenceDocument(r)
    \/ ReadLinks(r) \/ ReadAllLinks(r)
    \/ OperationFails(r) \/ Release(r) \/ ResolveCall(r)

ServerNext ==
    \/ \E r \in Requests : CallerStep(r) \/ OperationStep(r)
    \/ Close \/ Tick \/ Change \/ Publish

\* The caller's thread runs and time passes.  An operation may hang, and so may the append
\* of a log row: what they ask of the warehouse has no time limit of its own.
Waits(r) == Acquire(r) \/ Submit(r) \/ Collect(r) \/ TimeOut(r) \/ ReturnAnswer(r)

ServerFairness ==
    /\ WF_serverVars(Tick)
    /\ \A r \in Requests : WF_serverVars(Waits(r))

ServerSpec == ServerInit /\ [][ServerNext]_serverVars /\ ServerFairness

------------------------------------------------------------------------------
(* Properties.                                                             *)

\* What an answer or its log row names.
Disclosed(r) ==
    call[r].chunks \cup (IF r \in logged THEN work[r].chunks ELSE {})

\* A chunk that an answer shows, or that the log says was shown, had a readable
\* row, and the document a readable registry row, at some moment of the operation
\* that read them: a row revoked before the operation began is not served however
\* stale the index is (service.py:454-478, 556-572, 638-645).  The list of models
\* names entity types from the chunk rows alone (service.py:758-808).
ServedWasReadable ==
    \A r \in Requests :
       Disclosed(r) # {} =>
          /\ Disclosed(r) \subseteq wasRow[r]
          /\ call[r].kind # "list" => wasDoc[r]

Holding == {r \in Requests :
              \/ call[r].at = "acquired"
              \/ work[r].at \in Steps \cup {"queued", "return", "raise", "cancelled"}}

\* Admission: every permit is free or held by exactly one call, through timeouts,
\* failures, a shut pool and late answers (service.py:156-183), and no minute lets
\* more calls through than the limit (service.py:185-197).
AdmissionBounded ==
    /\ slots + Cardinality(Holding) = MaxConcurrency
    /\ \A i, j \in DOMAIN admitted :
          i <= j /\ admitted[j] - admitted[i] < Minute => j - i < MaxPerMinute

\* What the server returns was readable, and it runs no more than it admits.
ServerSound == ServedWasReadable /\ AdmissionBounded

\* Every call the rate limiter lets through is answered, even when its operation hangs and
\* when the server is closed under it (service.py:176-183, 303-354), or else its caller
\* stands in the append of a log row, which has no time limit (service.py:284-285,
\* repository.py:69-95): a target without a query log answers every call.
EveryCallAnswered ==
    \A r \in Requests : call[r].at = "admitted" ~> call[r].at = "answered" \/ InAppend(r)
==============================================================================
