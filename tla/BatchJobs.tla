----------------------------- MODULE BatchJobs -----------------------------
(***************************************************************************)
(* Native batch inference of an incremental extraction model: the windows  *)
(* of run_extraction_model (execution/extraction.py), the partitions of    *)
(* LLMBackend.extract_batch_with_metrics and the resumable job of          *)
(* _run_message_batch (backends/llm_backend.py), over runs that may be     *)
(* interrupted anywhere.  What survives a run is the publication state,    *)
(* the cached answers, the persisted job records, and what the provider    *)
(* was asked to do, which it bills.                                        *)
(*                                                                         *)
(* A document is its number, which is its place in the source listing.  An *)
(* answer is the document it answers.  Answers are matched to requests by  *)
(* position (custom ids "req-0", "req-1", ...), and a job is found again   *)
(* by the cache keys of its partition.                                     *)
(***************************************************************************)
EXTENDS Naturals, Sequences, FiniteSets, Functions

CONSTANTS
    Docs,            \* documents, in listing order
    WindowSize,      \* batch_size: documents fetched and published together
    PartitionSize,   \* min(batch_size, provider limit): documents of one job
    Settings         \* the environments runs are made in

None == 0

ASSUME DocsAssumption == Docs \subseteq Nat \ {None} /\ IsFiniteSet(Docs)
ASSUME SizesAssumption == WindowSize \in Nat \ {0} /\ PartitionSize \in 1..WindowSize
ASSUME SettingAssumption ==
    \A s \in Settings :
        /\ s.pool \subseteq Docs /\ s.maxFaults \in Nat /\ s.maxJobs \in Nat
        /\ s.onPartialBatch \subseteq {"fail", "publish_successful"}
        /\ {s.expires, s.arrivals} \subseteq BOOLEAN

VARIABLES
    setting,    \* the environment of this behaviour
    present,    \* documents in the source
    processed,  \* documents whose row and state are published
    cache,      \* llm_cache: the answer cached for a document, or None
    jobs,       \* llm_batch_jobs: records of submitted jobs
    provider,   \* the provider's jobs; a job's id is its place
    givenUp,    \* history: jobs whose record was removed at their deadline
    pc, todo,   \* the run: control point, documents of later windows
    window,     \*   documents of the current window not read yet
    pending,    \*   documents of the current partition
    job,        \*   id of its provider job
    items,      \*   fetched answers not stored yet, aligned with pending
    answered, failed,   \* outcome of the window so far
    faults

persistent == <<present, processed, cache, jobs>>
remote     == <<setting, provider, givenUp>>
inFlight   == <<todo, window, pending, job, items, answered, failed>>
vars == <<persistent, remote, pc, inFlight, faults>>

Pool == setting.pool                        \* documents the source may hold
OnPartialBatch == setting.onPartialBatch    \* settings in use
InterruptPoints == setting.interrupts       \* where a run may be interrupted
Expires == setting.expires          \* the provider forgets the results of old jobs
Arrivals == setting.arrivals        \* documents may appear in the source later
MaxFaults == setting.maxFaults      \* bounds on faults and on jobs ever submitted
MaxJobs == setting.maxJobs

Points == {"idle", "window", "scan", "lookup", "submit", "persist", "poll", "cancel",
           "fetch", "clear", "store", "publish"}
Job == [docs : Seq(Docs), status : {"running", "done", "gone"}, bad : SUBSET Docs]
Record == [key : Seq(Docs), id : 1..MaxJobs]

TypeOK ==
    /\ setting \in Settings
    /\ present \in SUBSET Docs /\ processed \in SUBSET Docs
    /\ cache \in [Docs -> Docs \cup {None}]
    /\ jobs \subseteq Record
    /\ provider \in Seq(Job) /\ Len(provider) <= MaxJobs
    /\ givenUp \subseteq 1..MaxJobs
    /\ pc \in Points
    /\ {todo, window, pending} \subseteq Seq(Docs) /\ items \in Seq(Docs \cup {None})
    /\ job \in 0..MaxJobs
    /\ answered \in SUBSET Docs /\ failed \in SUBSET Docs
    /\ faults \in 0..MaxFaults

Init ==
    /\ setting \in Settings
    /\ IF Arrivals THEN present \in SUBSET Pool ELSE present = Pool
    /\ processed = {}
    /\ cache = [d \in Docs |-> None] /\ jobs = {}
    /\ provider = <<>> /\ givenUp = {}
    /\ pc = "idle"
    /\ todo = <<>> /\ window = <<>> /\ pending = <<>> /\ items = <<>>
    /\ job = None /\ answered = {} /\ failed = {}
    /\ faults = 0

Listing(docs) ==
    CHOOSE s \in [1..Cardinality(docs) -> docs] :
        \A i, j \in 1..Cardinality(docs) : i < j => s[i] < s[j]
First(s, n) == SubSeq(s, 1, IF Len(s) < n THEN Len(s) ELSE n)
Rest(s, n) == SubSeq(s, n + 1, Len(s))

-----------------------------------------------------------------------------
(* Windows.                                                                *)

\* Documents whose published state is current are skipped.
Begin ==
    /\ pc = "idle" /\ present \ processed # {}
    /\ todo' = Listing(present \ processed)
    /\ pc' = "window"
    /\ UNCHANGED <<persistent, remote, window, pending, job, items, answered, failed, faults>>

NextWindow ==
    /\ pc = "window"
    /\ window' = First(todo, WindowSize) /\ todo' = Rest(todo, WindowSize)
    /\ pc' = IF todo = <<>> THEN "idle" ELSE "scan"
    /\ answered' = {} /\ failed' = {}
    /\ UNCHANGED <<persistent, remote, pending, job, items, faults>>

\* A cached answer is used; the others fill a partition, which is flushed when
\* full and at the end of the window.
Scan ==
    /\ pc = "scan" /\ window # <<>>
    /\ LET d == Head(window) IN
       \/ /\ cache[d] # None
          /\ answered' = answered \cup {d} /\ pc' = "scan" /\ UNCHANGED pending
       \/ /\ cache[d] = None
          /\ pending' = Append(pending, d)
          /\ pc' = IF Len(pending') >= PartitionSize THEN "lookup" ELSE "scan"
          /\ UNCHANGED answered
    /\ window' = Tail(window)
    /\ UNCHANGED <<persistent, remote, todo, job, items, failed, faults>>

FlushLast ==
    /\ pc = "scan" /\ window = <<>>
    /\ pc' = IF pending = <<>> THEN "publish" ELSE "lookup"
    /\ UNCHANGED <<persistent, remote, inFlight, faults>>

\* Failed documents fail the run, or are left for a later one.
PublishWindow ==
    /\ pc = "publish"
    /\ \/ /\ failed # {} /\ "fail" \in OnPartialBatch
          /\ pc' = "idle" /\ todo' = <<>> /\ UNCHANGED processed
       \/ /\ failed = {} \/ "publish_successful" \in OnPartialBatch
          /\ pc' = "window" /\ processed' = processed \cup answered /\ UNCHANGED todo
    /\ answered' = {} /\ failed' = {}
    /\ UNCHANGED <<present, cache, jobs, remote, window, pending, job, items, faults>>

-----------------------------------------------------------------------------
(* One partition.                                                          *)

\* Mutant: partitions of one size share a key.
JobKeyBySize(docs) == First(Listing(Docs), Len(docs))
\* _batch_job_key: the cache keys of the partition, in order.
JobKey(docs) == docs
Recorded == {r \in jobs : r.key = JobKey(pending)}

\* Mutant: the record is not looked up.
LookupNothing ==
    /\ pc = "lookup" /\ pc' = "submit"
    /\ UNCHANGED <<persistent, remote, inFlight, faults>>
\* A recorded job is resumed, otherwise one is submitted.
Lookup ==
    /\ pc = "lookup"
    /\ \/ \E r \in Recorded : job' = r.id /\ pc' = "poll"
       \/ Recorded = {} /\ pc' = "submit" /\ UNCHANGED job
    /\ UNCHANGED <<persistent, remote, todo, window, pending, items, answered, failed, faults>>

Running(docs) == [docs |-> docs, status |-> "running", bad |-> {}]

\* Mutant: the id of the job before.
SubmitStaleId ==
    /\ pc = "submit" /\ Len(provider) < MaxJobs
    /\ provider' = Append(provider, Running(pending))
    /\ job' = Len(provider)
    /\ pc' = "persist"
    /\ UNCHANGED <<setting, persistent, givenUp, todo, window, pending, items, answered, failed, faults>>
Submit ==
    /\ pc = "submit" /\ Len(provider) < MaxJobs
    /\ provider' = Append(provider, Running(pending))
    /\ job' = Len(provider')
    /\ pc' = "persist"
    /\ UNCHANGED <<setting, persistent, givenUp, todo, window, pending, items, answered, failed, faults>>

\* _job_put: old records are pruned, and the one of this key is replaced.
Persist ==
    /\ pc = "persist"
    /\ \E old \in SUBSET {r \in jobs : provider[r.id].status = "gone"} :
         jobs' = ((jobs \ old) \ Recorded) \cup {[key |-> JobKey(pending), id |-> job]}
    /\ pc' = "poll"
    /\ UNCHANGED <<present, processed, cache, remote, inFlight, faults>>

\* Mutant: the record is removed when the job has ended.
PollClears ==
    /\ pc = "poll" /\ provider[job].status # "running"
    /\ jobs' = jobs \ Recorded
    /\ pc' = "fetch"
    /\ UNCHANGED <<present, processed, cache, remote, inFlight, faults>>
Poll ==
    /\ pc = "poll" /\ provider[job].status # "running"
    /\ pc' = "fetch"
    /\ UNCHANGED <<persistent, remote, inFlight, faults>>

\* A job ends, with the documents it has no answer for.
Ended(id, bad) == [provider EXCEPT ![id].status = "done", ![id].bad = bad]

\* The deadline passes: the job is asked to stop.  It ends with the answers it has by
\* then, or goes on: the cancel may fail, which is ignored.
Timeout ==
    /\ pc = "poll" /\ provider[job].status = "running"
    /\ faults < MaxFaults /\ faults' = faults + 1
    /\ \/ \E bad \in SUBSET Range(provider[job].docs) : provider' = Ended(job, bad)
       \/ UNCHANGED provider
    /\ pc' = "cancel"
    /\ UNCHANGED <<setting, persistent, givenUp, inFlight>>

RunEnds ==
    /\ pc' = "idle"
    /\ todo' = <<>> /\ window' = <<>> /\ pending' = <<>> /\ items' = <<>>
    /\ job' = None /\ answered' = {} /\ failed' = {}

\* Its record is removed, whatever came of the cancel, and the run fails.
Cancelled ==
    /\ pc = "cancel"
    /\ jobs' = jobs \ Recorded /\ givenUp' = givenUp \cup {job}
    /\ RunEnds
    /\ UNCHANGED <<present, processed, cache, setting, provider, faults>>

\* Results that do not match the requests, or are gone, fail the run.
Fetch ==
    /\ pc = "fetch"
    /\ LET j == provider[job] IN
       \/ /\ j.status = "done" /\ Len(j.docs) = Len(pending)
          /\ items' = [i \in 1..Len(pending) |->
                          IF j.docs[i] \in j.bad THEN None ELSE j.docs[i]]
          /\ pc' = "clear"
          /\ UNCHANGED <<todo, window, pending, job, answered, failed>>
       \/ /\ j.status = "gone" \/ Len(j.docs) # Len(pending)
          /\ RunEnds
    /\ UNCHANGED <<persistent, remote, faults>>

\* Mutant: the record is kept.
ClearNothing ==
    /\ pc = "clear" /\ pc' = "store"
    /\ UNCHANGED <<persistent, remote, inFlight, faults>>
\* The record is removed before the answers are stored.
Clear ==
    /\ pc = "clear"
    /\ jobs' = jobs \ Recorded
    /\ pc' = "store"
    /\ UNCHANGED <<present, processed, cache, remote, inFlight, faults>>

\* Mutant: a failed item counts as answered.
StoreFailedAsAnswered ==
    /\ pc = "store" /\ pending # <<>>
    /\ LET d == Head(pending) IN
       /\ cache' = IF Head(items) = None THEN cache ELSE [cache EXCEPT ![d] = Head(items)]
       /\ answered' = answered \cup {d}
    /\ pending' = Tail(pending) /\ items' = Tail(items)
    /\ UNCHANGED <<present, processed, jobs, remote, pc, todo, window, job, failed, faults>>
\* _resolve_batch_item, one document of the partition at a time.
StoreItem ==
    /\ pc = "store" /\ pending # <<>>
    /\ LET d == Head(pending) IN
       IF Head(items) = None
       THEN failed' = failed \cup {d} /\ UNCHANGED <<cache, answered>>
       ELSE /\ cache' = [cache EXCEPT ![d] = Head(items)]
            /\ answered' = answered \cup {d} /\ UNCHANGED failed
    /\ pending' = Tail(pending) /\ items' = Tail(items)
    /\ UNCHANGED <<present, processed, jobs, remote, pc, todo, window, job, faults>>

PartitionDone ==
    /\ pc = "store" /\ pending = <<>>
    /\ pc' = "scan" /\ job' = None
    /\ UNCHANGED <<persistent, remote, todo, window, pending, items, answered, failed, faults>>

\* An exception, an interrupt or a crash ends the run: only what is persistent
\* is left.
Interrupt ==
    /\ pc \in InterruptPoints \ {"idle"}
    /\ faults < MaxFaults /\ faults' = faults + 1
    /\ RunEnds
    /\ UNCHANGED <<persistent, remote>>

-----------------------------------------------------------------------------
(* The provider, and the source.                                           *)

\* A job ends by itself; an item may fail on its own.
Complete(id) ==
    /\ provider[id].status = "running"
    /\ \E bad \in SUBSET Range(provider[id].docs) :
         /\ faults + Cardinality(bad) <= MaxFaults
         /\ faults' = faults + Cardinality(bad)
         /\ provider' = Ended(id, bad)
    /\ UNCHANGED <<setting, persistent, givenUp, pc, inFlight>>

\* A job that ended is billed for the answers it has, whoever reads them.
PaidBy(id, d) ==
    /\ provider[id].status # "running"
    /\ d \in Range(provider[id].docs) \ provider[id].bad

Expire(id) ==
    /\ Expires /\ pc = "idle" /\ provider[id].status = "done"
    /\ provider' = [provider EXCEPT ![id].status = "gone"]
    /\ UNCHANGED <<setting, persistent, givenUp, pc, inFlight, faults>>

Arrive ==
    /\ Arrivals /\ pc = "idle"
    /\ \E d \in Pool \ present : present' = present \cup {d}
    /\ UNCHANGED <<processed, cache, jobs, remote, pc, inFlight, faults>>

Run ==
    \/ Begin \/ NextWindow \/ Scan \/ FlushLast \/ PublishWindow
    \/ Lookup \/ Submit \/ Persist \/ Poll \/ Timeout \/ Cancelled
    \/ Fetch \/ Clear \/ StoreItem \/ PartitionDone

Next ==
    \/ Run \/ Interrupt \/ Arrive
    \/ \E id \in DOMAIN provider : Complete(id) \/ Expire(id)

Spec == Init /\ [][Next]_vars
JobIds == UNION {1..s.maxJobs : s \in Settings}

\* The model is run again while documents are left, and the provider ends its jobs.
FairSpec ==
    /\ Spec /\ WF_vars(Run)
    /\ \A id \in JobIds : WF_vars(id \in DOMAIN provider /\ Complete(id))

-----------------------------------------------------------------------------
(* Properties.                                                             *)

\* No run is cut short between the acceptance of a job and its record, nor
\* between the removal of the record and the last cached answer.
JobsRecorded == InterruptPoints \cap {"persist", "store"} = {}

\* A document left over is cut into the same partition by the next run.
SamePartitions ==
    ~Arrivals /\ OnPartialBatch \subseteq {"fail"} /\ PartitionSize = WindowSize

\* Jobs that were not given up at their deadline.
Followed == DOMAIN provider \ givenUp

\* "The submitted work is billed exactly once", as long as its job is not given up:
\* no document is answered, and paid for, by two jobs whose records were never
\* removed at a deadline, wherever else the runs are interrupted.  So a document is
\* paid for once, and once more for each of its jobs that was given up.
BilledOnce ==
    JobsRecorded /\ SamePartitions =>
        \A a, b \in Followed : \A d \in Docs : PaidBy(a, d) /\ PaidBy(b, d) => a = b

\* An answer is cached for the document it answers, whatever job it came from.
AnswersOwnDocument == \A d \in Docs : cache[d] \in {None, d}

\* A published document has an answer of its own in the cache.
PublishedAnswered == \A d \in processed : cache[d] = d

\* Answers stay with the documents they answer, from the job to the published row.
AnswersMatch == AnswersOwnDocument /\ PublishedAnswered

\* An answer that was paid for is cached, or its own job can still be reached: by
\* this run, or by one that finds the record, unless the job was given up.  The record
\* of a job whose results are gone may be pruned, once other partitions are submitted.
PaidAnswersKept ==
    JobsRecorded /\ (Expires => SamePartitions) =>
        \A id \in Followed : \A d \in Docs :
            PaidBy(id, d) => cache[d] = d \/ id \in {job} \cup {r.id : r \in jobs}

\* Every document of the source is published in the end, whatever the faults, if
\* the provider keeps the results of its jobs.
AllPublished == []<>(Expires \/ present \subseteq processed)
=============================================================================
