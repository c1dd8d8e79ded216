---------------------------- MODULE ProjectRun ----------------------------
(***************************************************************************)
(* One invocation of `stel run` or `stel build`: models one after the      *)
(* other, or, with --threads, the topological generations of the graph     *)
(* one after the other and the models of a generation in threads that      *)
(* share one warehouse connection behind a lock.                           *)
(***************************************************************************)
EXTENDS BudgetedWorkers

CONSTANTS
    Parents,        \* Parents[m]: the models that m reads
    Modes,          \* of "run", "threaded" (run with threads) and "build"
    Threads,        \* --threads
    ThreadedSearch  \* TRUE: search models may be run with threads

ASSUME GraphAssumption ==
    /\ Parents \in [Models -> SUBSET Models]
    /\ \A m \in Models : \A p \in Parents[m] : p < m
ASSUME ModesAssumption ==
    Modes \subseteq {"run", "threaded", "build"} /\ Threads \in Nat \ {0}

VARIABLES
    mode, selected,
    pc,         \* pc[m]: control point of model m, and its outcome
    batch,      \* threaded: the generation being run
    lock,       \* threaded: the model that holds the connection, or Run
    blocked,    \* build: models that will be skipped
    published,  \* models whose table this run replaced or extended
    aborted     \* run_project or build_project raised

runVars == <<mode, selected, pc, batch, lock, blocked, published, aborted>>
vars == <<budgetVars, runVars>>

\* "raised": a RunError of _run_model, the only exception that build_project catches;
\* "escaped": another one, a warehouse error of a read, of the state or of a test.
\* "rejected": ran, but its tests failed hard.
Exceptions == {"raised", "escaped"}
Outcomes == {"ok", "errors", "rejected"} \cup Exceptions
Ended == Outcomes \cup {"skipped"}
Active == {"read", "count", "stage", "work", "drain", "inside"}

TypeOK ==
    /\ BudgetTypeOK
    /\ mode \in {"run", "threaded", "build"}
    /\ selected \subseteq Models
    /\ pc \in [Models -> {"waiting"} \cup Active \cup Ended]
    /\ batch \subseteq selected
    /\ lock \in Ledgers
    /\ blocked \subseteq Models /\ published \subseteq selected
    /\ aborted \in BOOLEAN

Init ==
    /\ BudgetInit
    /\ mode \in Modes
    /\ selected \in SUBSET Models
    /\ mode = "threaded" =>
        /\ Cardinality(selected) > 1
        /\ ThreadedSearch \/ \A m \in selected : Kind[m] # "search"
    /\ pc = [m \in Models |-> "waiting"]
    /\ batch = {} /\ lock = Run /\ blocked = {} /\ published = {} /\ aborted = FALSE

-----------------------------------------------------------------------------
(* The graph.                                                              *)

Ancestors[m \in Models] == Parents[m] \cup UNION {Ancestors[p] : p \in Parents[m]}
\* Mutant: only the next models are blocked.
Successors(m) == {x \in Models : m \in Parents[x]}
Descendants(m) == {x \in Models : m \in Ancestors[x]}

Waiting == {m \in selected : pc[m] = "waiting"}
Running == {m \in selected : pc[m] \in Active}
First(set, m) == m \in set /\ \A x \in set : m <= x

\* parallel_batches: what depends on nothing selected that has not ended.
Ready == {m \in Waiting : Parents[m] \cap Waiting = {}}

\* Mutant: the generations are not waited for.
NextBatchEager ==
    /\ mode = "threaded" /\ ~aborted
    /\ Waiting # {} /\ batch \cap Waiting = {}
    /\ batch' = batch \cup Ready
    /\ UNCHANGED <<budgetVars, mode, selected, pc, lock, blocked, published, aborted>>
\* The next generation, once the last one has ended; an exception of one of its
\* models is raised after all of them ended.
NextBatch ==
    /\ mode = "threaded" /\ ~aborted
    /\ \A m \in batch : pc[m] \in Ended
    /\ Waiting # {}
    /\ IF \E m \in batch : pc[m] \in Exceptions
       THEN aborted' = TRUE /\ UNCHANGED batch
       ELSE batch' = Ready /\ UNCHANGED aborted
    /\ UNCHANGED <<budgetVars, mode, selected, pc, lock, blocked, published>>

MayStart(m) ==
    /\ ~aborted
    /\ IF mode = "threaded"
       THEN First(batch \cap Waiting, m) /\ Cardinality(Running) < Threads
       ELSE First(Waiting, m) /\ Running = {}

Start(m) ==
    /\ MayStart(m) /\ m \notin blocked
    /\ pc' = [pc EXCEPT ![m] = "read"]
    /\ UNCHANGED <<budgetVars, mode, selected, batch, lock, blocked, published, aborted>>

Skip(m) ==
    /\ MayStart(m) /\ m \in blocked
    /\ pc' = [pc EXCEPT ![m] = "skipped"]
    /\ UNCHANGED <<budgetVars, mode, selected, batch, lock, blocked, published, aborted>>

-----------------------------------------------------------------------------
(* One model.                                                              *)

\* _SerializedAdapter: a call waits for the lock, which knows no owner.
CallAdapter == lock = Run
Hold(m) == lock' = IF mode = "threaded" THEN m ELSE lock
\* Mutant: the lock stays with a model that failed.
ReleaseOnSuccess(m) == lock' = IF lock = m /\ pc'[m] = "ok" THEN Run ELSE lock
Release(m) == lock' = IF lock = m THEN Run ELSE lock

\* The end of a model; `build` blocks what depends on a failure and stops at an exception
\* that is no RunError, `run` without threads stops at every exception.
End(m, outcome) ==
    /\ pc' = [pc EXCEPT ![m] = outcome]
    /\ blocked' = IF mode = "build" /\ outcome # "ok" THEN blocked \cup Descendants(m) ELSE blocked
    /\ aborted' = \/ aborted
                  \/ mode = "run" /\ outcome \in Exceptions
                  \/ mode = "build" /\ outcome = "escaped"
    /\ Release(m)
    /\ UNCHANGED <<mode, selected, batch>>

\* The state and the tables are read; a search model opens its snapshot and
\* keeps the connection while it is open.
Read(m) ==
    /\ pc[m] = "read" /\ CallAdapter
    /\ \/ /\ pc' = [pc EXCEPT ![m] = IF Kind[m] = "search" THEN "inside" ELSE "count"]
          /\ IF Kind[m] = "search" THEN Hold(m) ELSE UNCHANGED lock
          /\ UNCHANGED <<mode, selected, batch, blocked, aborted>>
       \/ \E exception \in Exceptions : End(m, exception)
    /\ UNCHANGED <<budgetVars, published>>

\* charge_documents, first the model's ledger, then the run's.
CountDocuments(m) ==
    LET n == Cardinality(DOMAIN Sizes[m])
        ofModel == spent[m]["documents"] + n
        ofRun == spent[Run]["documents"] + n
        fits == n = 0 \/ Within(m, "documents", ofModel)
    IN /\ pc[m] = "count"
       /\ spent' = IF fits
                   THEN [spent EXCEPT ![m]["documents"] = ofModel, ![Run]["documents"] = ofRun]
                   ELSE Count(m, "documents", n)
       /\ IF fits /\ (n = 0 \/ Within(Run, "documents", ofRun))
          THEN /\ pc' = [pc EXCEPT ![m] = IF Kind[m] = "full" THEN "stage" ELSE "work"]
               /\ UNCHANGED <<mode, selected, batch, lock, blocked, aborted>>
          ELSE End(m, "errors")
       /\ UNCHANGED <<docs, worker, billed, published>>

\* materialize_full_chunks keeps the connection while it draws the documents.
Stage(m) ==
    /\ pc[m] = "stage" /\ CallAdapter
    /\ Hold(m)
    /\ pc' = [pc EXCEPT ![m] = "work"]
    /\ UNCHANGED <<budgetVars, mode, selected, batch, blocked, published, aborted>>

Worker(w) ==
    /\ pc[Owner[w]] \in {"work", "drain"}
    /\ (pc[Owner[w]] = "work" /\ Take(w)) \/ Work(w)
    /\ UNCHANGED runVars

\* The first document, in order, whose thread raised.
Culprits(m) ==
    {d \in DOMAIN Sizes[m] :
        /\ docs[m][d] \in {"refused", "raised"}
        /\ \A e \in DOMAIN Sizes[m] : e < d => docs[m][e] \in {"done", "failed"}}

\* The exception cancels what no thread has taken.
Drain(m) ==
    /\ pc[m] = "work" /\ Culprits(m) # {}
    /\ docs' = [docs EXCEPT ![m] =
            [d \in DOMAIN Sizes[m] |-> IF @[d] = "queued" THEN "cancelled" ELSE @[d]]]
    /\ pc' = [pc EXCEPT ![m] = "drain"]
    /\ UNCHANGED <<worker, spent, billed, mode, selected, batch, lock, blocked, published, aborted>>

\* The pool waits for its threads; a spent budget is a result, a failed llm
\* document an exception.
GiveUp(m) ==
    /\ pc[m] = "drain" /\ Busy(m) = {}
    /\ \E d \in Culprits(m) : End(m, IF docs[m][d] = "refused" THEN "errors" ELSE "raised")
    /\ UNCHANGED <<budgetVars, published>>

Failures(m) == {d \in DOMAIN Sizes[m] : docs[m][d] = "failed"}
\* Mutant: the rows at hand are published as soon as no thread is at work.
NobodyBusy(m) == Busy(m) = {}
Extracted(m) == \A d \in DOMAIN Sizes[m] : docs[m][d] \in {"done", "failed"}

\* An incremental model without new rows leaves its table alone.
Written(m) ==
    IF Kind[m] = "extraction" /\ \A d \in DOMAIN Sizes[m] : docs[m][d] # "done"
    THEN {} ELSE {m}
\* Rows and state are written, unless the warehouse fails before or after the rows are
\* there; a full table is left alone when a document failed.  A build runs the tests of the
\* model.
Publish(m) ==
    /\ pc[m] = "work" /\ Extracted(m)
    /\ lock \in {Run, m}
    /\ \/ /\ Kind[m] = "full" /\ Failures(m) # {}
          /\ End(m, "errors") /\ UNCHANGED published
       \/ /\ Kind[m] # "full" \/ Failures(m) = {}
          /\ published' = published \cup Written(m)
          /\ \E outcome \in Exceptions \cup
                               IF Failures(m) # {} THEN {"errors"}
                               ELSE IF mode = "build" THEN {"ok", "rejected"} ELSE {"ok"} :
                End(m, outcome)
       \/ \E exception \in Exceptions : End(m, exception) /\ UNCHANGED published
    /\ UNCHANGED budgetVars

\* Inside its snapshot a search model calls the coordinator, the reconciler and
\* the state table.
PublishIndex(m) ==
    /\ pc[m] = "inside" /\ CallAdapter
    /\ \/ End(m, "ok") /\ published' = published \cup {m}
       \/ /\ \E exception \in Exceptions : End(m, exception)
          /\ published' \in {published, published \cup {m}}
    /\ UNCHANGED budgetVars

Model(m) ==
    \/ Start(m) \/ Skip(m) \/ Read(m) \/ CountDocuments(m) \/ Stage(m)
    \/ Drain(m) \/ GiveUp(m) \/ Publish(m) \/ PublishIndex(m)

Over == aborted \/ Waiting \cup Running = {}

Next ==
    \/ NextBatch
    \/ \E m \in selected : Model(m)
    \/ \E w \in Workers : Worker(w)

Spec == Init /\ [][Next]_vars
\* Every thread is scheduled.
FairSpec ==
    /\ Spec /\ WF_vars(NextBatch)
    /\ \A m \in Models : WF_vars(Model(m))
    /\ \A w \in Workers : WF_vars(Worker(w))

-----------------------------------------------------------------------------
(* Properties.                                                             *)

\* dag.py: "every batch depends only on earlier ones".  A model reads the tables
\* of its selected parents after they ended.
ParentsFirst ==
    \A m \in Running : \A p \in Parents[m] \cap selected : pc[p] \in Ended

\* "A model whose run errors or whose tests hard-fail blocks all its
\* descendants, which are reported as skipped": in a build nothing runs below a
\* failure, and nothing else is skipped.  An exception that is no RunError ends the
\* build, and its descendants are not reported (runner.py:433).
BlocksDescendants ==
    mode = "build" =>
        \A m \in selected :
            LET failed == {a \in Ancestors[m] \cap selected : pc[a] \in Outcomes \ {"ok"}}
            IN /\ pc[m] \in Active \cup Outcomes => failed = {}
               /\ pc[m] = "skipped" => failed # {}

\* "full materializations publish nothing" when the budget trips, and an llm
\* model writes once at the end: their tables are written with every document
\* or not at all, and no thread works for them any more.
AllOrNothing ==
    \A m \in published :
        /\ Kind[m] \in {"full", "llm"} => \A d \in DOMAIN Sizes[m] : docs[m][d] = "done"
        /\ Busy(m) = {}

\* An invocation comes to its end.
Ends == <>Over
=============================================================================
