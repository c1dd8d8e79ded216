-------------------------- MODULE BudgetedWorkers --------------------------
(***************************************************************************)
(* The worker threads of extraction and llm models, which ask a provider   *)
(* about one document at a time, and the budget ledgers they consult: one  *)
(* of their model and one of the invocation.  Every access to a ledger is  *)
(* one step under that ledger's lock; between two of them any other thread *)
(* may act.  Tokens stand for input tokens, output tokens and cost, whose  *)
(* caps are treated alike.                                                 *)
(***************************************************************************)
EXTENDS Integers, FiniteSets, Sequences

CONSTANTS
    Models,     \* model names, numbered in the topological order of the graph
    Kind,       \* Kind[m]: "extraction", "full" (extraction materialized in
                \* full), "llm" or "search"
    Sizes,      \* Sizes[m][d]: bytes of document d of model m
    Workers,    \* all worker threads
    Owner,      \* Owner[w]: the model whose pool thread w belongs to
    NoCap,      \* an absent budget field
    Cap,        \* Cap[l]: the LLMBudgetConfig of ledger l
    Usages,     \* what an answer may cost: records of calls and tokens
    MaxUse,     \* the most that one answer costs
    AnswersRejected \* TRUE: an answer may be rejected after it was paid for, by
                \* a post_extract hook or as malformed

Run == 0                        \* the ledger of the invocation
Ledgers == Models \cup {Run}
Fields == {"documents", "file", "bytes", "calls", "tokens"}

ASSUME ModelsAssumption == Models \subseteq Nat \ {0} /\ IsFiniteSet(Models)
ASSUME WorkersAssumption == IsFiniteSet(Workers) /\ Owner \in [Workers -> Models]
ASSUME SizesAssumption == Sizes \in [Models -> Seq(Nat)]
\* Caps are positive; the private ledger of an llm model does not exist.
ASSUME CapAssumption ==
    /\ NoCap \notin Nat
    /\ Cap \in [Ledgers -> [Fields -> (Nat \ {0}) \cup {NoCap}]]
    /\ \A m \in Models, f \in Fields : Kind[m] = "llm" => Cap[m][f] = NoCap
ASSUME UsageAssumption ==
    /\ MaxUse \in [{"calls", "tokens"} -> Nat]
    /\ Usages \subseteq [{"calls", "tokens"} -> Nat]
    /\ \A u \in Usages : u["calls"] <= MaxUse["calls"] /\ u["tokens"] <= MaxUse["tokens"]

VARIABLES
    docs,       \* docs[m][d]: what has become of document d of model m
    worker,     \* worker[w]: control point, document and usage of thread w
    spent,      \* spent[l]: the counters of ledger l
    billed      \* history: calls, tokens and bytes that really reached the provider

budgetVars == <<docs, worker, spent, billed>>

DocStates ==
    {"queued", "taken", "done", "failed", "refused", "raised", "cancelled"}
Stages ==
    {"idle", "gate", "gate_run", "bytes", "bytes_run", "call", "charge", "charge_run"}
NoUse == [f \in {"calls", "tokens"} |-> 0]
Idle == [stage |-> "idle", doc |-> 0, use |-> NoUse]
Zero == [f \in Fields |-> 0]

BudgetTypeOK ==
    /\ \A m \in Models : docs[m] \in [DOMAIN Sizes[m] -> DocStates]
    /\ DOMAIN docs = Models
    /\ worker \in [Workers -> [stage : Stages, doc : Nat, use : Usages \cup {NoUse}]]
    /\ \A w \in Workers :
        worker[w].stage # "idle" => worker[w].doc \in DOMAIN Sizes[Owner[w]]
    /\ spent \in [Ledgers -> [Fields -> Nat]]
    /\ billed \in [Ledgers -> [{"bytes", "calls", "tokens"} -> Nat]]

BudgetInit ==
    /\ docs = [m \in Models |-> [d \in DOMAIN Sizes[m] |-> "queued"]]
    /\ worker = [w \in Workers |-> Idle]
    /\ spent = [l \in Ledgers |-> Zero]
    /\ billed = [l \in Ledgers |-> [f \in {"bytes", "calls", "tokens"} |-> 0]]

-----------------------------------------------------------------------------
(* The ledger.                                                             *)

Within(l, field, value) == Cap[l][field] = NoCap \/ value <= Cap[l][field]
\* Mutant: one answer too many is let through.
HeadroomLate(l) ==
    /\ Within(l, "calls", spent[l]["calls"])
    /\ Cap[l]["tokens"] = NoCap \/ spent[l]["tokens"] <= Cap[l]["tokens"]
\* Calls are known before they are made, tokens only after the answer.
Headroom(l) ==
    /\ Within(l, "calls", spent[l]["calls"] + 1)
    /\ Cap[l]["tokens"] = NoCap \/ spent[l]["tokens"] < Cap[l]["tokens"]

\* Documents and bytes are counted first and refused afterwards; the count stays.
Count(l, field, n) == [spent EXCEPT ![l][field] = @ + n]
\* charge_usage never refuses.
Charged(l, use) ==
    [spent EXCEPT ![l]["calls"] = @ + use["calls"], ![l]["tokens"] = @ + use["tokens"]]

-----------------------------------------------------------------------------
(* One document in the hands of one thread.                                *)

At(w, stage) == worker[w].stage = stage
Size(w) == Sizes[Owner[w]][worker[w].doc]
Goto(w, stage) == worker' = [worker EXCEPT ![w].stage = stage]
Finish(w, outcome) ==
    /\ docs' = [docs EXCEPT ![Owner[w]][worker[w].doc] = outcome]
    /\ worker' = [worker EXCEPT ![w] = Idle]

Busy(m) == {w \in Workers : Owner[w] = m /\ worker[w].stage # "idle"}
Queued(m) == {d \in DOMAIN Sizes[m] : docs[m][d] = "queued"}
Pool(m) == {w \in Workers : Owner[w] = m}

\* A free thread takes the next document.  Without a pool an extraction model
\* stops at the first refusal by itself.
Take(w) ==
    LET m == Owner[w]
    IN /\ At(w, "idle")
       /\ Kind[m] # "llm" /\ Pool(m) = {w} =>
            \A d \in DOMAIN Sizes[m] : docs[m][d] # "refused"
       /\ \E d \in Queued(m) :
            /\ \A e \in Queued(m) : d <= e
            /\ docs' = [docs EXCEPT ![m][d] = "taken"]
            /\ worker' = [worker EXCEPT ![w] = [stage |-> "gate", doc |-> d, use |-> NoUse]]
       /\ UNCHANGED <<spent, billed>>

Gate(w, stage, l, next) ==
    /\ At(w, stage)
    /\ IF Headroom(l) THEN Goto(w, next) /\ UNCHANGED docs ELSE Finish(w, "refused")
    /\ UNCHANGED <<spent, billed>>

GateModel(w) == Gate(w, "gate", Owner[w], "gate_run")
\* Only extraction models count bytes.
GateRun(w) ==
    Gate(w, "gate_run", Run, IF Kind[Owner[w]] = "llm" THEN "call" ELSE "bytes")

\* The document is fetched; check_file_bytes asks both ledgers before
\* charge_bytes counts in the first.
Send(m, n) ==
    billed' = [l \in Ledgers |->
        IF l \in {m, Run} THEN [billed[l] EXCEPT !["bytes"] = @ + n] ELSE billed[l]]
BytesModel(w) ==
    LET m == Owner[w]
        small == \A l \in {m, Run} : Within(l, "file", Size(w))
    IN /\ At(w, "bytes")
       /\ spent' = IF small THEN Count(m, "bytes", Size(w)) ELSE spent
       /\ IF small /\ Within(m, "bytes", spent'[m]["bytes"])
          THEN Goto(w, "bytes_run") /\ UNCHANGED docs
          ELSE Finish(w, "refused")
       /\ UNCHANGED billed

\* Mutant: what was counted before is compared.
BytesRunLate(w) ==
    /\ At(w, "bytes_run")
    /\ spent' = Count(Run, "bytes", Size(w))
    /\ IF Within(Run, "bytes", spent[Run]["bytes"])
       THEN Goto(w, "call") /\ Send(Owner[w], Size(w)) /\ UNCHANGED docs
       ELSE Finish(w, "refused") /\ UNCHANGED billed

BytesRun(w) ==
    /\ At(w, "bytes_run")
    /\ spent' = Count(Run, "bytes", Size(w))
    /\ IF Within(Run, "bytes", spent'[Run]["bytes"])
       THEN Goto(w, "call") /\ Send(Owner[w], Size(w)) /\ UNCHANGED docs
       ELSE Finish(w, "refused") /\ UNCHANGED billed

Bill(m, use) ==
    billed' = [l \in Ledgers |->
        IF l \in {m, Run}
        THEN [billed[l] EXCEPT !["calls"] = @ + use["calls"], !["tokens"] = @ + use["tokens"]]
        ELSE billed[l]]

\* Mutant: an outcome that nobody handles.
FailureUnknown(w) == "error"
\* An extraction model goes on without the document, an llm model does not.
Failure(w) == IF Kind[Owner[w]] = "llm" THEN "raised" ELSE "failed"

\* The provider answers, or the cache does for nothing.
Answer(w) ==
    /\ At(w, "call")
    /\ \E use \in Usages :
        /\ Bill(Owner[w], use)
        /\ \/ /\ worker' = [worker EXCEPT ![w].stage = "charge", ![w].use = use]
              /\ UNCHANGED docs
           \/ AnswersRejected /\ Finish(w, Failure(w))
    /\ UNCHANGED spent

\* The fetch or the provider fails.
Fail(w) ==
    /\ worker[w].stage \in {"bytes", "call"}
    /\ Finish(w, Failure(w))
    /\ UNCHANGED <<spent, billed>>

ChargeModel(w) ==
    /\ At(w, "charge")
    /\ spent' = Charged(Owner[w], worker[w].use)
    /\ Goto(w, "charge_run")
    /\ UNCHANGED <<docs, billed>>
\* Mutant: the usage never reaches the ledger of the run.
ChargeNothing(w) ==
    /\ At(w, "charge_run")
    /\ Finish(w, "done")
    /\ UNCHANGED <<spent, billed>>
ChargeRun(w) ==
    /\ At(w, "charge_run")
    /\ spent' = Charged(Run, worker[w].use)
    /\ Finish(w, "done")
    /\ UNCHANGED billed

Work(w) ==
    \/ GateModel(w) \/ GateRun(w) \/ BytesModel(w) \/ BytesRun(w)
    \/ Answer(w) \/ Fail(w) \/ ChargeModel(w) \/ ChargeRun(w)

-----------------------------------------------------------------------------
(* Properties.                                                             *)

\* Threads whose answers ledger l pays for.
Payers(l) == {w \in Workers : l \in {Owner[w], Run}}

\* budget.py: what is spent can pass a cap on calls or tokens, because threads
\* are let through before any of them is charged, but by less than one answer
\* for each thread that uses the ledger.
SpendBounded ==
    \A l \in Ledgers, f \in {"calls", "tokens"} :
        Cap[l][f] # NoCap =>
            spent[l][f] <= Cap[l][f] - 1 + MaxUse[f] * Cardinality(Payers(l))

\* Bytes are counted before the call: what is sent never passes the cap.
SentBounded ==
    \A l \in Ledgers : Within(l, "bytes", billed[l]["bytes"])

\* Every answer is charged once to both ledgers: when no thread is at work, the
\* counters are what the provider billed.
LedgerExact ==
    (\A w \in Workers : At(w, "idle")) =>
        \A l \in Ledgers, f \in {"calls", "tokens"} : spent[l][f] = billed[l][f]

\* What is sent and what is paid is known: the counters of a ledger never lag behind.
SpendingKnown == SentBounded /\ LedgerExact
=============================================================================
