----------------------------- MODULE ProviderCalls -----------------------------
(***************************************************************************)
(* One call of an inference or embedding provider (providers/): how it is  *)
(* split into wire requests, which failures are tried again, what becomes  *)
(* of an answer that is rejected after it was billed, and how the items of *)
(* a batch find their requests.  The service answers as it likes.          *)
(***************************************************************************)
EXTENDS Integers, Sequences, FiniteSets, SequencesExt

CONSTANTS
    Calls,       \* the calls made: [via, ids, retries]
    PerRequest   \* inputs a Vertex embedding request takes (1 or 5)

Vias == {"anthropic", "vertex", "vllm", "vertex_embed", "sequential", "native"}

(* complete takes one request; the ids of a batch are unique, which        *)
(* _validate_batch_call checks.                                            *)
ASSUME CallsAssumption ==
    /\ PerRequest \in Nat \ {0}
    /\ \A c \in Calls :
          /\ c.via \in Vias /\ c.retries \in Nat
          /\ c.ids \in Seq(Range(c.ids)) /\ Len(c.ids) > 0
          /\ c.via \in {"anthropic", "vertex", "vllm"} => Len(c.ids) = 1
          /\ c.via \in {"sequential", "native"} => IsInjective(c.ids)

VARIABLES
    asked,    \* the call: a member of Calls
    at,       \* "send", "submit", "poll", "fetch" or "end"
    todo,     \* wire requests still to send: the inputs of each
    attempt,  \* attempts spent on the first of them
    got,      \* items so far: [id, answer, billed]; a billed item carries one token
    outcome,  \* "none", "result", "rejected", "failed" or "batch_error"
    usage,    \* tokens reported with the outcome
    charged,  \* history: tokens the service says it charged
    silent    \* history: a charge that no error of this call carries

callVars == <<asked, at, todo, attempt, got, outcome, usage, charged, silent>>

\* _split_requests of the Vertex embedding provider.
SplitRequests(ids) ==
    [k \in 1..((Len(ids) + PerRequest - 1) \div PerRequest) |->
        SubSeq(ids, (k - 1) * PerRequest + 1,
               IF k * PerRequest < Len(ids) THEN k * PerRequest ELSE Len(ids))]

OneEach(ids) == [k \in DOMAIN ids |-> <<ids[k]>>]

CallInit ==
    /\ asked \in Calls
    /\ at = IF asked.via = "native" THEN "submit" ELSE "send"
    /\ todo = CASE asked.via = "vertex_embed" -> SplitRequests(asked.ids)
                [] asked.via = "native" -> <<asked.ids>>
                [] OTHER -> OneEach(asked.ids)
    /\ attempt = 1 /\ got = <<>> /\ outcome = "none"
    /\ usage = 0 /\ charged = 0 /\ silent = FALSE

Reported(items) == Cardinality({k \in DOMAIN items : items[k].billed})

End(what, tokens) ==
    /\ at' = "end" /\ outcome' = what /\ usage' = tokens
    /\ UNCHANGED <<asked, todo, attempt>>

\* The next wire request, or the end of the call.
NextRequest(items) ==
    /\ got' = items
    /\ IF Len(todo) = 1
       THEN End("result", Reported(items))
       ELSE /\ todo' = Tail(todo) /\ attempt' = 1
            /\ UNCHANGED <<asked, at, outcome, usage>>

\* An answer in order: its parts belong to the inputs of the request, and its
\* usage is read (required of a completion, summed over an embedding's parts).
Accepted ==
    /\ at = "send"
    /\ charged' = charged + 1
    /\ NextRequest(got \o [k \in DOMAIN Head(todo) |->
                        [id |-> Head(todo)[k], answer |-> Head(todo)[k],
                         billed |-> k = 1]])
    /\ UNCHANGED silent

\* Mutant: the usage of a rejected answer is dropped with it.
NoUsageKept(metered) == 0

\* _with_billed_failure, _with_billed_inference_failure: the usage that the answer
\* carries goes with the error; of an embedding also that of the requests before.
BilledFailure(metered) ==
    (IF metered THEN 1 ELSE 0) + (IF asked.via = "vertex_embed" THEN Reported(got) ELSE 0)

\* Truncated, malformed, blocked, without usage: an answer that cannot be used.
Rejected ==
    /\ at = "send"
    /\ \E metered \in BOOLEAN :
          /\ charged' = charged + (IF metered THEN 1 ELSE 0)
          /\ CASE asked.via \in {"anthropic", "vertex", "vertex_embed"} ->
                     End("rejected", BilledFailure(metered)) /\ UNCHANGED <<got, silent>>
               [] asked.via = "vllm" ->
                     \* _parse_response attaches nothing
                     End("rejected", 0) /\ silent' = (silent \/ metered) /\ UNCHANGED got
               [] asked.via = "sequential" ->
                     \* complete_batch over Vertex: the error of one item, then the next
                     NextRequest(Append(got, [id |-> Head(Head(todo)), answer |-> "error",
                                          billed |-> BilledFailure(metered) > 0]))
                     /\ UNCHANGED silent

\* The vectors of all requests, or of the only one, do not make a result: another
\* size, another model, other ids.  This error carries no usage.
VectorsDisagree ==
    /\ at = "send" /\ asked.via = "vertex_embed" /\ Len(todo) = 1
    /\ charged' = charged + 1 /\ silent' = TRUE
    /\ End("rejected", 0) /\ UNCHANGED got

\* Mutant: one attempt too many.
RetriesOnceMore(n) == n <= asked.retries + 1
MayRetry(n) == n <= asked.retries

\* RETRYABLE_HTTP_STATUSES, a timeout, the network: tried again, after a pause, by
\* the loop of _complete_with_http or by the SDK that was given max_retries.
Transient ==
    /\ at = "send" /\ MayRetry(attempt)
    /\ attempt' = attempt + 1
    /\ UNCHANGED <<asked, at, todo, got, outcome, usage, charged, silent>>

\* A failure that is not worth a retry, or the last attempt's: no usage comes with
\* it, and an embedding loses what its earlier requests reported.
Unanswered ==
    /\ at = "send"
    /\ UNCHANGED charged
    /\ IF asked.via = "sequential"
       THEN /\ NextRequest(Append(got, [id |-> Head(Head(todo)), answer |-> "error", billed |-> FALSE]))
            /\ UNCHANGED silent
       ELSE End("failed", 0) /\ silent' = (silent \/ Reported(got) > 0) /\ UNCHANGED got

------------------------------------------------------------------------------
(* A native batch: complete_batch over submit, poll and fetch.             *)

BatchFails ==
    /\ at \in {"submit", "poll", "fetch"}
    /\ End("batch_error", 0) /\ UNCHANGED <<got, charged, silent>>

SubmitBatch ==
    /\ at = "submit" /\ at' = "poll"
    /\ UNCHANGED <<asked, todo, attempt, got, outcome, usage, charged, silent>>

PollBatch ==
    /\ at = "poll" /\ at' = "fetch"
    /\ UNCHANGED <<asked, todo, attempt, got, outcome, usage, charged, silent>>

\* What the service may list: any order, ids twice, missing or unknown; an item
\* succeeded, failed, or succeeded with an answer that cannot be used.
RawItems ==
    LET ids == ToSet(asked.ids) \cup {"unknown"}
    IN  UNION {[1..n -> [id : ids, type : {"ok", "errored", "unusable"}, metered : BOOLEAN]]
                 : n \in 0..Len(asked.ids)}

\* _normalize_batch_results refuses the listing.
Misaligned(raw) ==
    \/ \E i \in DOMAIN raw : raw[i].id \notin ToSet(asked.ids)
    \/ \E i, j \in DOMAIN raw : i # j /\ raw[i].id = raw[j].id

\* Mutant: answers are taken in the order they are listed.
ItemByPlace(raw, k) ==
    IF k \notin DOMAIN raw \/ raw[k].type # "ok" \/ ~raw[k].metered
    THEN [id |-> asked.ids[k], answer |-> "error", billed |-> FALSE]
    ELSE [id |-> asked.ids[k], answer |-> raw[k].id, billed |-> TRUE]

\* The item of a request: its own answer, or an error; an unusable answer keeps its
\* usage on the error, an answer without usage cannot be used.
ItemOf(raw, k) ==
    LET own == {i \in DOMAIN raw : raw[i].id = asked.ids[k]}
    IN  IF own = {} THEN [id |-> asked.ids[k], answer |-> "error", billed |-> FALSE]
        ELSE LET r == raw[CHOOSE i \in own : TRUE]
             IN  [id |-> r.id,
                  answer |-> IF r.type = "ok" /\ r.metered THEN r.id ELSE "error",
                  billed |-> r.type # "errored" /\ r.metered]

\* validate_batch_result: one item for every request.
OneToOne(items) ==
    /\ {items[i].id : i \in DOMAIN items} = ToSet(asked.ids)
    /\ Len(items) = Len(asked.ids)

FetchBatch ==
    /\ at = "fetch"
    /\ \E raw \in RawItems :
          LET items == [k \in DOMAIN asked.ids |-> ItemOf(raw, k)]
              metered == {i \in DOMAIN raw : raw[i].type # "errored" /\ raw[i].metered}
          IN  IF Misaligned(raw) \/ ~OneToOne(items)
              THEN /\ End("batch_error", 0)
                   /\ charged' = charged + Cardinality(metered)
                   /\ silent' = (metered # {}) /\ UNCHANGED got
              ELSE /\ charged' = charged + Cardinality(metered)
                   /\ got' = items /\ UNCHANGED silent
                   /\ End("result", Reported(items))

CallNext ==
    \/ Accepted \/ Rejected \/ VectorsDisagree \/ Transient \/ Unanswered
    \/ SubmitBatch \/ PollBatch \/ FetchBatch \/ BatchFails

CallSpec == CallInit /\ [][CallNext]_callVars

------------------------------------------------------------------------------
(* Properties.                                                             *)

\* Whatever a call comes to, the run learns of every token the service charged for
\* it, results and rejected answers alike (base.py:454-470, anthropic.py:483-506,
\* vertex.py:576-593, 747-770); "silent" marks the calls whose provider has no such
\* path: vLLM, an embedding cut off between two of its requests or of vectors that
\* do not fit each other, a batch listing that is refused whole.
ChargesReported == at = "end" /\ ~silent => usage = charged

\* A result has one item per input, in the order asked; an item answers its own
\* input or is an error; and no wire request is attempted more often than
\* max_retries allows (base.py:1123-1184, vllm.py:150-164, vertex.py:654-670).
AnswersFitRequests ==
    /\ outcome = "result" =>
          /\ [k \in DOMAIN got |-> got[k].id] = asked.ids
          /\ \A k \in DOMAIN got : got[k].answer \in {got[k].id, "error"}
    /\ attempt <= asked.retries + 1

\* Calls of the providers are charged as they were reported, answers belong to their requests.
CallsAccounted == ChargesReported /\ AnswersFitRequests
==============================================================================
