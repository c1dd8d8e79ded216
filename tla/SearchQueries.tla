----------------------------- MODULE SearchQueries -----------------------------
(***************************************************************************)
(* A search from the request to its results (search.py) over a LanceDB     *)
(* collection, and the evaluation of golden queries (retrieval_metrics.py, *)
(* retrieval_eval.py).  A collection is a sequence of rows [id, values];   *)
(* `order` gives, for the vector and for each text field, the ids in the   *)
(* order of their distance or score.  Ranks are fused as fractions.        *)
(***************************************************************************)
EXTENDS Integers, Sequences, FiniteSets, SequencesExt, FiniteSetsExt

Null == 1000        \* a column without a value
Refused == [refused |-> TRUE, rows |-> <<>>, included |-> {}]

First(seq, n) == SubSeq(seq, 1, IF Len(seq) < n THEN Len(seq) ELSE n)
Unique(seq) ==      \* the first of each
    FoldLeft(LAMBDA kept, x : IF x \in ToSet(kept) THEN kept ELSE Append(kept, x), <<>>, seq)

------------------------------------------------------------------------------
(* Configuration and request.                                              *)

PolicyFields(index) ==
    {a \in DOMAIN index.attributes : index.attributes[a].role \in {"policy", "user_and_policy"}}
UserFields(index) ==
    {a \in DOMAIN index.attributes : index.attributes[a].role \in {"user", "user_and_policy"}}

\* SearchConfig._validate_contract.
ValidIndex(index) ==
    /\ index.texts # {} /\ index.returned \subseteq index.texts
    /\ ToSet(index.fullText) \subseteq index.texts
    /\ index.modes \cap {"vector", "hybrid"} # {} => index.dimensions > 0
    /\ index.modes \cap {"text", "hybrid"} # {} => index.fullText # <<>>
    /\ index.access = "public" <=> PolicyFields(index) = {}

\* SearchRequest.__post_init__: `query` says whether a text is given, a vector of
\* dimension 0 stands for none, `candidates` 0 for none.
ValidRequest(request) ==
    /\ request.limit \in 1..1000
    /\ request.candidates # 0 => request.candidates \in request.limit..1000

\* The filters of a request that the index does not allow.
Misfiltered(index, filters) ==
    \/ \E i \in DOMAIN filters :
          \/ filters[i].field \notin UserFields(index)
          \/ /\ filters[i].test \notin {"eq", "ne", "in"}
             /\ index.attributes[filters[i].field].type \in {"boolean", "array[string]"}

\* Mutant: one policy attribute that is constrained is enough.
SomePolicyEnough(index, policy) ==
    \/ policy = <<>>
    \/ \E i \in DOMAIN policy : policy[i].field \notin PolicyFields(index)

\* _resolve_policy_predicates: every policy attribute, and nothing else, is constrained.
PolicyIncomplete(index, policy) ==
    \/ policy = <<>>
    \/ {policy[i].field : i \in DOMAIN policy} # PolicyFields(index)

\* _validate_capabilities and _resolve_query_vector: the request lacks what its mode
\* needs, or its vector does not fit the index.
Unanswerable(index, request) ==
    \/ request.mode \in {"text", "hybrid"} /\ ~request.query
    \/ request.mode = "vector" /\ request.vector = 0 /\ ~request.query
    \/ request.mode # "text" /\ request.vector \notin {0, index.dimensions}

\* search: what is refused before the store is read.
RefusedRequest(index, request, policy) ==
    \/ request.mode \notin index.modes
    \/ Unanswerable(index, request)
    \/ IF index.access = "governed" THEN PolicyIncomplete(index, policy) ELSE policy # <<>>
    \/ Misfiltered(index, request.filters)
    \/ ~(ToSet(request.fields) \subseteq index.declared)

\* _resolve_result_fields.
Included(index, request) ==
    IF request.fields = <<>> THEN index.declared
    ELSE (ToSet(request.fields) \cup index.identity) \cap index.declared

CandidateLimit(request) ==
    IF request.candidates # 0 THEN request.candidates
    ELSE Min({Max({4 * request.limit, 50}), 1000})

------------------------------------------------------------------------------
(* The store.                                                              *)

\* _compile_predicates, and what SQL makes of NULL.
Satisfies(row, p) ==
    LET v == row.values[p.field]
    IN  /\ v # Null
        /\ CASE p.test = "eq" -> v = p.value
             [] p.test = "ne" -> v # p.value
             [] p.test = "lt" -> v < p.value
             [] p.test = "ge" -> v >= p.value
             [] p.test = "in" -> v \in p.value
Allowed(rows, predicates) ==
    {i \in DOMAIN rows : \A k \in DOMAIN predicates : Satisfies(rows[i], predicates[k])}

\* vector_search and text_search: prefilter, then limit; _rank_table keeps the first
\* of two rows with one id.
Ranked(rows, order, predicates, limit) ==
    Unique(First(SelectSeq(order, LAMBDA id : \E i \in Allowed(rows, predicates) : rows[i].id = id),
                 limit))

------------------------------------------------------------------------------
(* Fusion.                                                                 *)

RankOf(list, id) == CHOOSE k \in DOMAIN list : list[k] = id
Scale == 61 * 62 * 63 * 64      \* lists are of at most four rows

\* _rrf of a sequence of lists: ids by the sum of 1 / (60 + rank), then by id.
Score(lists, id) ==
    MapThenSumSet(LAMBDA k : Scale \div (60 + RankOf(lists[k], id)),
                  {k \in DOMAIN lists : id \in ToSet(lists[k])})
Fuse(lists) ==
    SortSeq(SetToSeq(UNION {ToSet(lists[k]) : k \in DOMAIN lists}),
            LAMBDA a, b : \/ Score(lists, a) > Score(lists, b)
                          \/ Score(lists, a) = Score(lists, b) /\ a < b)

\* _execute_query.
Execute(index, request, rows, order, predicates) ==
    LET limit == CandidateLimit(request)
        near == Ranked(rows, order.vector, predicates, limit)
        texts == [k \in DOMAIN index.fullText |->
                     Ranked(rows, order.text[index.fullText[k]], predicates, limit)]
        text == IF Len(texts) = 1 THEN texts[1] ELSE Fuse(texts)
    IN  CASE request.mode = "vector" -> near
          [] request.mode = "text" -> text
          [] request.mode = "hybrid" -> Fuse(<<near, text>>)

\* search.
Search(index, request, policy, rows, order) ==
    IF RefusedRequest(index, request, policy) THEN Refused
    ELSE [refused |-> FALSE, included |-> Included(index, request),
          rows |-> First(Execute(index, request, rows, order, policy \o request.filters),
                         request.limit)]

------------------------------------------------------------------------------
(* Evaluation of golden queries.                                           *)

HitsAt(ranked, relevant, k) == ToSet(First(ranked, k)) \cap relevant
\* Metrics as fractions <<numerator, denominator>>.
Recall(ranked, relevant, k) == <<Cardinality(HitsAt(ranked, relevant, k)), Cardinality(relevant)>>
Precision(ranked, relevant, k) ==
    IF ranked = <<>> THEN <<0, 1>>
    ELSE <<Cardinality({i \in DOMAIN First(ranked, k) : ranked[i] \in relevant}), Len(First(ranked, k))>>
ReciprocalRank(ranked, relevant, k) ==
    LET found == {i \in DOMAIN First(ranked, k) : ranked[i] \in relevant}
    IN  IF found = {} THEN <<0, 1>> ELSE <<1, Min(found)>>

\* 1000 / log2(position + 1).
Discount == <<1000, 631, 500, 431>>
Gain(ranked, grades, k) ==
    MapThenSumSet(LAMBDA i : Discount[i] * grades[ranked[i]],
                  {i \in DOMAIN First(ranked, k) : ranked[i] \in DOMAIN grades})
Ideal(grades) == SortSeq(SetToSeq(DOMAIN grades), LAMBDA a, b : grades[a] > grades[b])
DiscountedGain(ranked, grades, k) == <<Gain(ranked, grades, k), Gain(Ideal(grades), grades, k)>>

\* evaluate_query: without grades every relevant id has grade 1; grades that are all
\* zero end the whole evaluation.
Grades(query) ==
    IF query.grades = <<>> THEN [id \in query.relevant |-> 1] ELSE query.grades
EvaluateQuery(query, ranked, k) ==
    IF query.relevant = {} THEN "no_relevant_labels"
    ELSE IF \A id \in DOMAIN Grades(query) : Grades(query)[id] = 0 THEN "error"
    ELSE IF ranked = <<>> THEN "empty_results" ELSE "ok"

\* _run_one: required and excluded ids, beside the mean recall of the scored queries.
Violations(queries, answers) ==
    {i \in DOMAIN queries : \/ queries[i].required \ ToSet(answers[i]) # {}
                            \/ queries[i].excluded \cap ToSet(answers[i]) # {}}
Scored(queries) == {i \in DOMAIN queries : queries[i].relevant # {}}

\* aggregate_metrics and _evaluate_thresholds on recall@k, in percent; no scored query
\* makes the mean 0.
MeetsRecall(queries, answers, k, percent) ==
    LET scored == Scored(queries)
        Of(i) == (100 * Recall(answers[i], queries[i].relevant, k)[1])
                   \div Recall(answers[i], queries[i].relevant, k)[2]
    IN  IF scored = {} THEN percent = 0
        ELSE MapThenSumSet(Of, scored) >= percent * Cardinality(scored)

\* RetrievalTestResult.status.
EvaluationStatus(queries, answers, k, threshold) ==
    IF Violations(queries, answers) # {} THEN "fail"
    ELSE IF MeetsRecall(queries, answers, k, threshold.min) THEN "pass"
    ELSE IF threshold.severity = "warn" THEN "warn" ELSE "fail"

------------------------------------------------------------------------------
(* Properties.                                                             *)

\* A governed index answers nobody a row that some policy attribute was not checked
\* on, whatever the mode; every row meets every filter; and no column leaves the index
\* that was not declared (search.py:526-566, 645-674).
AnswersWithinPolicy(index, request, policy, rows, order) ==
    LET result == Search(index, request, policy, rows, order)
    IN  ValidIndex(index) /\ ValidRequest(request) /\ ~result.refused =>
          /\ \A id \in ToSet(result.rows) : \E i \in DOMAIN rows :
                /\ rows[i].id = id
                /\ \A k \in DOMAIN request.filters : Satisfies(rows[i], request.filters[k])
                /\ \A a \in PolicyFields(index) :
                      \E k \in DOMAIN policy : policy[k].field = a /\ Satisfies(rows[i], policy[k])
          /\ index.identity \subseteq result.included /\ result.included \subseteq index.declared

\* Filters cost no results: they apply before the limit, so as many rows as there are
\* come back, each once (lancedb.py:665-668, 700-703).
FiltersCostNothing(index, request, policy, rows, order) ==
    LET result == Search(index, request, policy, rows, order)
        ids == {rows[i].id : i \in Allowed(rows, policy \o request.filters)}
    IN  ~result.refused /\ ValidRequest(request) =>
          /\ IsInjective(result.rows)
          /\ request.mode # "text" =>
                Len(result.rows) = Min({request.limit, Cardinality(ids)})

\* Fusion respects agreement: a record that every list ranks above another is above
\* it; the order of the lists, and lists without rows, change nothing; a fused rank
\* is decided by the records alone (search.py:784-814).
FusionAgrees(lists) ==
    LET fused == Fuse(lists)
    IN  /\ \A a, b \in ToSet(fused) :
              (a # b /\ \A k \in DOMAIN lists :
                          b \in ToSet(lists[k]) =>
                             a \in ToSet(lists[k]) /\ RankOf(lists[k], a) < RankOf(lists[k], b))
              => RankOf(fused, a) < RankOf(fused, b)
        /\ Fuse(Reverse(lists)) = fused /\ Fuse(Append(lists, <<>>)) = fused
        /\ \A k \in DOMAIN lists :
              (\A j \in DOMAIN lists : lists[j] \in {<<>>, lists[k]}) /\ lists[k] # <<>>
              => fused = lists[k]

\* The metrics of one query agree with each other: recall grows with the cutoff, one
\* relevant hit shows in all of them, and no ranking beats the ideal one; an excluded
\* row fails the test whatever the averages say, and a query without labels moves no
\* average (retrieval_metrics.py:38-135, retrieval_eval.py:76-90).
MetricsAgree(query, ranked, k) ==
    /\ Recall(ranked, query.relevant, k)[1] <= Recall(ranked, query.relevant, k + 1)[1]
    /\ EvaluateQuery(query, ranked, k) = "ok" =>
          /\ Recall(ranked, query.relevant, k)[1] > 0 <=> Precision(ranked, query.relevant, k)[1] > 0
          /\ Recall(ranked, query.relevant, k)[1] > 0 <=> ReciprocalRank(ranked, query.relevant, k)[1] > 0
          /\ Precision(ranked, query.relevant, k)[1] <= Precision(ranked, query.relevant, k)[2]
          /\ LET gain == DiscountedGain(ranked, Grades(query), k) IN gain[1] <= gain[2]

LeaksFail(queries, answers, k, threshold) ==
    LET status == EvaluationStatus(queries, answers, k, threshold)
        labelled == SetToSeq(Scored(queries))
    IN  /\ (\E i \in DOMAIN queries : queries[i].excluded \cap ToSet(answers[i]) # {}) => status = "fail"
        /\ Violations(queries, answers) = {} /\ labelled # <<>> =>
              status = EvaluationStatus([i \in DOMAIN labelled |-> queries[labelled[i]]],
                                        [i \in DOMAIN labelled |-> answers[labelled[i]]], k, threshold)
==============================================================================
