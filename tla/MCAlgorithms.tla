----------------------------- MODULE MCAlgorithms -----------------------------
(* The pure algorithms, each evaluated on every case of a small set: a case *)
(* is picked at the start, and what the code makes of it is judged once the *)
(* case was evaluated.                                                      *)
EXTENDS Integers, Sequences, FiniteSets, SequencesExt, TLC

Links == INSTANCE EntityLinks
Relations == INSTANCE EntityRelations
Contracts == INSTANCE ModelContracts
Tests == INSTANCE DataTests
Queries == INSTANCE SearchQueries
Features == INSTANCE TextFeatures
Learned == INSTANCE LearnedModels
Plans == INSTANCE MCPlans
Agents == INSTANCE AgentContext
Access == INSTANCE ContextAccess
Chunking == INSTANCE TextChunks

VARIABLES case, evaluated

------------------------------------------------------------------------------
(* Entity links: texts that differ in case and white space, an alias that   *)
(* two entities share, two namespaces, repeated rows, integer vectors.      *)

Alias(ns, id, text) == [ns |-> ns, id |-> id, text |-> text, vector |-> <<Len(text), 1>>]
Mention(id, doc, text) == [id |-> id, doc |-> doc, text |-> text, vector |-> <<1, Len(text)>>]

LinkReferences ==
    LET a == Alias("n", "a", <<1, 2>>) b == Alias("n", "b", <<-1, 2>>)
        c == Alias("m", "c", <<0, 1, 0, 0, 2>>) d == Alias("m", "a", <<1, 2, 3>>)
    IN  {<<>>, <<a, b>>, <<b, a, a>>, <<a, b, c>>, <<c, b, a, c>>, <<d, a>>, <<a, d, c, d>>}

LinkMentions ==
    {<<Mention("1", "x", t), Mention("2", "y", u)>>
       : t, u \in {<<>>, <<1, 2>>, <<1, -2>>, <<1, 0, 2, 0>>, <<1, 2, 3, 2>>}}

LinkOptions ==
    LET base == [resolver |-> "fuzzy", methods |-> <<"exact", "normalized">>,
                 metric |-> "trigram_dice", normalize |-> TRUE, onAmbiguity |-> "keep",
                 threshold |-> 9240, margin |-> 3080]
    IN  {base, [base EXCEPT !.metric = "jaccard_token", !.normalize = FALSE, !.margin = 0],
         [base EXCEPT !.resolver = "alias_table"],
         [base EXCEPT !.resolver = "alias_table", !.onAmbiguity = "error"],
         [base EXCEPT !.resolver = "alias_table", !.methods = <<"normalized", "exact">>],
         [base EXCEPT !.resolver = "vector_similarity", !.threshold = 4, !.margin = 1]}

LinkCases ==
    {[about |-> "links", mentions |-> m, aliases |-> r, others |-> s, options |-> o]
       : m \in LinkMentions, r \in LinkReferences, s \in LinkReferences, o \in LinkOptions}

------------------------------------------------------------------------------
(* Relations: mentions of two documents that overlap, share a sentence or   *)
(* not, with two labels; assertions that contradict each other or name what *)
(* they should not.                                                         *)

Span(id, doc, sentence, start, label) ==
    [id |-> id, doc |-> doc, sentence |-> sentence, start |-> start, end |-> start + 2,
     label |-> label]

RelationMentions ==
    {<<Span(3, "x", s, 1, "P"), Span(1, "x", 1, t, l), Span(2, "x", 2, 4, "Q"), Span(4, d, 1, 1, "P")>>
       : s \in {0, 1, 2}, t \in {0, 1, 6}, l \in {"P", "Q"}, d \in {"x", "y"}}

RelationOptions ==
    LET base == [extractor |-> "co_occurrence", scope |-> "sentence", gap |-> 1, labels |-> {},
                 type |-> "near", rules |-> {[subject |-> "P", object |-> "Q", type |-> "r"],
                                             [subject |-> "P", object |-> "P", type |-> "r"]},
                 types |-> {"r", "s"}, threshold |-> 5, directed |-> TRUE, maxPairs |-> 5]
    IN  {[base EXCEPT !.extractor = e, !.scope = s, !.labels = l]
           : e \in {"co_occurrence", "rule", "model_assertion"}, s \in {"sentence", "window"},
             l \in {{}, {"P"}}}
        \cup {[base EXCEPT !.maxPairs = 1]}

Assertion(s, o, t, c) == [subject |-> s, object |-> o, type |-> t, confidence |-> c]
RelationAssertions ==
    {<<Assertion(1, 3, "r", 4), Assertion(1, 3, "r", 6), Assertion(3, 1, "r", 1)>>,
     <<Assertion(1, 3, "r", 9), Assertion(1, 3, "s", 2), Assertion(1, 1, "r", 9)>>,
     <<Assertion(1, 2, "t", 9), Assertion(2, 4, "r", 9), Assertion(2, 3, "s", 5)>>}

RelationCases ==
    {[about |-> "relations", mentions |-> m, options |-> o, assertions |-> a]
       : m \in RelationMentions, o \in RelationOptions, a \in RelationAssertions}

------------------------------------------------------------------------------
(* Contracts: every declaration over three models, right and wrong ones,    *)
(* and frames that say two different things of two parents.                 *)

Models == {"m", "a", "b"}
ContractCases ==
    {[about |-> "contracts", contract |-> Contracts!Contract(p, "c", s, "k", r), deps |-> d,
      frames |-> f]
       : p \in {"p", "c"}, s \in {"none", "m", "a", ""},
         r \in {<<>>, <<"a">>, <<"b", "a">>, <<"a", "a">>, <<"">>, <<"m">>},
         d \in {<<>>, <<"m">>, <<"m", "a">>, <<"a", "b", "m">>},
         f \in {[x \in Models |-> [q \in {1, 2} |-> 0]],
                [x \in Models |-> [q \in {1, 2} |-> IF x = "b" THEN q ELSE 0]]}}

HookCases ==
    {[about |-> "hooks", options |-> [mentions |-> m, aliases |-> a, document |-> "d",
                                      mention |-> "i", text |-> "t", include |-> x], deps |-> d]
       : m \in {"m", ""}, a \in {"a", "m"}, x \in {<<>>, <<"d">>, <<"e">>, <<"e", "e">>},
         d \in {<<>>, <<"m">>, <<"a", "m">>, <<"m", "b">>}}

------------------------------------------------------------------------------
(* Data tests: every kind of test over short relations with NULLs, repeated *)
(* values and keys, blank texts and vectors that do not fit.                *)

NoTest == [name |-> "none", values |-> {}, min |-> Tests!Absent, max |-> Tests!Absent,
           rate |-> Tests!Absent, dimensions |-> Tests!Absent, z |-> 1, k |-> 1, stat |-> "mean",
           quantile |-> 1, exhaustive |-> FALSE, label |-> "l", size |-> 2, severity |-> "error"]
NoRow == [k |-> 0, v |-> 0, text |-> <<>>, source |-> <<>>, vec |-> <<>>, unset |-> FALSE]

Valued(values) == [i \in DOMAIN values |-> [NoRow EXCEPT !.k = i, !.v = values[i]]]
Columns == UNION {[1..n -> {1, 2, 9, Tests!Null}] : n \in 0..3}
             \cup {<<1, 1, 2, 1, 9>>, <<2, Tests!NaN, 1, 1, 9, 2>>, <<4, 4, 4, 4>>}

ValueTests ==
    {[NoTest EXCEPT !.name = n] : n \in {"not_null", "unique"}}
    \cup {[NoTest EXCEPT !.name = n, !.values = {1, 2}] : n \in {"accepted_values", "matches_regex"}}
    \cup {[NoTest EXCEPT !.name = "accepted_range", !.min = a, !.max = b]
            : a \in {2, Tests!Absent}, b \in {2, Tests!Absent}}
    \cup {[NoTest EXCEPT !.name = "relationships"], [NoTest EXCEPT !.name = "min_rows", !.min = 2],
          [NoTest EXCEPT !.name = "null_rate", !.max = 40],
          [NoTest EXCEPT !.name = "drift", !.max = 30],
          [NoTest EXCEPT !.name = "cardinality", !.min = 2, !.rate = 70]}
    \cup {[NoTest EXCEPT !.name = "column_stat", !.stat = f, !.min = 1, !.max = 3, !.quantile = 3]
            : f \in {"min", "max", "sum", "mean", "median", "quantile", "stddev"}}
    \cup {[NoTest EXCEPT !.name = "outlier_rate", !.stat = f, !.rate = 10] : f \in {"iqr", "zscore"}}
    \cup {[NoTest EXCEPT !.name = "llm_judge", !.values = {1, 2}, !.min = 50, !.max = b, !.size = n]
            : b \in {1, 2, Tests!Absent}, n \in {1, 3}}

KeyedRows == {<<>>} \cup {[i \in 1..n |-> [NoRow EXCEPT !.k = ks[i], !.v = vs[i]]]
                          : n \in {2, 3}, ks \in [1..3 -> {1, 2}], vs \in [1..3 -> {1, 3, Tests!Null}]}
MetricRows == {[i \in 1..3 |-> [NoRow EXCEPT !.k = ks[i], !.v = vs[i], !.text = ts[i]]]
                : ks \in [1..3 -> {1, 2}], vs \in [1..3 -> {1, 3, Tests!Null}],
                  ts \in {<<"l", "l", "m">>, <<"m", "m", "m">>, <<"l", "l", "l">>}}
GroundRows == {[i \in 1..2 |-> [NoRow EXCEPT !.text = ts[i], !.source = <<0, 1, -2, 0, 1>>]]
                : ts \in [1..2 -> {<<>>, <<0>>, <<0, -1, 2>>, <<2, 1>>}]}
VectorRows == {[i \in 1..n |-> [NoRow EXCEPT !.vec = vs[i], !.unset = (vs[i] = <<>>)]]
                : n \in 0..4, vs \in [1..4 -> {<<>>, <<0>>, <<1>>, <<8>>, <<1, 2>>, <<Tests!NaN>>}]}
VectorTests ==
    {[NoTest EXCEPT !.name = "embedding_valid", !.rate = 30, !.dimensions = d, !.max = m]
       : d \in {1, Tests!Absent}, m \in {2, Tests!Absent}}
    \cup {[NoTest EXCEPT !.name = "embedding_variance", !.min = 1],
          [NoTest EXCEPT !.name = "embedding_duplicates", !.rate = 30],
          [NoTest EXCEPT !.name = "embedding_outliers", !.rate = 20]}

TestCase(tests, relations, parents) ==
    {[about |-> "tests", test |-> t, rows |-> r, parent |-> p]
       : t \in tests, r \in relations, p \in parents}
TestCases ==
    TestCase(ValueTests, {Valued(c) : c \in Columns}, {Valued(<<1, 1, 9>>), Valued(<<2, 2>>)})
    \cup TestCase({[NoTest EXCEPT !.name = "golden", !.exhaustive = e, !.max = m]
                    : e \in BOOLEAN, m \in {Tests!Absent, 2}},
                  KeyedRows, {Valued(<<1>>), Valued(<<3, Tests!Null>>)})
    \cup TestCase({[NoTest EXCEPT !.name = "min_metric", !.min = 2]}, MetricRows, {<<>>})
    \cup TestCase({[NoTest EXCEPT !.name = "grounded_in"]}, GroundRows, {<<>>})
    \cup TestCase(VectorTests, VectorRows, {<<>>})

DriftCases ==
    {[about |-> "drift", current |-> c, baseline |-> b, bins |-> n]
       : c \in UNION {[1..n -> {1, 3, 4}] : n \in 1..3},
         b \in UNION {[1..n -> {1, 2, 4}] : n \in 1..3}, n \in {2, 3}}
EnumCases ==
    {[about |-> "enums", fields |-> f, declared |-> d]
       : f \in [{"c", "d"} -> {{}, {1}, {1, 2}}],
         d \in {<<>>} \cup {<<[column |-> x, values |-> v], [column |-> y, values |-> {1}]>>
                              : x, y \in {"c", "d", "e"}, v \in {{1}, {1, 2}}}}

------------------------------------------------------------------------------
(* Searches: a governed and a public index, policies that cover none, some  *)
(* or all policy attributes, four rows with NULLs, and every fusion of      *)
(* three short rankings.                                                    *)

Index(access, roles, modes) ==
    [access |-> access, modes |-> modes, dimensions |-> 2, texts |-> {"t", "u"},
     returned |-> {"t"}, fullText |-> <<"t", "u">>, identity |-> {"id", "doc"},
     declared |-> {"id", "doc", "t", "c"},
     attributes |-> [a \in {"p", "q", "c"} |-> [role |-> roles[a], type |-> "integer"]]]
Indexes ==
    {Index("governed", [p |-> "policy", q |-> "user_and_policy", c |-> "user"],
           {"vector", "text", "hybrid"}),
     Index("public", [p |-> "none", q |-> "user", c |-> "user"], {"vector", "hybrid"})}

Filter(f, t, v) == [field |-> f, test |-> t, value |-> v]
Policies ==
    {<<>>, <<Filter("p", "eq", 1)>>, <<Filter("p", "eq", 1), Filter("q", "in", {1, 2})>>,
     <<Filter("q", "ge", 2), Filter("p", "ne", 1)>>, <<Filter("p", "eq", 1), Filter("c", "eq", 1)>>}
SearchRequests ==
    {[mode |-> m, query |-> t, vector |-> v, limit |-> n, candidates |-> c, filters |-> f,
      fields |-> x]
       : m \in {"vector", "text", "hybrid"}, t \in BOOLEAN, v \in {0, 2}, n \in {1, 3}, c \in {0, 3},
         f \in {<<>>, <<Filter("c", "lt", 2)>>, <<Filter("p", "eq", 1)>>},
         x \in {<<>>, <<"p">>}}

StoredRow(id, p, q, c) == [id |-> id, values |-> [p |-> p, q |-> q, c |-> c]]
Stores ==
    {<<StoredRow(1, 1, 1, 1), StoredRow(2, 2, 2, 1), StoredRow(3, 1, 2, 2), StoredRow(4, 1, 1, 1)>>,
     <<StoredRow(1, 2, 3, 1), StoredRow(2, 1, Queries!Null, 1), StoredRow(3, Queries!Null, 2, 1)>>}
Orders ==
    {[vector |-> <<3, 2, 1, 4>>, text |-> [t |-> <<1, 4>>, u |-> <<2, 3, 1>>]],
     [vector |-> <<4, 1, 2, 3>>, text |-> [t |-> <<>>, u |-> <<1, 1, 4>>]]}

SearchCases ==
    {[about |-> "search", index |-> i, request |-> r, policy |-> p, rows |-> s, order |-> o]
       : i \in Indexes, r \in SearchRequests, p \in Policies, s \in Stores, o \in Orders}

Rankings == {<<>>, <<1>>, <<2, 1>>, <<1, 2, 3>>, <<3, 1, 2>>, <<4, 2>>}
FusionCases ==
    {[about |-> "fusion", lists |-> <<a, b, c>>] : a \in Rankings, b \in Rankings, c \in Rankings}

GoldenQueries ==
    {[relevant |-> r, grades |-> g, required |-> q, excluded |-> x]
       : r \in {{}, {1, 3}}, g \in {<<>>, <<2, 0, 1>>, <<0, 0>>}, q \in {{}, {2}}, x \in {{}, {4}}}
GoldenCases ==
    {[about |-> "golden", queries |-> <<a, b>>, answers |-> <<x, y>>, k |-> k,
      threshold |-> [min |-> 50, severity |-> s]]
       : a \in GoldenQueries, b \in {q \in GoldenQueries : q.grades = <<2, 0, 1>>}, x \in Rankings,
         y \in {<<1, 2, 3>>}, k \in {1, 2}, s \in {"error", "warn"}}

------------------------------------------------------------------------------
(* Classic ML over texts: two to four rows, some without a label or an      *)
(* identifier, under each analyzer and thresholds given as counts or shares. *)

Amount(share, n) == [share |-> share, of |-> n]
NoAmount == Amount(FALSE, 0)
TextOptions ==
    LET base == [analyzer |-> "word", lowercase |-> TRUE, stop |-> {}, ngrams |-> <<1, 1>>,
                 minDf |-> Amount(FALSE, 1), maxDf |-> NoAmount, max |-> 0, binary |-> FALSE,
                 buckets |-> 5, alternate |-> TRUE, alpha |-> 1]
    IN  {base, [base EXCEPT !.ngrams = <<1, 2>>, !.max = 2, !.stop = {<<3>>}],
         [base EXCEPT !.minDf = Amount(TRUE, 5), !.binary = TRUE],
         [base EXCEPT !.maxDf = Amount(TRUE, 6), !.max = 3, !.alternate = FALSE, !.alpha = 2],
         [base EXCEPT !.analyzer = "char", !.ngrams = <<1, 2>>, !.lowercase = FALSE, !.max = 4],
         [base EXCEPT !.analyzer = "char_wb", !.ngrams = <<2, 3>>, !.minDf = Amount(FALSE, 2)]}
TextRow(chunk, doc, text, label) ==
    [chunk |-> chunk, doc |-> doc, id |-> 0, text |-> text, label |-> label]
TextRows ==
    {<<TextRow(0, d, t, 1), TextRow(0, 2, u, l), TextRow(c, 2, <<1, 0, -2, 0, 2>>, 2)>>
       : c \in {0, 1}, d \in {0, 1}, l \in {0, 1, 2},
         t \in {<<1, 2, 0, 3>>, <<3>>, <<>>}, u \in {<<-1, 0, 2>>, <<0, 3, 0, 3, 0, 1>>}}
FeatureCases ==
    {[about |-> "features", df |-> d, provider |-> p, options |-> o]
       : d \in TextRows, p \in {"count", "tfidf", "hashing"}, o \in TextOptions}

\* Documents with one or two terms, a missing value, a term of a new document; three or four
\* vectors, one of another length; every labelling of three documents.
Term(id, row, term, value) ==
    [id |-> id, row |-> row, term |-> term, index |-> term, value |-> value]
MatrixRows ==
    {<<Term(2, 1, 1, v), Term(1, 0, 2, 1), Term(2, 1, t, 3), Term(3, 2, 2, w)>>
       : v \in {0, 1, 4}, t \in {1, 2, 3}, w \in {1, 2}}
MatrixCases ==
    {[about |-> "matrix", df |-> d, extra |-> e, labels |-> l, top |-> n, neighbors |-> k]
       : d \in MatrixRows, e \in {<<>>, <<Term(4, 3, 9, 1), Term(4, 3, 2, 2)>>},
         l \in [1..3 -> {-1, 0, 1}], n \in {0, 1, 2}, k \in {0, 1, 3}}
VectorCases ==
    {[about |-> "vectors", df |-> [i \in 1..n |-> [id |-> ids[i], vector |-> vs[i]]], dimensions |-> d]
       : n \in 0..3, ids \in [1..3 -> {1, 2}], vs \in [1..3 -> {<<>>, <<1>>, <<1, 2>>}], d \in {0, 1}}

\* Two ML models whose artifact paths are the same, nested, linked or differ in case, on file
\* systems that tell cases apart, do not, or hide it; a third that must keep its hands off
\* the project's own directories; every option that matters to another.
MLPaths == {<<>>, <<"p", "a">>, <<"p", "A">>, <<"p", "a", "B">>, <<"p", "l">>, <<"p", "B">>, <<"q">>}
FileSystems ==
    {[insensitive |-> s, tells |-> t, dirs |-> d, links |-> <<"p", "l">> :> <<"p", "a">>]
       : s, t \in BOOLEAN, d \in {{<<"p">>, <<"p", "b">>}, {<<"p">>, <<"p", "a">>}}}
MLModel(name, mode, provider, path, deps) ==
    [name |-> name, task |-> "cluster", provider |-> provider, mode |-> mode, text |-> FALSE,
     label |-> FALSE, options |-> <<>>, metrics |-> <<"row_count">>, external |-> path = <<"q">>,
     path |-> path, deps |-> deps]
MLProjects ==
    {[about |-> "mlproject", models |-> {MLModel("w", a, "", x, <<"d">>), MLModel("r", b, c, y, e)},
      project |-> [root |-> <<"p">>, target |-> <<"p", "t">>, layout |-> {<<"p", "b">>}, fs |-> f]]
       : a \in {"fit", "predict"}, b \in {"fit_transform", "predict"}, c \in {"kmeans", "dbscan"},
         x \in MLPaths, y \in MLPaths, e \in {<<"d">>, <<"d", "w">>, <<"w", "d">>, <<"w">>},
         f \in FileSystems}
MLOptions ==
    {[about |-> "mloptions", provider |-> p, options |-> o, legacy |-> l]
       : p \in DOMAIN Learned!TaskOf,
         o \in {<<>>, [max_df |-> 2], [min_df |-> 3, max_df |-> 2], [min_n |-> 2], [alpha |-> 0],
                [n_features |-> 4], [input |-> "embedding", embedding_field |-> 1],
                [embedding_field |-> 1], [binary |-> "yes"], [n_clusters |-> 1]},
         l \in {<<>>, [n_features |-> 4], [binary |-> "yes"], [min_df |-> 1], [extra |-> 1]}}

------------------------------------------------------------------------------
(* Chunks: every text of up to four letters, and longer ones with           *)
(* paragraphs, sentences, words and words that are too long; sizes with and *)
(* without overlap and a metadata block; headings, one of them blank.       *)

ShortTexts == UNION {[1..n -> {0, 1, 2, 3}] : n \in 0..4}
LongTexts ==
    {<<3, 3, 0, 0, 3, 1, 3, 3, 2, 1, 3, 3, 3, 3, 3, 3, 0, 3>>, <<3, 2, 1, 3, 1, 3, 0, 3, 0, 0, 3, 3>>,
     <<3, 3, 3, 3, 3, 3, 1, 0, 0, 0, 3>>, <<0, 0, 3, 1, 1, 1, 1, 3, 2, 1, 2, 1>>,
     <<3, 1, 3, 0, 0, 3, 1, 3, 0, 0, 3, 1, 3>>}
Headings == <<[at |-> 0, name |-> "a"], [at |-> 2, name |-> ""], [at |-> 3, name |-> "b"], [at |-> 8, name |-> "a"]>>
Cutting(sizes, overlaps) ==
    [size : sizes, overlap : overlaps, strategy : {"tokens", "recursive"}]
CutCases ==
    {[about |-> "chunks", text |-> t, config |-> c, fields |-> <<>>, matches |-> Headings]
       : t \in ShortTexts, c \in Cutting({3}, {0, 1, 2})}
    \cup {[about |-> "chunks", text |-> t, config |-> c, fields |-> f, matches |-> h]
            : t \in LongTexts, c \in Cutting({3, 5, 7, 9}, {0, 1, 2, 4}), f \in {<<>>, <<<<>>, <<3>>>>},
              h \in {<<>>, Headings}}

------------------------------------------------------------------------------
(* Agent context: two versions of a document and one of another with every  *)
(* pair of intervals, policies that say something or nothing, clocks in and *)
(* out of order, and relations of which one field was changed after they    *)
(* were projected.                                                          *)

Intervals == {<<1, -1>>, <<1, 3>>, <<2, 4>>, <<3, -1>>, <<3, 2>>}
Validities == {<<-1, -1>>, <<1, -1>>, <<1, 2>>, <<-1, 2>>}
Policy(tenant, public, resolved) ==
    ("tenant_id" :> tenant) @@ ("is_public" :> public) @@ ("authorization_resolved" :> resolved)
ContextPolicies ==
    {Policy("t", FALSE, TRUE), Policy("", FALSE, TRUE), Policy("", TRUE, TRUE),
     Policy("t", FALSE, FALSE)}
Clocks(materialized, checked, due, stale) ==
    ("ingested_at" :> 1) @@ ("materialized_at" :> materialized) @@ ("freshness_checked_at" :> checked)
    @@ ("refresh_due_at" :> due) @@ ("stale_after" :> stale)
AllClocks == {Clocks(2, -1, 3, 2), Clocks(1, 1, -1, 3), Clocks(0, 1, 2, -1), Clocks(1, 0, 2, 2)}

Document(key, version, recorded, valid, groups, rest) ==
    [system |-> "s", key |-> key, version |-> version, text |-> "ab", recorded |-> recorded, valid |-> valid,
     groups |-> groups, rest |-> rest]
ContextLinks == {[canonical |-> c, name |-> "e", relationship |-> "r", confidence |-> n, recorded |-> <<1, 2>>]
                   : c \in {"k", "l"}, n \in {-1, 50}}
Citations == {<<>>, ("citation_char_start" :> 0) @@ ("citation_char_end" :> 2)}

ContextCases ==
    {[about |-> "context", link |-> l, cited |-> c, tamper |-> <<>>,
      documents |-> <<Document("k", "1", a, v, g, p @@ t), Document("k", w, b, <<-1, -1>>, g, p @@ t),
                      Document("o", "1", <<1, -1>>, v, <<>>, q @@ t)>>]
       : l \in {CHOOSE x \in ContextLinks : x.confidence = 50}, c \in Citations, a \in Intervals, b \in Intervals,
         v \in Validities, g \in {<<>>, <<2, 1>>}, p \in ContextPolicies, q \in {Policy("", TRUE, TRUE)},
         w \in {"1", "2"}, t \in {Clocks(2, -1, 3, 2)}}
    \cup {[about |-> "context", link |-> l, cited |-> <<>>, tamper |-> <<>>,
           documents |-> <<Document("k", "1", <<1, -1>>, <<1, 2>>, <<>>, p @@ t)>>]
            : l \in ContextLinks, p \in ContextPolicies, t \in AllClocks}

\* What was changed: of which relation, which field, to what.
Tampers ==
    {<<"chunks", "tenant_id", "u">>, <<"chunks", "is_public", TRUE>>, <<"chunks", "authorization_resolved", TRUE>>,
     <<"chunks", "access_groups", [json |-> TRUE, items |-> <<1, 2>>]>>,
     <<"chunks", "access_groups", [json |-> FALSE, items |-> <<2, 1>>]>>,
     <<"chunks", "text", "cd">>, <<"chunks", "chunk_index", 1>>, <<"chunks", "recorded_to", 2>>,
     <<"chunks", "document_version_id", Agents!VersionId(Agents!DocumentId("s", "o"), "1", Agents!ContentHash("ab"))>>,
     <<"chunks", "citation_char_start", 2>>, <<"chunks", "chunk_content_hash", Agents!ContentHash("cd")>>,
     <<"registry", "tenant_id", "u">>, <<"registry", "source_version", "2">>, <<"registry", "valid_from", -1>>,
     <<"links", "entity_key", Agents!EntityKey("m")>>, <<"links", "confidence", 101>>,
     <<"links", "context_id", Agents!ContextId(Agents!DocumentId("s", "k"), Agents!ChunkId(Agents!DocumentId("s", "k"), 0, "a"))>>,
     <<"links", "entity_id", Agents!EntityId("ns", "e", Agents!EntityKey("l"))>>}
TamperCases ==
    {[about |-> "context", link |-> l, cited |-> c, tamper |-> <<x>>,
      documents |-> <<Document("k", "1", <<1, -1>>, v, g, p @@ Clocks(2, -1, 3, 2)),
                      Document("o", "1", <<1, 3>>, v, <<>>, p @@ Clocks(2, -1, 3, 2))>>]
       : l \in ContextLinks, c \in Citations, x \in Tampers, v \in {<<-1, -1>>, <<1, 2>>}, g \in {<<>>, <<2, 1>>},
         p \in ContextPolicies}

Changed(relation, rows) ==
    IF case.tamper # <<>> /\ case.tamper[1][1] = relation
    THEN [rows EXCEPT ![1][case.tamper[1][2]] = case.tamper[1][3]] ELSE rows

ContextSound ==
    LET projected == [i \in DOMAIN case.documents |-> Agents!ProjectRegistry(case.documents[i])]
        registry == Changed("registry", projected)
        chunks == Changed("chunks", [k \in 1..2 |->
                     Agents!ProjectChunk(projected[1], k - 1, <<"a", "b">>[k], case.cited)])
        links == Changed("links", [k \in 1..2 |->
                     Agents!ProjectLink(Agents!ProjectChunk(projected[1], 0, "a", <<>>)["context_id"],
                                 IF k = 1 THEN case.link ELSE [case.link EXCEPT !.relationship = "q"])])
    IN  /\ Agents!ProjectionsValidate(case.documents, <<"a", "b">>, case.cited, case.link)
        /\ Agents!OneVersionAsOf(registry)
        /\ Agents!RelationsTrusted(registry, chunks, links)
        /\ \A i \in DOMAIN registry : Agents!FreshnessForward(registry[i])

------------------------------------------------------------------------------
(* Callers and rows.                                                        *)

Claims == {<<>>, "classification" :> {"c"}, "classification" :> {"c", "d"}, "tenant_id" :> {"u"},
           "classification" :> {}, "team" :> {"c"}}
Environments ==
    {[subject |-> "s", tenant |-> t, groups |-> g, claims |-> c]
       : t \in {"", "t"}, g \in {{}, {"", "g"}, {"h"}}, c \in Claims}
    \cup {[subject |-> "", tenant |-> "t", groups |-> {"g"}, claims |-> <<>>]}
Attribute(name) == [name |-> name, type |-> IF name = "labels" THEN "array[string]" ELSE "string"]
AttributeSets == {{}, {Attribute("tenant_id")}, {Attribute("classification"), Attribute("access_group")},
                  {Attribute("labels")}, {Attribute("team")}}
GuardedRow(resolved, public, tenant, groups, class) ==
    ("authorization_resolved" :> resolved) @@ ("is_public" :> public) @@ ("tenant_id" :> tenant)
    @@ ("access_groups" :> groups) @@ ("classification" :> class) @@ ("access_group" :> "g") @@ ("team" :> "") @@ ("labels" :> "")
CallerCases ==
    {[about |-> "callers", env |-> e, access |-> "governed", attributes |-> a,
      row |-> GuardedRow(p[1], p[2], t, g, c)]
       : e \in Environments, a \in AttributeSets, p \in {<<TRUE, TRUE>>, <<TRUE, FALSE>>, <<FALSE, TRUE>>},
         t \in {"", "t", "u"}, g \in {{}, {"g"}}, c \in {"", "c", "d"}}

------------------------------------------------------------------------------
(* Manifests: an index, and four models of any grain above or below it.     *)

Manifest(grains, edges) ==
    [models |-> [id \in 1..5 |-> [search |-> id = 5, grain |-> IF id = 5 THEN "none" ELSE grains[id],
                                  attributes |-> {}]],
     edges |-> edges, order |-> <<1, 2, 3, 4, 5>>]
Grains == {"none", "document_registry", "document_chunks", "context_entity_links"}
Arrows == {<<1, 2>>, <<1, 3>>, <<2, 3>>, <<3, 4>>, <<3, 5>>, <<4, 5>>}
ManifestCases ==
    {[about |-> "catalog", manifest |-> Manifest(<<f, g, h, k>>, e)]
       : f \in {"none", "document_registry"}, g \in Grains, h \in Grains,
         k \in {"none", "document_chunks", "context_entity_links"}, e \in SUBSET Arrows}

CallerSound ==
    /\ Access!SearchAgreesWithRead(case.env, case.row, case.access, case.attributes)
    /\ Access!ProofNeeded(case.env, case.row, case.attributes)
CatalogSound == Access!CatalogJoins(case.manifest)

------------------------------------------------------------------------------
Init ==
    /\ evaluated = FALSE
    /\ \/ case \in LinkCases
       \/ case \in RelationCases
       \/ case \in ContractCases
       \/ case \in HookCases
       \/ case \in TestCases
       \/ case \in DriftCases
       \/ case \in EnumCases
       \/ case \in SearchCases
       \/ case \in FusionCases
       \/ case \in GoldenCases
       \/ case \in FeatureCases
       \/ case \in MatrixCases
       \/ case \in VectorCases
       \/ case \in MLProjects
       \/ case \in MLOptions
       \/ case \in Plans!ColumnCases
       \/ case \in Plans!ProjectCases
       \/ case \in Plans!CapabilityCases
       \/ case \in Plans!RetrievalCases
       \/ case \in Plans!TemplateCases
       \/ case \in Plans!FileCases
       \/ case \in Plans!SourceCases
       \/ case \in Plans!PlaceCases
       \/ case \in Plans!SecretCases
       \/ case \in Plans!OptionCases
       \/ case \in Plans!SelectionCases
       \/ case \in Plans!PromptCases
       \/ case \in Plans!VersionCases
       \/ case \in Plans!DirectoryCases
       \/ case \in Plans!BucketCases
       \/ case \in Plans!RelationCases
       \/ case \in ContextCases
       \/ case \in TamperCases
       \/ case \in CallerCases
       \/ case \in ManifestCases
       \/ case \in CutCases

Evaluate == ~evaluated /\ evaluated' = TRUE /\ UNCHANGED case

Spec == Init /\ [][Evaluate]_<<case, evaluated>>

About(subject) == evaluated /\ case.about = subject

------------------------------------------------------------------------------
\* Entity links and relations mean what their tables promise: no silent guess, exact
\* text first, a fingerprint that decides, links that do not depend on the other
\* documents; unique relation ids, relations in scope whatever the order of rows
\* (linking.py:1-15, 319-348, 401-464; relations.py:1-22, 323-373, 645-662); and no
\* input of an incremental transform escapes the fingerprints (transforms/runner.py:62-67);
\* and the chunks of a text lose no letter of it, fit their size and name their section
\* (chunking.py:74-327).
TextSound ==
    /\ About("links") =>
          /\ Links!NeverGuesses(case.mentions, case.aliases, case.options)
          /\ Links!ExactFirst(case.mentions, case.aliases, case.options)
          /\ Links!FingerprintDecides(case.mentions, case.aliases, case.others, case.options)
          /\ \A doc \in {"x", "y"} :
                Links!LinksByDocument(case.mentions, case.aliases, case.options, {doc})
    /\ About("relations") =>
          /\ Relations!RelationIdsUnique(case.mentions, case.options, case.assertions)
          /\ Relations!RelationsInScope(case.mentions, case.options, case.assertions)
          /\ Relations!RelationsUnordered(case.mentions, case.options, case.assertions)
    /\ About("contracts") =>
          \A x \in Models, q \in {1, 2} :
             Contracts!InputsAreFingerprinted(case.contract, case.deps, case.frames,
                [case.frames EXCEPT ![x][q] = 9], {1, 2})
    /\ About("hooks") => Contracts!HooksAgree(case.options, case.deps)
    /\ About("chunks") =>
          Chunking!ChunksSound(case.text, case.config, case.fields, case.matches)

\* A data test says the same whatever the order of the rows, keeps the rows that explain
\* its failure, and severity never hides one; a gate reads the newest evaluation; a golden
\* set means equality of keyed rows; drift compares proper distributions; a judge passes
\* only on a sample judged to the end within its budget; every enum field is checked
\* (schema.py:94-111, 228-290, 394-455, 1231-1276, 1430-1683; test_specs.py:471-554).
ChecksSound ==
    /\ About("tests") =>
          /\ Tests!OrderIrrelevant(case.test, case.rows, case.parent)
          /\ Tests!StoredExplains(case.test, case.rows, case.parent)
          /\ Tests!SeverityOnlyLabels(case.test, case.rows, case.parent)
          /\ case.test.name = "min_metric" => Tests!LatestDecides(case.test, case.rows)
          /\ case.test.name = "golden" => Tests!GoldenMeans(case.test, case.rows, case.parent)
          /\ case.test.name = "llm_judge" => Tests!JudgeBounded(case.test, case.rows)
    /\ About("drift") => Tests!DriftCompares(case.current, case.baseline, case.bins)
    /\ About("enums") => Tests!EnumsChecked(case.fields, case.declared)

\* A search shows a caller only rows that every policy attribute admits, filters cost no
\* results, fusion respects what its rankings agree on, and an evaluation fails on an
\* excluded row whatever its averages say; and context relations that were accepted hold one
\* version of a document at a time, under one policy with its chunks (search.py:526-814,
\* lancedb.py:645-840, retrieval_metrics.py, retrieval_eval.py:76-285,
\* agent_context.py:625-1270).
RetrievalSound ==
    /\ About("search") =>
          /\ Queries!AnswersWithinPolicy(case.index, case.request, case.policy, case.rows, case.order)
          /\ Queries!FiltersCostNothing(case.index, case.request, case.policy, case.rows, case.order)
    /\ About("fusion") => Queries!FusionAgrees(case.lists)
    /\ About("golden") =>
          /\ Queries!MetricsAgree(case.queries[1], case.answers[1], case.k)
          /\ Queries!LeaksFail(case.queries, case.answers, case.k, case.threshold)
    /\ About("context") => ContextSound
    /\ About("callers") => CallerSound
    /\ About("catalog") => CatalogSound

\* Training reads the same content whatever the order of its rows, keeps the terms its
\* thresholds ask for, and an artifact is taken back only as it was written
\* (common.py:43-48, text.py:198-246, 498-595, classifier.py:46-145).
LearningSound ==
    /\ About("features") =>
          /\ Features!TrainingUnordered(case.df, case.provider, case.options)
          /\ Features!VocabularySound(case.df, case.provider, case.options)
          /\ Features!ArtifactsRefused(case.df, case.provider, case.options)
          /\ case.options.analyzer = "word" => Features!ClassifierSound(case.df, case.options)
    /\ About("matrix") =>
          /\ Learned!PredictsAsTrained(case.df, case.extra, case.labels)
          /\ Learned!CompanionsAgree(case.df, case.labels, case.top, case.neighbors)
          /\ Learned!MatrixUnorderedIfKeyed(case.df)
    /\ About("mlproject") => Learned!OneWriterEach(case.models, case.project)
    /\ About("mloptions") => Learned!OptionsSurvive(case.provider, case.options, case.legacy)
    /\ About("vectors") => Learned!EmbeddingsWhole(case.df, case.dimensions)

\* A plan is refused or can be carried out: each column of a row has one writer, in every
\* order of the graph what is read was built, a selection leaves out nothing that it needs, no
\* capability is missed half-way, an index can be asked what it declares, a released prompt
\* says what it said, a version decides what a provider is asked, and no document of a source
\* is lost, doubled or read in another version than was listed (config/*.py, compiler.py,
\* dag.py, prompts.py, versioning.py, execution/*.py, sources/*.py).
PlansSound ==
    evaluated /\ case.about \in Plans!PlanSubjects => Plans!PlanSound(case)
==============================================================================
