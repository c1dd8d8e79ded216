------------------------------- MODULE DataTests -------------------------------
(***************************************************************************)
(* The data tests of a model (checks/schema.py, checks/runner.py,          *)
(* test_specs.py): what each test makes of a relation, which rows it keeps *)
(* under --store-failures, what severity does, and the derived enum check. *)
(* A relation is a sequence of rows: a key k, a value v, a text and its    *)
(* source, a vector.  Numbers are integers and are compared as fractions;  *)
(* rates and thresholds of rates are in percent.                           *)
(***************************************************************************)
EXTENDS Integers, Sequences, FiniteSets, TLC, SequencesExt, FiniteSetsExt

Null == 1000      \* SQL NULL, of a value
NaN == 1001       \* a number that is not finite
Absent == 2000    \* an option that is not given

Result(status, rows, stored) == [status |-> status, rows |-> rows, stored |-> stored]
Passed == Result("pass", {}, FALSE)
Failed == Result("fail", {}, FALSE)

\* A test that selects its failing rows; it stores exactly what it selected.
Selecting(failing, rows, store) ==
    IF failing THEN Result("fail", IF store THEN rows ELSE {}, store) ELSE Passed

SumOver(S, f(_)) == MapThenSumSet(f, S)
Total(seq) == FoldLeft(LAMBDA sum, x : sum + x, 0, seq)
Squares(seq) == FoldLeft(LAMBDA sum, x : sum + x * x, 0, seq)
Ascending(seq) == SortSeq(seq, LAMBDA x, y : x < y)
AtMost(count, total, percent) == 100 * count <= percent * total

------------------------------------------------------------------------------
(* Tests of single rows.                                                   *)

\* A character is a number: 0 is white space, a negative one is upper case.
Lower(text) == [i \in DOMAIN text |-> IF text[i] < 0 THEN -text[i] ELSE text[i]]
Strip(text) ==
    LET seen == {i \in DOMAIN text : text[i] # 0}
    IN  IF seen = {} THEN <<>> ELSE SubSeq(text, Min(seen), Max(seen))
Within(v, s) == \E i \in 1..(Len(s) - Len(v) + 1) : SubSeq(s, i, i + Len(v) - 1) = v

\* grounded_in, method exact: blank values are not checked.
Ungrounded(row) ==
    Strip(row.text) # <<>> /\ ~Within(Strip(Lower(row.text)), Lower(row.source))

\* The WHERE clause, or the mask, of a test: NULL is checked by the null tests only.
Where(t, rows, parent) ==
    {i \in DOMAIN rows :
       CASE t.name \in {"not_null", "null_rate"} -> rows[i].v = Null
         [] t.name \in {"accepted_values", "matches_regex"} ->
               rows[i].v # Null /\ rows[i].v \notin t.values
         [] t.name = "accepted_range" ->
               rows[i].v # Null /\ (\/ t.min # Absent /\ rows[i].v < t.min
                                    \/ t.max # Absent /\ rows[i].v > t.max)
         [] t.name = "relationships" ->
               rows[i].v # Null /\ \A j \in DOMAIN parent : parent[j].v # rows[i].v
         [] t.name = "grounded_in" -> Ungrounded(rows[i])}

RowTest(t, rows, parent, store) ==
    LET bad == Where(t, rows, parent) IN Selecting(bad # {}, bad, store)

NullRate(t, rows, store) ==
    LET nulls == Where(t, rows, <<>>)
    IN  IF rows = <<>> THEN Passed
        ELSE Selecting(~AtMost(Cardinality(nulls), Len(rows), t.max), nulls, store)

\* unique: NULLs make one group, and no row of that group is IN the duplicates.
Unique(rows, store) ==
    LET repeated == {i \in DOMAIN rows : \E j \in DOMAIN rows \ {i} : rows[j].v = rows[i].v}
    IN  Selecting(repeated # {}, {i \in repeated : rows[i].v # Null}, store)

MinRows(t, rows) == IF Len(rows) >= t.min THEN Passed ELSE Failed

\* min_metric: k is the evaluation, v the value of the metric the test names.
Latest(rows) == SelectSeq(rows, LAMBDA r : \A i \in DOMAIN rows : rows[i].k <= r.k)
MinMetric(t, rows) ==
    LET observed == {r.v : r \in ToSet(SelectSeq(Latest(rows), LAMBDA r : r.text = t.label))}
                       \ {Null}
    IN  IF observed # {} /\ Min(observed) >= t.min THEN Passed ELSE Failed

------------------------------------------------------------------------------
(* Tests of vectors.  A row without a vector is left out.                  *)

Vectors(rows) == {i \in DOMAIN rows : ~rows[i].unset}
Finite(vector) == \A d \in DOMAIN vector : vector[d] # NaN
OneDimension(rows) == Cardinality({Len(rows[i].vec) : i \in Vectors(rows)}) = 1
AllFinite(rows) == \A i \in Vectors(rows) : Finite(rows[i].vec)

EmbeddingValid(t, rows, store) ==
    LET seen == Vectors(rows)
        misshapen == {i \in seen : t.dimensions # Absent /\ Len(rows[i].vec) # t.dimensions}
        unreal == {i \in seen \ misshapen : ~Finite(rows[i].vec)}
        measured == seen \ (misshapen \cup unreal)
        Norm2(i) == Squares(rows[i].vec)
        outside == {i \in measured : \/ t.min # Absent /\ Norm2(i) < t.min * t.min
                                     \/ t.max # Absent /\ Norm2(i) > t.max * t.max}
        zero == {i \in measured : Norm2(i) = 0}
        zeroBad == ~AtMost(Cardinality(zero), Cardinality(seen), t.rate)
        bad == misshapen \cup unreal \cup outside
    IN  Selecting(seen # {} /\ (bad # {} \/ zeroBad),
                  bad \cup (IF zeroBad THEN zero ELSE {}), store)

\* The mean over the dimensions of n * sum(x^2) - sum(x)^2, over n^2.
EmbeddingVariance(t, rows) ==
    LET seen == Vectors(rows) n == Cardinality(seen)
        dims == 1..Len(rows[CHOOSE i \in seen : TRUE].vec)
        Spread(d) == n * SumOver(seen, LAMBDA i : rows[i].vec[d] * rows[i].vec[d])
                       - SumOver(seen, LAMBDA i : rows[i].vec[d])
                         * SumOver(seen, LAMBDA i : rows[i].vec[d])
    IN  IF n < 2 THEN Passed
        ELSE IF ~OneDimension(rows) \/ ~AllFinite(rows) THEN Failed
        ELSE IF SumOver(dims, Spread) >= t.min * n * n * Cardinality(dims) THEN Passed ELSE Failed

EmbeddingDuplicates(t, rows, store) ==
    LET seen == Vectors(rows)
        repeated == {i \in seen : \E j \in seen \ {i} : rows[j].vec = rows[i].vec}
        copies == Cardinality(repeated) - Cardinality({rows[i].vec : i \in repeated})
    IN  Selecting(seen # {} /\ ~AtMost(copies, Cardinality(seen), t.rate), repeated, store)

\* Beyond `z` population deviations from the mean of these numbers (all times n).
Beyond(x, n, sum, squares, z) ==
    /\ n * squares - sum * sum > 0
    /\ (n * x - sum) * (n * x - sum) > z * z * (n * squares - sum * sum)

\* Distances from the centroid, of vectors of one dimension, times n.
EmbeddingOutliers(t, rows, store) ==
    LET seen == Vectors(rows) n == Cardinality(seen)
        centre == SumOver(seen, LAMBDA i : rows[i].vec[1])
        Distance(i) == IF n * rows[i].vec[1] >= centre THEN n * rows[i].vec[1] - centre
                       ELSE centre - n * rows[i].vec[1]
        sum == SumOver(seen, Distance)
        squares == SumOver(seen, LAMBDA i : Distance(i) * Distance(i))
        far == {i \in seen : n * Distance(i) > sum /\ Beyond(Distance(i), n, sum, squares, t.z)}
    IN  IF n < 3 THEN Passed
        ELSE IF ~OneDimension(rows) \/ ~AllFinite(rows) THEN Failed
        ELSE Selecting(~AtMost(Cardinality(far), n, t.rate), far, store)

------------------------------------------------------------------------------
(* Statistics of a column.  NULL and numbers that are not finite are out.  *)

Finites(rows) == SelectSeq([i \in DOMAIN rows |-> rows[i].v], LAMBDA v : v \notin {Null, NaN})

\* _percentile at q / of, times `of`.
Percentile(ordered, q, of) ==
    LET position == q * (Len(ordered) - 1)
        below == ordered[1 + position \div of]
        fraction == position % of
    IN  IF fraction = 0 THEN below * of
        ELSE below * (of - fraction) + ordered[2 + position \div of] * fraction

\* _stat_value as a fraction: <<numerator, denominator>>.
StatValue(t, values) ==
    LET n == Len(values)
    IN  CASE t.stat = "min" -> <<Min(ToSet(values)), 1>>
          [] t.stat = "max" -> <<Max(ToSet(values)), 1>>
          [] t.stat = "sum" -> <<Total(values), 1>>
          [] t.stat = "mean" -> <<Total(values), n>>
          [] t.stat = "median" -> <<Percentile(Ascending(values), 1, 2), 2>>
          [] t.stat = "quantile" -> <<Percentile(Ascending(values), t.quantile, 4), 4>>

\* The standard deviation is compared by its square; a negative maximum by its sign.
ColumnStat(t, rows) ==
    LET values == Finites(rows) n == Len(values)
        value == StatValue(t, values)
        variance == n * Squares(values) - Total(values) * Total(values)
        inside == IF t.stat = "stddev"
                  THEN /\ t.min = Absent \/ t.min <= 0 \/ variance >= t.min * t.min * n * n
                       /\ t.max = Absent \/ (t.max >= 0 /\ variance <= t.max * t.max * n * n)
                  ELSE /\ t.min = Absent \/ value[1] >= t.min * value[2]
                       /\ t.max = Absent \/ value[1] <= t.max * value[2]
    IN  IF values = <<>> \/ inside THEN Passed ELSE Failed

\* All NaNs are one value; NULLs count as rows.
Distinct(rows) == Cardinality({rows[i].v : i \in DOMAIN rows} \ {Null})
CardinalityTest(t, rows) ==
    IF /\ t.min = Absent \/ Distinct(rows) >= t.min
       /\ t.max = Absent \/ Distinct(rows) <= t.max
       /\ t.rate = Absent \/ AtMost(Distinct(rows), Len(rows), t.rate)
    THEN Passed ELSE Failed

\* t.k is the factor, in halves for the quartiles.
OutlierRate(t, rows, store) ==
    LET values == Finites(rows) n == Len(values)
        q1 == Percentile(Ascending(values), 1, 4) q3 == Percentile(Ascending(values), 3, 4)
        Outlier(x) == IF t.stat = "iqr"
                      THEN \/ 8 * x < 2 * q1 - t.k * (q3 - q1)
                           \/ 8 * x > 2 * q3 + t.k * (q3 - q1)
                      ELSE Beyond(x, n, Total(values), Squares(values), t.k)
        found == {i \in DOMAIN rows : rows[i].v \notin {Null, NaN} /\ Outlier(rows[i].v)}
    IN  IF n < 4 THEN Passed
        ELSE Selecting(~AtMost(Cardinality(found), n, t.rate), found, store)

------------------------------------------------------------------------------
(* Drift against a baseline: sequences of numbers.                         *)

\* _quantile_bin_edges, times `bins`, ascending and without repetition.
BinEdges(baseline, bins) ==
    Ascending(SetToSeq({Percentile(Ascending(baseline), q, bins) : q \in 0..bins}))

\* _bin_proportions as counts of Len(values); values outside fall into the last bins.
BinCounts(values, edges, bins) ==
    LET last == Len(edges) - 1
        Bin(v) == LET below == Cardinality({e \in DOMAIN edges : edges[e] <= v * bins})
                  IN  IF below < 1 THEN 1 ELSE IF below > last THEN last ELSE below
    IN  [b \in 1..last |-> Cardinality({i \in DOMAIN values : Bin(values[i]) = b})]

\* _around_proportions.
AroundCounts(values, pivot) ==
    <<Cardinality({i \in DOMAIN values : values[i] < pivot}),
      Cardinality({i \in DOMAIN values : values[i] = pivot}),
      Cardinality({i \in DOMAIN values : values[i] > pivot})>>

\* What psi, jensen_shannon and chi_squared compare.
DriftCounts(values, baseline, bins) ==
    LET edges == BinEdges(baseline, bins)
    IN  IF Len(edges) < 2 THEN AroundCounts(values, baseline[1])
        ELSE BinCounts(values, edges, bins)

\* _ks_statistic, times the two lengths.
KolmogorovSmirnov(current, baseline) ==
    LET UpTo(seq, v) == Cardinality({i \in DOMAIN seq : seq[i] <= v})
        Gap(v) == UpTo(current, v) * Len(baseline) - UpTo(baseline, v) * Len(current)
    IN  Max({IF Gap(v) < 0 THEN -Gap(v) ELSE Gap(v) : v \in ToSet(current \o baseline)})

DriftKS(t, rows, parent) ==
    LET current == Finites(rows) baseline == Finites(parent)
    IN  IF current = <<>> \/ baseline = <<>> THEN Passed
        ELSE IF AtMost(KolmogorovSmirnov(current, baseline), Len(current) * Len(baseline), t.max)
             THEN Passed ELSE Failed

------------------------------------------------------------------------------
(* Golden sets and judges.                                                 *)

Keys(rows) == {rows[i].k : i \in DOMAIN rows}
Close(actual, expected, tolerance) ==
    IF tolerance # Absent /\ Null \notin {actual, expected}
    THEN actual - expected \in -tolerance..tolerance ELSE actual = expected

\* Mutant: of the rows of one key the last is compared and the others are not seen.
GoldenLastRow(t, rows, parent) ==
    [duplicates |-> {}, missing |-> Keys(parent) \ Keys(rows),
     wrong |-> {g \in DOMAIN parent :
                  \E i \in DOMAIN rows :
                     /\ rows[i].k = parent[g].k /\ \A j \in DOMAIN rows : j > i => rows[j].k # rows[i].k
                     /\ ~Close(rows[i].v, parent[g].v, t.max)},
     extra |-> IF t.exhaustive THEN Keys(rows) \ Keys(parent) ELSE {}]

\* What _golden finds; the last row of a key is the one it compares.
GoldenFindings(t, rows, parent) ==
    LET LastOf(k) == Max({i \in DOMAIN rows : rows[i].k = k})
    IN  [duplicates |-> {k \in Keys(rows) : \E i, j \in DOMAIN rows :
                                               i # j /\ rows[i].k = k /\ rows[j].k = k},
         missing |-> Keys(parent) \ Keys(rows),
         wrong |-> {g \in DOMAIN parent :
                      /\ parent[g].k \in Keys(rows)
                      /\ ~Close(rows[LastOf(parent[g].k)].v, parent[g].v, t.max)},
         extra |-> IF t.exhaustive THEN Keys(rows) \ Keys(parent) ELSE {}]

GoldenTest(t, rows, parent) ==
    LET found == GoldenFindings(t, rows, parent)
    IN  IF Cardinality(Keys(parent)) # Len(parent) THEN Failed    \* UnknownTestError
        ELSE IF \A part \in DOMAIN found : found[part] = {} THEN Passed ELSE Failed

\* _llm_judge: the texts sorted, then sampled; a seed picks places, here the first.
Sample(t, rows) ==
    LET texts == SortSeq(SelectSeq([i \in DOMAIN rows |-> rows[i].v], LAMBDA v : v # Null),
                         LAMBDA x, y : x < y)
    IN  SubSeq(texts, 1, IF Len(texts) < t.size THEN Len(texts) ELSE t.size)

\* One call after the other, each behind the budget guard: ensure_headroom before, a
\* charge after that raises when the cap is passed.  `budget` is Absent or calls.
Judged(t, rows, budget) ==
    FoldLeft(LAMBDA run, v :
                IF run.over THEN run
                ELSE IF budget # Absent /\ run.calls >= budget THEN [run EXCEPT !.over = TRUE]
                ELSE [run EXCEPT !.calls = @ + 1, !.passed = @ + (IF v \in t.values THEN 1 ELSE 0)],
             [calls |-> 0, passed |-> 0, over |-> FALSE], Sample(t, rows))

JudgeTest(t, rows, budget) ==
    LET run == Judged(t, rows, budget)
    IN  IF Sample(t, rows) = <<>> THEN Passed
        ELSE IF ~run.over /\ 100 * run.passed >= t.min * Len(Sample(t, rows)) THEN Passed ELSE Failed

------------------------------------------------------------------------------
(* A model's tests.                                                        *)

\* _run_named_test.
RunNamedTest(t, rows, parent, store) ==
    CASE t.name \in {"not_null", "accepted_values", "matches_regex", "accepted_range",
                     "relationships", "grounded_in"} -> RowTest(t, rows, parent, store)
      [] t.name = "null_rate" -> NullRate(t, rows, store)
      [] t.name = "unique" -> Unique(rows, store)
      [] t.name = "min_rows" -> MinRows(t, rows)
      [] t.name = "min_metric" -> MinMetric(t, rows)
      [] t.name = "embedding_valid" -> EmbeddingValid(t, rows, store)
      [] t.name = "embedding_variance" -> EmbeddingVariance(t, rows)
      [] t.name = "embedding_duplicates" -> EmbeddingDuplicates(t, rows, store)
      [] t.name = "embedding_outliers" -> EmbeddingOutliers(t, rows, store)
      [] t.name = "column_stat" -> ColumnStat(t, rows)
      [] t.name = "cardinality" -> CardinalityTest(t, rows)
      [] t.name = "outlier_rate" -> OutlierRate(t, rows, store)
      [] t.name = "drift" -> DriftKS(t, rows, parent)
      [] t.name = "golden" -> GoldenTest(t, rows, parent)
      [] t.name = "llm_judge" -> JudgeTest(t, rows, t.max)

\* _apply_severity.
ApplySeverity(result, severity) ==
    IF result.status = "fail" /\ severity = "warn" THEN [result EXCEPT !.status = "warn"] ELSE result

\* evaluate_test_spec.
Evaluate(t, rows, parent, store) == ApplySeverity(RunNamedTest(t, rows, parent, store), t.severity)

\* declared_accepted_values and enum_test_specs: the derived checks of the fields of
\* a model, [column -> values], beside its declared ones, a sequence of [column, values].
EnumTests(fields, declared) ==
    {[column |-> c, values |-> fields[c]]
       : c \in {c \in DOMAIN fields : fields[c] # {} /\ \A i \in DOMAIN declared : declared[i].column # c}}

\* enum_test_drift.
EnumDrift(fields, declared) ==
    {i \in DOMAIN declared : /\ declared[i].column \in DOMAIN fields
                             /\ fields[declared[i].column] # {}
                             /\ declared[i].values # fields[declared[i].column]}

------------------------------------------------------------------------------
(* Properties.                                                             *)

\* What a test says of every pair of a relation and a parent, without and with --store-failures.
Ran(t, pairs) == [p \in pairs |-> [store \in BOOLEAN |-> Evaluate(t, p[1], p[2], store)]]
Keep(rows, which) == [k \in 1..Cardinality(which) |->
                         rows[CHOOSE i \in which : Cardinality({j \in which : j <= i}) = k]]

\* SQL promises no row order: no result depends on it, whatever the order of the rows and
\* of the parent's, except which of two rows of one key a golden set compares, and then it
\* fails anyway (schema.py:1608-1610).
Orders(seq) == Permutations(DOMAIN seq)
Ordered(seq, order) == [i \in DOMAIN seq |-> seq[order[i]]]
OrderUnseen(ran, rows, parent) ==
    /\ \A p \in DOMAIN ran : ran[p][FALSE].status = ran[<<rows, parent>>][FALSE].status
    /\ \A order \in Orders(rows) :
          {order[i] : i \in ran[<<Ordered(rows, order), parent>>][TRUE].rows}
             = ran[<<rows, parent>>][TRUE].rows
OrderIrrelevant(t, rows, parent) ==
    OrderUnseen(Ran(t, {<<Ordered(rows, order), parent>> : order \in Orders(rows)}
                          \cup {<<rows, Ordered(parent, order)>> : order \in Orders(parent)}),
                rows, parent)

\* Tests whose rate, or whose measure, the rows that are left change.
RateTests == {"outlier_rate", "embedding_outliers", "embedding_valid"}

\* --store-failures keeps the rows that explain the failure: without them the test
\* passes, and a test of single rows fails on each of them alone.  Duplicate NULLs
\* of a unique test are not among them, though they fail it (schema.py:262-285).
Explained(t, rows, plain, rest, single) ==
    LET nulls == {i \in DOMAIN rows : rows[i].v = Null}
    IN  /\ plain[FALSE].status = "pass" => plain[TRUE].rows = {}
        /\ (plain[FALSE].status = "fail" /\ t.name \notin RateTests /\ plain[TRUE].stored)
           => \/ rest[FALSE].status = "pass"
              \/ t.name = "unique" /\ Cardinality(nulls) > 1
        /\ t.name \in {"not_null", "accepted_values", "matches_regex", "accepted_range",
                       "relationships", "grounded_in", "embedding_valid"}
           => \A i \in plain[TRUE].rows : single[i][FALSE].status = "fail"
ExplainedBy(t, rows, parent, plain) ==
    LET rest == Keep(rows, DOMAIN rows \ plain[TRUE].rows)
        ran == Ran(t, {<<rest, parent>>} \cup {<<<<rows[i]>>, parent>> : i \in plain[TRUE].rows})
    IN  Explained(t, rows, plain, ran[<<rest, parent>>],
                  [i \in plain[TRUE].rows |-> ran[<<<<rows[i]>>, parent>>]])
StoredExplains(t, rows, parent) ==
    ExplainedBy(t, rows, parent, Ran(t, {<<rows, parent>>})[<<rows, parent>>])

\* Severity never turns a failure into a pass, nor a pass into anything, and keeps
\* the stored rows (schema.py:94-111).
OnlyLabels(plain, marked) ==
    \A store \in BOOLEAN :
       /\ marked[store].status = "pass" <=> plain[store].status = "pass"
       /\ marked[store].rows = plain[store].rows /\ marked[store].status # "fail"
SeverityOnlyLabels(t, rows, parent) ==
    OnlyLabels(Ran(t, {<<rows, parent>>})[<<rows, parent>>],
               Ran([t EXCEPT !.severity = "warn"], {<<rows, parent>>})[<<rows, parent>>])

\* A gate reads the newest evaluation: no older one can pass or fail it
\* (schema.py:418-426).
LatestDecides(t, rows) == MinMetric(t, rows) = MinMetric(t, Latest(rows))

\* A golden set passes exactly when the model, seen as a set of keyed rows, holds
\* what the golden model says, and nothing else when it is exhaustive.
GoldenMeans(t, rows, parent) ==
    GoldenTest(t, rows, parent) = Passed
    <=> /\ Cardinality(Keys(rows)) = Len(rows) /\ Cardinality(Keys(parent)) = Len(parent)
        /\ \A g \in DOMAIN parent : \E i \in DOMAIN rows :
              rows[i].k = parent[g].k /\ Close(rows[i].v, parent[g].v, t.max)
        /\ t.exhaustive => Keys(rows) \subseteq Keys(parent)

\* Drift compares proper distributions: every value lies in one bin, equal columns
\* are not drifted whatever the metric, a constant baseline notices every other
\* value, and a baseline with as many values as bins fills all of them
\* (schema.py:1231-1276).
DriftCompares(current, baseline, bins) ==
    LET edges == BinEdges(baseline, bins)
    IN  /\ Total(DriftCounts(current, baseline, bins)) = Len(current)
        /\ KolmogorovSmirnov(current, Reverse(current)) = 0
        /\ KolmogorovSmirnov(current, baseline) = KolmogorovSmirnov(baseline, current)
        /\ KolmogorovSmirnov(current, baseline) <= Len(current) * Len(baseline)
        /\ Len(edges) < 2 /\ ToSet(current) # ToSet(baseline)
           => DriftCounts(current, baseline, bins)[2] < Len(current)
        /\ bins <= Len(baseline) /\ Len(edges) >= 2
           => \A b \in 1..(Len(edges) - 1) : DriftCounts(baseline, baseline, bins)[b] > 0

\* A judge never passes on a sample it did not judge to the end, and never calls
\* more often than the sample or the budget allows (schema.py:1640-1683).
JudgeBounded(t, rows) ==
    LET run == Judged(t, rows, t.max)
    IN  /\ run.calls <= Len(Sample(t, rows)) /\ (t.max # Absent => run.calls <= t.max)
        /\ (JudgeTest(t, rows, t.max) = Passed => run.calls = Len(Sample(t, rows)))

\* Every enum field is checked, by its own values or by the declarations, and those
\* that disagree with it are all named (test_specs.py:471-554).
EnumsChecked(fields, declared) ==
    \A c \in DOMAIN fields :
       fields[c] # {} =>
          \/ [column |-> c, values |-> fields[c]] \in EnumTests(fields, declared)
          \/ \E i \in DOMAIN declared :
                declared[i].column = c
                /\ (i \in EnumDrift(fields, declared) \/ declared[i].values = fields[c])
==============================================================================
