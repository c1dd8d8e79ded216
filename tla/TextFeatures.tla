------------------------------ MODULE TextFeatures ------------------------------
(* The text half of classic ML (classic_ml/text.py, common.py, classifier.py): *)
(* how source rows become terms, which terms a vectorizer keeps, the feature   *)
(* rows and the naive Bayes predictions it makes of them, and which persisted  *)
(* artifacts it takes back.                                                    *)
(* A text is a sequence of characters: 0 is what no word holds, a negative     *)
(* number the upper case of its absolute value. A term is a text, too: words   *)
(* joined by a space, or characters. 0 stands for NULL.                        *)
EXTENDS Integers, Sequences, FiniteSets, SequencesExt, Functions

\* Strings and rows are ordered the way their characters are.
Before(a, b) ==
    \/ IsStrictPrefix(a, b)
    \/ \E k \in 1..Len(a) : /\ k <= Len(b) /\ a[k] < b[k]
                            /\ SubSeq(a, 1, k - 1) = SubSeq(b, 1, k - 1)
Sorted(S, Lt(_, _)) ==
    [k \in 1..Cardinality(S) |-> CHOOSE x \in S : Cardinality({y \in S : Lt(y, x)}) = k - 1]
Times(term, terms) == Cardinality({i \in DOMAIN terms : terms[i] = term})

------------------------------------------------------------------------------
(* Source rows.                                                             *)

\* _canonical_row_key: the stable identifier, then the content.
Content(row) == <<row.chunk, row.doc, row.id, row.label>> \o row.text
CanonicalRowKey(row) ==
    LET ids == SelectSeq(<<row.chunk, row.doc, row.id>>, LAMBDA v : v # 0)
    IN  IF ids = <<>> THEN <<1>> \o Content(row) ELSE <<0, Head(ids)>> \o Content(row)

\* _source_rows: training input does not depend on the order of SELECT *.
SourceRows(df) ==
    LET order == Sorted(DOMAIN df, LAMBDA i, j :
                   LET a == CanonicalRowKey(df[i]) b == CanonicalRowKey(df[j])
                   IN  Before(a, b) \/ (a = b /\ i < j))
    IN  [k \in DOMAIN order |-> LET row == df[order[k]] IN
           [index |-> k - 1,
            id |-> IF row.doc # 0 THEN row.doc ELSE IF row.id # 0 THEN row.id ELSE k - 1,
            text |-> row.text, label |-> row.label]]

\* _training_input, the hash taken for the content.
TrainingInput(rows) == [k \in DOMAIN rows |-> <<rows[k].id, rows[k].text, rows[k].label>>]

------------------------------------------------------------------------------
(* Analysis.                                                                *)

\* _token_ngrams and _char_ngrams: the runs of tokens, or of letters, of every size.
Ngrams(tokens, range) ==
    LET Size(n) == range[1] + n - 1
    IN  FlattenSeq([n \in 1..(range[2] - range[1] + 1) |->
          IF Len(tokens) < Size(n) THEN <<>>
          ELSE [i \in 1..(Len(tokens) - Size(n) + 1) |->
                 SubSeq(tokens, i, i + Size(n) - 1)]])

\* Maximal runs of word characters, and the pieces between white space.
Words(text) ==
    LET first == Sorted({i \in DOMAIN text : text[i] # 0 /\ (i = 1 \/ text[i - 1] = 0)},
                              LAMBDA i, j : i < j)
        Stop(i) == CHOOSE j \in i..Len(text) :
                     /\ \A k \in i..j : text[k] # 0
                     /\ j = Len(text) \/ text[j + 1] = 0
    IN  [k \in DOMAIN first |-> SubSeq(text, first[k], Stop(first[k]))]

\* _analyze: the terms of a text.
Analyze(text, o) ==
    LET lowered == [i \in DOMAIN text |-> IF o.lowercase /\ text[i] < 0 THEN -text[i] ELSE text[i]]
        runs == Ngrams(SelectSeq(Words(lowered), LAMBDA w : w \notin o.stop), o.ngrams)
        Spaced(words) == Tail(FlattenSeq([i \in DOMAIN words |-> <<0>> \o words[i]]))
    IN  CASE o.analyzer = "word" -> [k \in DOMAIN runs |-> Spaced(runs[k])]
          [] o.analyzer = "char_wb" ->
               FlattenSeq([k \in DOMAIN Words(lowered) |->
                             Ngrams(<<0>> \o Words(lowered)[k] \o <<0>>, o.ngrams)])
          [] OTHER -> Ngrams(lowered, o.ngrams)

------------------------------------------------------------------------------
(* The vocabulary.                                                          *)

DocFreq(docs) ==
    [t \in UNION {Range(docs[d]) : d \in DOMAIN docs} |->
       Cardinality({d \in DOMAIN docs : t \in Range(docs[d])})]

\* _df_threshold: a share of the documents, in tenths, or a count of them.
DfThreshold(value, n, default, ceiling) ==
    CASE value.of = 0 -> default
      [] value.share -> (value.of * n + IF ceiling THEN 9 ELSE 0) \div 10
      [] OTHER -> value.of

\* _select_terms: the most frequent of the terms within the thresholds, in their order.
Eligible(freq, n, o) ==
    {t \in DOMAIN freq : /\ freq[t] >= DfThreshold(o.minDf, n, 1, TRUE)
                         /\ freq[t] <= DfThreshold(o.maxDf, n, n, FALSE)}
SelectTerms(freq, n, o) ==
    LET ranked == Sorted(Eligible(freq, n, o), LAMBDA s, t :
                    freq[s] > freq[t] \/ (freq[s] = freq[t] /\ Before(s, t)))
        kept == IF o.max = 0 \/ o.max > Len(ranked) THEN ranked ELSE SubSeq(ranked, 1, o.max)
    IN  IF n = 0 THEN <<>> ELSE Sorted(Range(kept), Before)

\* _fit_vectorizer; an idf is the pair its logarithm is taken of.
FitVectorizer(rows, provider, o) ==
    LET docs == [k \in DOMAIN rows |-> Analyze(rows[k].text, o)]
        freq == DocFreq(docs)
        terms == SelectTerms(freq, Len(rows), o)
    IN  IF provider = "hashing"
        THEN [provider |-> provider, terms |-> <<>>, idf |-> <<>>, features |-> o.buckets, options |-> o]
        ELSE [provider |-> provider, terms |-> terms, features |-> Len(terms), options |-> o,
              idf |-> IF provider = "tfidf"
                      THEN [t \in Range(terms) |-> <<1 + Len(rows), 1 + freq[t]>>] ELSE <<>>]

------------------------------------------------------------------------------
(* Feature rows: a set per source row, since a term has one.                *)

\* What blake2b makes of a term: a bucket and a sign that do not depend on each other.
Digest(term) == FoldLeft(LAMBDA sum, c : 3 * sum + c, 1, term)
Sign(term) == IF Len(term) % 2 = 0 THEN -1 ELSE 1

HashedFeatureRows(rows, v) ==
    UNION {LET tokens == Analyze(rows[k].text, v.options)
               Bucket(i) == Digest(tokens[i]) % v.features
               Net(b) == SumFunctionOnSet(
                            [i \in DOMAIN tokens |-> IF v.options.alternate THEN Sign(tokens[i]) ELSE 1],
                            {i \in DOMAIN tokens : Bucket(i) = b})
           IN  {[row |-> rows[k].index, term |-> b, index |-> b, value |-> <<Net(b), 1>>, idf |-> <<>>]
                  : b \in {Bucket(i) : i \in DOMAIN tokens}}
             : k \in DOMAIN rows}

\* _feature_rows: only terms of the vocabulary; the value is the term's share times its idf,
\* or its count.
FeatureRows(rows, v) ==
    IF v.provider = "hashing" THEN HashedFeatureRows(rows, v)
    ELSE UNION {LET tokens == SelectSeq(Analyze(rows[k].text, v.options), LAMBDA t : t \in Range(v.terms))
                    Count(t) == IF v.options.binary THEN 1 ELSE Times(t, tokens)
                    total == IF v.options.binary THEN Cardinality(Range(tokens)) ELSE Len(tokens)
                    Idf(t) == IF t \in DOMAIN v.idf THEN v.idf[t] ELSE <<>>
                IN  {[row |-> rows[k].index, term |-> t,
                      index |-> (CHOOSE i \in DOMAIN v.terms : v.terms[i] = t) - 1,
                      value |-> <<Count(t), IF Idf(t) = <<>> THEN 1 ELSE total>>, idf |-> Idf(t)]
                       : t \in Range(tokens)}
                  : k \in DOMAIN rows}

------------------------------------------------------------------------------
(* Naive Bayes: probabilities are fractions, and a score is a product.      *)

Share(n, d) == [n |-> n, d |-> d]
Less(a, b) == a.n * b.d < b.n * a.d
Product(f, S) == FoldFunctionOnSet(LAMBDA a, b : a * b, 1, f, S)
Power(b, e) == FoldLeft(LAMBDA p, k : p * b, 1, [k \in 1..e |-> k])

\* _fit_naive_bayes, the smoothing alpha a whole number.
FitNaiveBayes(rows, o) ==
    LET known == SelectSeq(rows, LAMBDA r : r.label # 0)
        docs == [k \in DOMAIN known |-> Analyze(known[k].text, o)]
        terms == SelectTerms(DocFreq(docs), Len(known), o)
        labels == {known[k].label : k \in DOMAIN known}
        Of(l) == {k \in DOMAIN known : known[k].label = l}
        Count(l, t) == SumFunctionOnSet( [k \in DOMAIN known |-> Times(t, docs[k])], Of(l))
        All(l) == SumFunctionOnSet( [t \in Range(terms) |-> Count(l, t)], Range(terms))
        Room == IF terms = <<>> THEN 1 ELSE Len(terms)
    IN  [classes |-> labels, terms |-> terms, options |-> o,
         prior |-> [l \in labels |-> Share(Cardinality(Of(l)) + o.alpha,
                                           Len(known) + o.alpha * Cardinality(labels))],
         chance |-> [l \in labels |-> [t \in Range(terms) |->
                       Share(Count(l, t) + o.alpha, All(l) + o.alpha * Room)]]]

\* _classifier_prediction_rows: the likeliest class, the first of equals.
Score(c, l, tokens) ==
    LET seen == Range(tokens)
    IN  Share(c.prior[l].n * Product(
                [t \in seen |-> Power(c.chance[l][t].n, Times(t, tokens))], seen),
              c.prior[l].d * Product(
                [t \in seen |-> Power(c.chance[l][t].d, Times(t, tokens))], seen))
Prediction(c, text) ==
    LET tokens == SelectSeq(Analyze(text, c.options), LAMBDA t : t \in Range(c.terms))
        best == {l \in c.classes : \A m \in c.classes :
                   ~Less(Score(c, l, tokens), Score(c, m, tokens))}
    IN  CHOOSE l \in best : \A m \in best : l <= m
PredictionRows(rows, c) ==
    {[row |-> rows[k].index, id |-> rows[k].id, class |-> Prediction(c, rows[k].text),
      correct |-> IF rows[k].label = 0 THEN "unknown"
                  ELSE IF rows[k].label = Prediction(c, rows[k].text) THEN "yes" ELSE "no"]
       : k \in DOMAIN rows}

\* _classifier_metrics: accuracy over the rows that have a label.
Accuracy(predictions) ==
    LET judged == {p \in predictions : p.correct # "unknown"}
    IN  Share(Cardinality({p \in judged : p.correct = "yes"}), Cardinality(judged))

------------------------------------------------------------------------------
(* Artifacts on disk: metadata that names its version and the hash of the   *)
(* payload (taken for what is hashed), and the payload.                     *)

WriteArtifact(v) ==
    LET payload == [provider |-> v.provider, terms |-> v.terms, idf |-> v.idf, options |-> v.options]
        body == [provider |-> v.provider, options |-> v.options, count |-> v.features,
                 files |-> IF v.provider = "hashing" THEN <<v.provider, v.options, v.features>>
                           ELSE payload]
    IN  [body |-> body, version |-> body, payload |-> payload]

\* _validate_metadata and _validate_artifact_payload, then what _read_artifact compares.
Sealed(a, provider) ==
    /\ a.body.provider = provider /\ a.version = a.body
    /\ a.body.files = IF provider = "hashing"
                      THEN <<provider, a.body.options, a.body.options.buckets>> ELSE a.payload
ReadArtifact(a, provider) ==
    /\ Sealed(a, provider)
    /\ IF provider = "hashing" THEN a.body.count = a.body.options.buckets
       ELSE /\ a.payload.provider = provider
            /\ Cardinality(Range(a.payload.terms)) = Len(a.payload.terms)
            /\ provider = "count" => a.payload.idf = <<>>
            /\ provider = "tfidf" => DOMAIN a.payload.idf = Range(a.payload.terms)
            /\ a.payload.options = a.body.options
            /\ a.body.count = Len(a.payload.terms)
Loaded(a) == [provider |-> a.body.provider, terms |-> a.payload.terms, idf |-> a.payload.idf,
              features |-> a.body.count, options |-> a.body.options]

------------------------------------------------------------------------------
(* Properties.                                                              *)

\* What is trained does not depend on the order the warehouse returned the rows in.
Trained(rows, v) == <<v, FeatureRows(rows, v)>>
TrainsAlike(inputs, provider, o) ==
    Cardinality({<<TrainingInput(r), Trained(r, FitVectorizer(r, provider, o))>> : r \in inputs}) = 1
TrainingUnordered(df, provider, o) ==
    TrainsAlike({SourceRows(p) : p \in {df, Reverse(df), SubSeq(df, 2, Len(df)) \o SubSeq(df, 1, 1)}},
                provider, o)

\* A kept term is in enough and not too many documents, no more frequent one was cut for it,
\* and every term of a text that was kept has a feature row of its own.
KeepsTerms(rows, docs, v, found, o) ==
    LET n == Len(rows)
        Docs(t) == {k \in DOMAIN rows : t \in Range(docs[k])}
    IN  /\ \A t \in Range(v.terms) :
              /\ Docs(t) # {}
              /\ ~o.minDf.share \/ Cardinality(Docs(t)) * 10 >= o.minDf.of * n
              /\ o.maxDf.of = 0 \/ ~o.maxDf.share \/ Cardinality(Docs(t)) * 10 <= o.maxDf.of * n
              /\ \A k \in Docs(t) :
                    Cardinality({f \in found : f.row = rows[k].index /\ f.term = t}) = 1
        /\ \A s \in Eligible(DocFreq(docs), n, o) \ Range(v.terms) :
              /\ Len(v.terms) = o.max
              /\ \A t \in Range(v.terms) : Cardinality(Docs(t)) >= Cardinality(Docs(s))
KeptByRows(rows, v, o) ==
    KeepsTerms(rows, [k \in DOMAIN rows |-> Analyze(rows[k].text, o)], v, FeatureRows(rows, v), o)
VocabularySound(df, provider, o) ==
    provider # "hashing" => KeptByRows(SourceRows(df), FitVectorizer(SourceRows(df), provider, o), o)

\* An artifact is read back as the vectorizer that wrote it, and one whose parts were changed
\* apart from each other is refused.
ReadAsWritten(v, a, provider) ==
    LET forged == {[a EXCEPT !.payload.terms = <<<<9>>>> \o @],
                   [a EXCEPT !.body.count = @ + 1], [a EXCEPT !.body.options.binary = ~@],
                   [a EXCEPT !.body.count = @ + 1, !.version.count = @ + 1],
                   [a EXCEPT !.body.options.binary = ~@, !.version.options.binary = ~@],
                   [a EXCEPT !.body.provider = "other", !.version.provider = "other"]}
    IN  /\ ReadArtifact(a, provider) /\ Loaded(a) = v
        /\ \A f \in forged : ReadArtifact(f, provider) =>
              provider = "hashing" /\ f.body = a.body
PublishedSound(v, provider) == ReadAsWritten(v, WriteArtifact(v), provider)
ArtifactsRefused(df, provider, o) == PublishedSound(FitVectorizer(SourceRows(df), provider, o), provider)

\* A classifier's chances sum to one, it does not depend on the order of the rows, and it
\* only ever answers with a class it has seen.
Whole(a) == a.n = a.d /\ a.d > 0
ChancesAddUp(rows, c) ==
       /\ \A l \in c.classes : LET chances == c.chance[l] IN c.terms # <<>> =>
             SumFunctionOnSet( [t \in DOMAIN chances |-> chances[t].n], DOMAIN chances)
               = chances[Head(c.terms)].d
       /\ SumFunctionOnSet( [l \in c.classes |-> c.prior[l].n], c.classes)
            = c.prior[CHOOSE l \in c.classes : TRUE].d
       /\ \A k \in DOMAIN rows : Prediction(c, rows[k].text) \in {rows[j].label : j \in DOMAIN rows} \ {0}
       /\ Cardinality(c.classes) = 1 => Whole(Accuracy(PredictionRows(rows, c)))
ClassifierSound(df, o) ==
    (\E k \in DOMAIN df : df[k].label # 0) =>
       /\ Cardinality({FitNaiveBayes(SourceRows(p), o) : p \in {df, Reverse(df)}}) = 1
       /\ ChancesAddUp(SourceRows(df), FitNaiveBayes(SourceRows(df), o))
==============================================================================
