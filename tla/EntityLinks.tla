------------------------------ MODULE EntityLinks ------------------------------
(***************************************************************************)
(* Entity linking (text/linking.py, text/transforms/_linking.py): how a    *)
(* mention is resolved against a reference set by text, by vector and by   *)
(* fuzzy score, and the rows one run of the transform writes.              *)
(* A text is a sequence of characters: 0 is white space, a negative number *)
(* the upper case of its absolute value.  An alias is a record             *)
(* [ns, id, text, vector]; a reference is a sequence of aliases, as the    *)
(* rows of a table come.  Scores are exact multiples of 1 / Scale.         *)
(***************************************************************************)
EXTENDS Integers, Sequences, FiniteSets, SequencesExt

Scale == 27720       \* the least common multiple of 1..12
NoText == <<>>
Failed == [failed |-> TRUE]

\* normalize_alias_text: case folded, white space collapsed and stripped.
NormalizeAliasText(text) ==
    LET Inked(from, to) == \E k \in from..to : text[k] # 0
        kept == SelectSeq([i \in DOMAIN text |-> i], LAMBDA i :
                   text[i] # 0 \/ (i > 1 /\ text[i - 1] # 0 /\ Inked(i, Len(text))))
    IN  [i \in DOMAIN kept |-> IF text[kept[i]] < 0 THEN -text[kept[i]] ELSE text[kept[i]]]

Blank(text) == \A i \in DOMAIN text : text[i] = 0
Namespaces(aliases) == {aliases[i].ns : i \in DOMAIN aliases}

\* A namespace's outcome: one winner is a match, several are ambiguous.
Resolution(method, ids) ==
    [method |-> method, status |-> IF Cardinality(ids) = 1 THEN "matched" ELSE "ambiguous",
     ids |-> ids]

\* _reference_rows, _reference_string and the vector checks: a reference that
\* cannot be indexed.
BadReference(aliases, byVector) ==
    \/ \E i \in DOMAIN aliases : aliases[i].ns = "" \/ aliases[i].id = ""
    \/ ~byVector /\ \E i \in DOMAIN aliases : Blank(aliases[i].text)
    \/ byVector /\ \E i, j \in DOMAIN aliases :
                      aliases[i].vector = <<>> \/ Len(aliases[i].vector) # Len(aliases[j].vector)

------------------------------------------------------------------------------
(* The three resolvers: a function from the namespaces that resolve.       *)

\* What a method's lookup table holds for a text in a namespace.
Hits(aliases, method, text, ns) ==
    LET Key(t) == IF method = "exact" THEN t ELSE NormalizeAliasText(t)
    IN  {aliases[i].id : i \in {j \in DOMAIN aliases :
            aliases[j].ns = ns /\ Key(aliases[j].text) = Key(text)}}

\* Mutant: the last method that finds candidates takes the namespace.
LastMethod(aliases, methods, text, ns) ==
    CHOOSE k \in DOMAIN methods : \A j \in DOMAIN methods :
       Hits(aliases, methods[j], text, ns) # {} => j <= k /\ Hits(aliases, methods[k], text, ns) # {}

\* The first method that finds candidates for a namespace.
WinningMethod(aliases, methods, text, ns) ==
    CHOOSE k \in DOMAIN methods : \A j \in DOMAIN methods :
       Hits(aliases, methods[j], text, ns) # {} => k <= j /\ Hits(aliases, methods[k], text, ns) # {}

\* _AliasTableReference.resolve: a namespace is resolved by one method.
AliasTableResolve(aliases, methods, text) ==
    LET hit == {ns \in Namespaces(aliases) :
                  \E k \in DOMAIN methods : Hits(aliases, methods[k], text, ns) # {}}
        Method(ns) == methods[WinningMethod(aliases, methods, text, ns)]
    IN  IF Blank(text) THEN <<>>
        ELSE [ns \in hit |-> Resolution(Method(ns), Hits(aliases, Method(ns), text, ns))]

\* _resolve_scored_candidates over the aliases that reach the threshold: the top
\* score of a namespace wins with everything in the margin below it.
ResolveScored(aliases, score, threshold, margin, method) ==
    LET In(ns) == {i \in DOMAIN aliases : aliases[i].ns = ns /\ score[i] >= threshold}
        Winners(ns) == {aliases[i].id : i \in
            {i \in In(ns) : \A j \in In(ns) : score[j] - score[i] <= margin}}
    IN  [ns \in {n \in Namespaces(aliases) : In(n) # {}} |-> Resolution(method, Winners(ns))]

\* _similarity by dot product.
Dot(a, b) == FoldLeft(LAMBDA sum, k : sum + a[k] * b[k], 0, [k \in DOMAIN a |-> k])

\* _VectorReference.resolve: an empty reference resolves nothing, a vector of
\* another dimension is an error.
VectorResolve(aliases, vector, threshold, margin) ==
    IF vector = <<>> \/ aliases = <<>> THEN <<>>
    ELSE IF Len(vector) # Len(aliases[1].vector) THEN Failed
    ELSE ResolveScored(aliases, [i \in DOMAIN aliases |-> Dot(vector, aliases[i].vector)],
                       threshold, margin, "dot")

\* str.split: the maximal runs without white space.
Words(text) ==
    {SubSeq(text, p[1], p[2]) : p \in {q \in (DOMAIN text) \X (DOMAIN text) :
        /\ q[1] <= q[2] /\ \A k \in q[1]..q[2] : text[k] # 0
        /\ q[1] = 1 \/ text[q[1] - 1] = 0
        /\ q[2] = Len(text) \/ text[q[2] + 1] = 0}}

\* _fuzzy_representation: words, or the character trigrams of the padded text.
FuzzyRepresentation(text, metric) ==
    LET padded == <<0, 0>> \o text \o <<0, 0>>
    IN  IF text = <<>> THEN {}
        ELSE IF metric = "jaccard_token" THEN Words(text)
        ELSE {SubSeq(padded, k, k + 2) : k \in 1..(Len(padded) - 2)}

\* _fuzzy_score.
FuzzyScore(a, b, metric) ==
    LET common == Cardinality(a \cap b)
    IN  IF a = {} \/ b = {} THEN 0
        ELSE IF metric = "jaccard_token" THEN (common * Scale) \div Cardinality(a \cup b)
        ELSE (2 * common * Scale) \div (Cardinality(a) + Cardinality(b))

\* _FuzzyReference.resolve.
FuzzyResolve(aliases, metric, normalize, threshold, margin, text) ==
    LET Prepare(t) == IF normalize THEN NormalizeAliasText(t) ELSE t
        signature == FuzzyRepresentation(Prepare(text), metric)
    IN  IF Blank(text) \/ signature = {} THEN <<>>
        ELSE ResolveScored(aliases,
               [i \in DOMAIN aliases |->
                  FuzzyScore(signature,
                             FuzzyRepresentation(Prepare(aliases[i].text), metric), metric)],
               threshold, margin, metric)

------------------------------------------------------------------------------
(* The driver.                                                             *)

\* resolver.resolve under the options [resolver, methods, metric, normalize,
\* threshold, margin, onAmbiguity].
Resolve(aliases, o, mention) ==
    CASE o.resolver = "alias_table" -> AliasTableResolve(aliases, o.methods, mention.text)
      [] o.resolver = "vector_similarity" ->
             VectorResolve(aliases, mention.vector, o.threshold, o.margin)
      [] o.resolver = "fuzzy" ->
             FuzzyResolve(aliases, o.metric, o.normalize, o.threshold, o.margin, mention.text)

\* alias_set_version: the set of triples that the resolver can tell apart.
ReferenceFingerprint(aliases, o) ==
    {<<aliases[i].ns, aliases[i].id,
       IF o.resolver = "vector_similarity" THEN aliases[i].vector ELSE aliases[i].text>>
        : i \in DOMAIN aliases}

\* _link_row of every candidate, or of the mention that resolves nowhere.
LinkRows(mention, resolved) ==
    IF DOMAIN resolved = {}
    THEN {[mention |-> mention.id, doc |-> mention.doc, ns |-> "", id |-> "", method |-> "",
           status |-> "unmatched"]}
    ELSE UNION {{[mention |-> mention.id, doc |-> mention.doc, ns |-> ns, id |-> id,
                  method |-> resolved[ns].method, status |-> resolved[ns].status]
                    : id \in resolved[ns].ids} : ns \in DOMAIN resolved}

\* _input_mentions: every mention has an id of its own and a document.
BadMentions(mentions) ==
    \/ \E i \in DOMAIN mentions : mentions[i].id = "" \/ mentions[i].doc = ""
    \/ \E i, j \in DOMAIN mentions : i # j /\ mentions[i].id = mentions[j].id

\* run_links.  No mentions, no reference is looked at.
RunLinks(mentions, aliases, o) ==
    LET resolved == [i \in DOMAIN mentions |-> Resolve(aliases, o, mentions[i])]
        rows == UNION {LinkRows(mentions[i], resolved[i]) : i \in DOMAIN mentions}
    IN  IF BadMentions(mentions) THEN Failed
        ELSE IF mentions = <<>> THEN [rows |-> {}]
        ELSE IF BadReference(aliases, o.resolver = "vector_similarity") THEN Failed
        ELSE IF \E i \in DOMAIN mentions : resolved[i] = Failed THEN Failed
        ELSE IF o.onAmbiguity = "error" /\ \E r \in rows : r.status = "ambiguous" THEN Failed
        ELSE [rows |-> rows]

------------------------------------------------------------------------------
(* What the driver promises.                                               *)

Rows(result) == IF result = Failed THEN {} ELSE result.rows
Of(mentions, docs) == SelectSeq(mentions, LAMBDA m : m.doc \in docs)

\* Never a silent guess (linking.py:1-15, 333-375): in a namespace a mention has
\* either one row, matched, or several, all ambiguous and by one method; a mention
\* that resolves nowhere has exactly one row that says so.
NothingGuessed(rows) ==
    LET In(r) == {s \in rows : s.mention = r.mention /\ s.ns = r.ns}
    IN  \A r \in rows :
           /\ r.status = "unmatched" => {s \in rows : s.mention = r.mention} = {r}
           /\ r.status = "matched" => In(r) = {r}
           /\ r.status = "ambiguous" =>
                 Cardinality(In(r)) > 1 /\ \A s \in In(r) : s.method = r.method
NeverGuesses(mentions, aliases, o) == NothingGuessed(Rows(RunLinks(mentions, aliases, o)))

\* An exact text match is never overridden by a looser one (linking.py:447-470).
ExactFirst(mentions, aliases, o) ==
    o.resolver = "alias_table" /\ o.methods[1] = "exact" =>
       \A r \in Rows(RunLinks(mentions, aliases, o)), i \in DOMAIN mentions :
          /\ r.mention = mentions[i].id /\ r.status # "unmatched"
          /\ Hits(aliases, "exact", mentions[i].text, r.ns) # {}
          => r.method = "exact"

\* References with one fingerprint link every mention alike, whatever the order and
\* the repetitions of their rows (linking.py:404-416).
FingerprintDecides(mentions, aliases, others, o) ==
    ReferenceFingerprint(aliases, o) = ReferenceFingerprint(others, o) =>
       RunLinks(mentions, aliases, o) = RunLinks(mentions, others, o)

\* What an incremental run relies on (_linking.py:57-71): the links of some documents
\* are those rows of the links of all.
NarrowsTo(whole, part, docs) ==
    whole # Failed => Rows(part) = {r \in Rows(whole) : r.doc \in docs}
LinksByDocument(mentions, aliases, o, docs) ==
    NarrowsTo(RunLinks(mentions, aliases, o), RunLinks(Of(mentions, docs), aliases, o), docs)
==============================================================================
