---------------------------- MODULE EntityRelations ----------------------------
(***************************************************************************)
(* Relation extraction (text/relations.py, text/transforms/_relations.py): *)
(* the pairs of a document's mentions in scope, what each extractor makes  *)
(* of them, and the rows of one run.  A mention is a record [id, doc,      *)
(* sentence, start, end, label]; sentence is 0 where it is null.           *)
(***************************************************************************)
EXTENDS Integers, Sequences, FiniteSets, SequencesExt

Refused == [refused |-> TRUE]

\* _order_key: where a mention starts, where it ends, then its id.
Before(m, n) ==
    \/ m.start < n.start
    \/ m.start = n.start /\ m.end < n.end
    \/ m.start = n.start /\ m.end = n.end /\ m.id < n.id

\* _grouped_mentions refuses the table: an id twice.
Ambiguous(mentions) ==
    \E i, j \in DOMAIN mentions : i # j /\ mentions[i].id = mentions[j].id

\* _grouped_mentions: a document's mentions with an admitted label, sorted.
GroupedMentions(mentions, doc, labels) ==
    SetToSortSeq({m \in ToSet(mentions) : m.doc = doc /\ (labels = {} \/ m.label \in labels)},
                 Before)

\* _candidate_pairs: <<earlier, later>> in one sentence, or at most `gap`
\* characters apart; an overlap always qualifies.
CandidatePairs(group, o) ==
    {<<group[p[1]], group[p[2]]>> : p \in {q \in (DOMAIN group) \X (DOMAIN group) :
        /\ q[1] < q[2]
        /\ IF o.scope = "sentence" THEN group[q[1]].sentence = group[q[2]].sentence
           ELSE group[q[2]].start - group[q[1]].end <= o.gap}}

\* Two mentions and more, and either a null sentence or more pairs than the cap.
PairsRefused(group, o) ==
    /\ Len(group) >= 2
    /\ \/ o.scope = "sentence" /\ \E i \in DOMAIN group : group[i].sentence = 0
       \/ Cardinality(CandidatePairs(group, o)) > o.maxPairs

Relation(subject, object, type, directed, status) ==
    [subject |-> subject.id, object |-> object.id, type |-> type, directed |-> directed,
     status |-> status,
     sentence |-> IF subject.sentence = object.sentence THEN subject.sentence ELSE 0]

\* CoOccurrenceExtractor.extract.
CoOccurrences(group, o) ==
    {Relation(p[1], p[2], o.type, FALSE, "asserted") : p \in CandidatePairs(group, o)}

\* RuleExtractor.extract: both orientations of every pair, the rule's direction.
RuleRelations(group, o) ==
    UNION {{Relation(q[1], q[2], rule.type, TRUE, "asserted")
              : q \in {q \in {p, <<p[2], p[1]>>} :
                         q[1].label = rule.subject /\ q[2].label = rule.object}}
           : p \in CandidatePairs(group, o), rule \in o.rules}

\* The assertions that name a candidate pair, in either direction, and an allowed type.
Governed(group, o, assertions) ==
    LET pairs == {{p[1].id, p[2].id} : p \in CandidatePairs(group, o)}
    IN  {a \in ToSet(assertions) :
           a.subject # a.object /\ {a.subject, a.object} \in pairs /\ a.type \in o.types}

\* Mutant: what the model names is taken as it comes.
Ungoverned(group, o, assertions) ==
    {a \in ToSet(assertions) : a.subject # a.object
       /\ {a.subject, a.object} \subseteq {group[i].id : i \in DOMAIN group}}

\* ModelAssertionExtractor.extract: the best confidence of a directed pair and type
\* counts, a directed pair with several types is ambiguous.
ModelAssertions(group, o, assertions) ==
    LET governed == Governed(group, o, assertions)
        Mention(id) == CHOOSE m \in ToSet(group) : m.id = id
        Same(a) == {b \in governed : b.subject = a.subject /\ b.object = a.object}
        Types(a) == {b.type : b \in Same(a)}
        Sure(a) == \E b \in Same(a) : b.type = a.type /\ b.confidence >= o.threshold
        Status(a) == IF Cardinality(Types(a)) > 1 THEN "ambiguous"
                     ELSE IF Sure(a) THEN "asserted" ELSE "no_relation"
    IN  {Relation(Mention(a.subject), Mention(a.object), a.type, o.directed, Status(a))
           : a \in governed}

\* extractor.extract of one document; the provider is asked only about pairs.
Extract(group, o, assertions) ==
    IF Len(group) < 2 THEN {}
    ELSE CASE o.extractor = "co_occurrence" -> CoOccurrences(group, o)
           [] o.extractor = "rule" -> RuleRelations(group, o)
           [] o.extractor = "model_assertion" -> ModelAssertions(group, o, assertions)

\* run_relations: the rows of every document, or the run's error.
RunRelations(mentions, o, assertions) ==
    LET docs == {m.doc : m \in ToSet(mentions)}
        Group(d) == GroupedMentions(mentions, d, o.labels)
    IN  IF Ambiguous(mentions) \/ \E d \in docs : PairsRefused(Group(d), o) THEN Refused
        ELSE [rows |-> UNION {{r @@ [doc |-> d] : r \in Extract(Group(d), o, assertions)} : d \in docs}]

\* relation_id: what the child key is made of.
RelationId(row) == <<row.doc, row.subject, row.object, row.type>>

------------------------------------------------------------------------------
(* What the extractors promise.                                            *)

Found(mentions, o, assertions) ==
    LET result == RunRelations(mentions, o, assertions)
    IN  IF result = Refused THEN {} ELSE result.rows

\* The child key is unique: the upsert of an incremental run would otherwise fail
\* or lose a row (relations.py:640-661, transform.py:525-531).
RelationIdsUnique(mentions, o, assertions) ==
    \A r, s \in Found(mentions, o, assertions) : RelationId(r) = RelationId(s) => r = s

\* Only mentions of one document, with admitted labels, of one sentence or within
\* the window, are related; proximity is stated once per pair, a rule's relation
\* runs between its labels, a model's only of an allowed type (relations.py:1-22).
RelationsInScope(mentions, o, assertions) ==
    LET Mention(id) == CHOOSE m \in ToSet(mentions) : m.id = id
        Near(m, n) == \/ o.scope = "sentence" /\ m.sentence = n.sentence
                      \/ o.scope = "window" /\ n.start - m.end <= o.gap /\ m.start - n.end <= o.gap
    IN  \A r \in Found(mentions, o, assertions) :
           LET m == Mention(r.subject) n == Mention(r.object)
           IN  /\ m # n /\ m.doc = r.doc /\ n.doc = r.doc /\ Near(m, n)
               /\ o.labels # {} => {m.label, n.label} \subseteq o.labels
               /\ o.extractor = "co_occurrence" =>
                     ~\E s \in Found(mentions, o, assertions) :
                         s.subject = r.object /\ s.object = r.subject
               /\ o.extractor = "rule" =>
                     \E rule \in o.rules : <<m.label, n.label, r.type>>
                                            = <<rule.subject, rule.object, rule.type>>
               /\ o.extractor = "model_assertion" => r.type \in o.types

\* The order of the mention table's rows does not count.
RelationsUnordered(mentions, o, assertions) ==
    RunRelations(Reverse(mentions), o, assertions) = RunRelations(mentions, o, assertions)
================================================================================
