---------------------------- MODULE ProjectContract ----------------------------
(***************************************************************************)
(* What a project is refused for before it touches the warehouse           *)
(* (compiler.py), the graph that is built of it (dag.py), the references   *)
(* of a SQL model (sql_models.py), and against them what the executors     *)
(* read, call and serve.                                                   *)
(* A project is a record: its models, the names of its sources, and the    *)
(* files of its SQL models.  A reference `ref('x')` is the name x.         *)
(***************************************************************************)
EXTENDS ModelContracts

Range1(seq, field(_)) == {field(seq[i]) : i \in DOMAIN seq}

NameOf(m) == m.name
Names(p) == Range1(p.models, NameOf)
Named(p, name) == CHOOSE m \in ToSet(p.models) : m.name = name
IsSearch(m) == "search" \in m.kinds
SearchNames(p) == {n \in Names(p) : IsSearch(Named(p, n))}
IsSql(m) == "transform" \in m.kinds /\ m.transform.type = "sql"
IsPython(m) == "transform" \in m.kinds /\ m.transform.type = "python"
Incremental(m) == m.materialization = "incremental"

------------------------------------------------------------------------------
(* SQL models.  A template is a sequence of calls, [fn, arg, literal]; the  *)
(* statement around them is one SELECT, or it is not.                       *)

\* discover_refs: ref of one literal name, and is_incremental without arguments.
TemplateValid(sql) ==
    \A i \in DOMAIN sql.calls :
       \/ sql.calls[i].fn = "ref" /\ sql.calls[i].literal
       \/ sql.calls[i].fn = "is_incremental" /\ sql.calls[i].arg = ""

Refs(sql) ==
    LET calls == SelectSeq(sql.calls, LAMBDA c : c.fn = "ref")
    IN  [i \in DOMAIN calls |-> calls[i].arg]

\* read_sql_source and validate_single_select
StatementValid(sql) == sql.exists /\ sql.suffix = ".sql" /\ sql.verb \in {"select", "with"}
                       /\ sql.statements = 1

SqlValid(m, sql) ==
    /\ Given(m.transform.path) /\ ~m.agent
    /\ Incremental(m) => Given(m.uniqueKey)
    /\ StatementValid(sql) /\ TemplateValid(sql)
    /\ Refs(sql) # <<>>
    /\ m.deps # <<>> => ToSet(m.deps) = ToSet(Refs(sql))

\* The models a model depends on once its SQL was read and its eval edges were derived.
DependsOn(m, p) ==
    IF IsSql(m) THEN ToSet(Refs(p.sql[m.name]))
    ELSE IF "eval" \in m.kinds THEN ToSet(EvalEdges(m)) ELSE ToSet(m.deps)

\* _populate_sql_depends_on: what the loader wrote into the model for every later reader of
\* the graph; a template it cannot read is left for the compiler.
LoadedDeps(m, p) ==
    IF IsSql(m) /\ Given(m.transform.path) /\ m.deps = <<>>
       /\ p.sql[m.name].exists /\ p.sql[m.name].suffix = ".sql" /\ TemplateValid(p.sql[m.name])
    THEN Refs(p.sql[m.name]) ELSE m.deps

------------------------------------------------------------------------------
(* The checks of one model.                                                 *)

\* The models that a test compares with: ref_target.
Targets(m) == {m.tests[i].to : i \in {i \in DOMAIN m.tests :
                 m.tests[i].name \in {"relationships", "drift", "golden"}}}

TestsValid(m, p) == /\ IsSearch(m) => m.tests = <<>>
                    /\ Targets(m) \subseteq Names(p) \ p.sources

SourceValid(m, p) ==
    CASE m.source.how = "dbt" -> IsPython(m) /\ m.source.name \notin Names(p) \cup p.sources
      [] "extraction" \in m.kinds ->
            /\ m.source.how = "ref" /\ ~m.hasDeps
            /\ m.source.name \in p.sources \ Names(p)
      [] OTHER -> m.source.how = "none"

Arity(m, n) ==
    CASE m.kinds \cap {"search", "chunk", "embed", "llm"} # {} -> n = 1
      [] "ml" \in m.kinds -> n > 0
      [] "transform" \in m.kinds -> n > 0 \/ m.source.how = "dbt"
      [] OTHER -> TRUE

EdgesValid(m, p) ==
    /\ SourceValid(m, p)
    /\ "extraction" \notin m.kinds =>
          /\ Arity(m, Cardinality(DependsOn(m, p)))
          /\ ~IsSql(m) => Distinct(m.deps)
          /\ DependsOn(m, p) \subseteq (Names(p) \ p.sources) \ SearchNames(p)

MaterializationValid(m) ==
    IF IsSearch(m)
    THEN Incremental(m) /\ m.search.change # "rebuild" /\ ~m.options
    ELSE /\ Given(m.uniqueKey) => IsSql(m) /\ Incremental(m)
         /\ "ml" \in m.kinds => ~Incremental(m)

RetrievalTestsValid(m, p) ==
    m.retrieval # <<>> =>
       /\ IsSearch(m)
       /\ Distinct([i \in DOMAIN m.retrieval |-> m.retrieval[i].name])
       /\ \A i \in DOMAIN m.retrieval :
             LET t == m.retrieval[i]
             IN  /\ t.golden \in Names(p) /\ t.golden # m.name
                 /\ Given(t.mode) => t.mode \in m.search.modes

------------------------------------------------------------------------------
(* The graph.                                                               *)

\* Mutant: an evaluation is no edge, so its golden set may not be built yet.
WithoutGolden(m, p) ==
    DependsOn(m, p) \cup Targets(m) \cup (IF m.source.how = "ref" THEN {m.source.name} ELSE {})

Predecessors(m, p) ==
    WithoutGolden(m, p) \cup {m.retrieval[i].golden : i \in DOMAIN m.retrieval}

Nodes(p) == Names(p) \cup p.sources
Before(p, n) == IF n \in Names(p) THEN Predecessors(Named(p, n), p) ELSE {}

\* A topological order of all the nodes.
Sorted(p, order) ==
    \A i \in DOMAIN order : Before(p, order[i]) \subseteq {order[j] : j \in 1..(i - 1)}

Orders(p) == {o \in [1..Cardinality(Nodes(p)) -> Nodes(p)] : Distinct(o) /\ Sorted(p, o)}

GraphValid(p) ==
    /\ \A n \in Names(p) : Before(p, n) \subseteq Nodes(p)
    /\ Orders(p) # {}

\* A search index is a leaf of the graph.
LeavesServe(p) == \A n \in Nodes(p) : Before(p, n) \cap SearchNames(p) = {}

\* validate_project_contract
Accepted(p) ==
    /\ Distinct([i \in DOMAIN p.models |-> p.models[i].name])
    /\ Names(p) \cap p.sources = {}
    /\ \A m \in ToSet(p.models) :
          /\ ModelValid(m)
          /\ IsSql(m) => SqlValid(m, p.sql[m.name])
          /\ TestsValid(m, p) /\ EdgesValid(m, p)
          /\ MaterializationValid(m) /\ RetrievalTestsValid(m, p)
    /\ GraphValid(p) /\ LeavesServe(p)

------------------------------------------------------------------------------
(* What a run reads: the tables the executors open, the tables the tests    *)
(* compare with, the golden sets of an evaluation.                          *)

Opened(m, p) ==
    CASE IsSql(m) -> ToSet(Refs(p.sql[m.name]))
      [] "eval" \in m.kinds -> {m.eval.predictions, m.eval.expected}
      [] "extraction" \in m.kinds -> {}
      [] OTHER -> ToSet(m.deps)

Reads(m, p) == Opened(m, p) \cup Targets(m) \cup {m.retrieval[i].golden : i \in DOMAIN m.retrieval}

\* In whatever topological order the models of an accepted project run, every table that a
\* model, one of its tests or one of its evaluations reads is the table of another model that
\* ran before it: never a source, a search index, itself, or a model that comes later.
ReadsAreBuilt(p) ==
    Accepted(p) =>
       \A order \in Orders(p), i \in 1..Cardinality(Nodes(p)) :
          order[i] \in Names(p) =>
             Reads(Named(p, order[i]), p)
             \subseteq ({order[j] : j \in 1..(i - 1)} \cap Names(p)) \ SearchNames(p)

\* The manifest, the selectors and the state of a run read the graph that the loader wrote; the
\* compiler read the templates itself: of an accepted project both have the same edges.
GraphsAgree(p) ==
    Accepted(p) => \A m \in ToSet(p.models) : "eval" \notin m.kinds =>
                      ToSet(LoadedDeps(m, p)) = DependsOn(m, p)

------------------------------------------------------------------------------
(* Capabilities of the warehouse.                                           *)

WriteNeeds(m) ==
    CASE IsSearch(m) -> {"streaming_reads", "paged_state"}
      [] m.materialization = "full" -> {IF m.iceberg THEN "iceberg" ELSE "atomic_full_replace"}
      [] OTHER -> {"atomic_keyed_upsert"} \cup (IF m.iceberg THEN {"iceberg"} ELSE {})

\* enum_test_specs: a model has tests as soon as it has an enum field.
HasTests(m) == m.tests # <<>> \/ \E i \in DOMAIN m.fields : m.fields[i].type = "enum"

\* validate_warehouse_capabilities
Preflighted(m) ==
    WriteNeeds(m)
    \cup (IF "extraction" \in m.kinds THEN {"typed_empty", "chunked_writes"} ELSE {})
    \cup (IF m.kinds \cap {"transform", "ml", "chunk", "embed", "llm"} # {} THEN {"tabular_reads"} ELSE {})
    \cup (IF HasTests(m) /\ ~IsSearch(m) THEN {"schema_tests"} ELSE {})
    \cup (IF Incremental(m) /\ m.change = "append_new_columns" THEN {"schema_evolution"} ELSE {})

\* What the executor asks the adapter for, whatever its compiler knows.  Reads of eval models,
\* SQL models and transform contracts are refused only when the model runs.
Called(m) ==
    (CASE IsSearch(m) -> {"streaming_reads", "paged_state"}
       [] "extraction" \in m.kinds /\ ~Incremental(m) -> {"typed_empty", "chunked_writes"}
       [] m.kinds \cap {"chunk", "embed", "llm", "ml"} # {} \/ IsPython(m) -> {"tabular_reads"}
       [] OTHER -> {})
    \cup (IF ~IsSearch(m) /\ HasTests(m) THEN {"schema_tests"} ELSE {})
    \cup (IF Incremental(m) /\ ~IsSearch(m) THEN {"atomic_keyed_upsert"} ELSE {})

Supports(adapter, m) == Preflighted(m) \subseteq adapter

\* No run stops half-way for a capability that could have been looked up before it started.
CapabilitiesKnownBefore(p, adapter) ==
    Accepted(p) => \A m \in ToSet(p.models) : Supports(adapter, m) => Called(m) \subseteq adapter

------------------------------------------------------------------------------
(* Retrieval stores: [fenced, consistency, features, metrics, batch,        *)
(* dimensions].  A resource names a store by its alias.                     *)

VectorFeature(s) == IF s.vector.search = "approximate" THEN "approximate" ELSE "exact"

PublishNeeds(s) ==
    {"upsert", "delete", "durable_ack", "atomic_batch", "readiness"}
    \cup (IF s.change = "online" THEN {"evolution"} ELSE {})
    \cup (IF Given(s.vector.field) THEN {VectorFeature(s)} ELSE {})
    \cup (IF s.fullText # {} THEN {"text"} ELSE {})
    \cup (IF \E i \in DOMAIN s.attributes : s.attributes[i].role # "none" THEN {"filtering"} ELSE {})

StoreSupports(s, store) ==
    /\ store.fenced
    /\ s.access = "governed" => "strong" \in store.consistency /\ "filtering" \in store.features
    /\ PublishNeeds(s) \subseteq store.features
    /\ Given(s.vector.field) => /\ s.vector.metric \in store.metrics
                                /\ s.vector.dimensions <= store.dimensions
    /\ s.batch <= store.batch

\* The store and the collection in it that a resource is published to.
StoreOf(m, retrieval) == IF Given(m.search.store) THEN m.search.store ELSE retrieval.default
Collection(m, retrieval) ==
    <<retrieval.stores[StoreOf(m, retrieval)].location,
      IF Given(m.search.collection) THEN m.search.collection ELSE m.name>>

\* validate_retrieval_capabilities, of the resources that one run selects.
RetrievalValid(selected, retrieval) ==
    /\ \A m \in selected :
          /\ StoreOf(m, retrieval) \in DOMAIN retrieval.stores
          /\ m.search.access = "public" => retrieval.allowPublic
          /\ StoreSupports(m.search, retrieval.stores[StoreOf(m, retrieval)])
    /\ \A m, n \in selected : Collection(m, retrieval) = Collection(n, retrieval) => m = n

\* search.py: what a query of a mode asks its store for, with the filters a caller may give.
QueryNeeds(s, mode) ==
    (IF mode \in {"vector", "hybrid"} THEN {VectorFeature(s)} ELSE {})
    \cup (IF mode \in {"text", "hybrid"} THEN {"text"} ELSE {})
    \cup (IF s.access = "governed" \/ \E i \in DOMAIN s.attributes : s.attributes[i].role # "none"
          THEN {"filtering"} ELSE {})

\* An index that is published can be asked every question that it declares: the store was
\* checked for the search, the text and the policy filter of each mode before the first row
\* was sent to it.
IndexesServe(p, retrieval) ==
    Accepted(p) =>
       \A selected \in SUBSET {m \in ToSet(p.models) : IsSearch(m)} :
          RetrievalValid(selected, retrieval) =>
             \A m \in selected : \A mode \in m.search.modes :
                QueryNeeds(m.search, mode)
                \subseteq retrieval.stores[StoreOf(m, retrieval)].features

------------------------------------------------------------------------------
(* The selection of a run.  A token of a selector is a name, a tag or the   *)
(* models that changed, [up, down, what, body]; a request selects and       *)
(* excludes by sequences of tokens, and knows which models changed if it    *)
(* was given the manifest of an earlier run.                                *)

Closure(p, from, up) ==
    FoldLeft(LAMBDA reached, i :
                reached \cup {n \in Nodes(p) : IF up THEN \E r \in reached : n \in Before(p, r)
                                                    ELSE Before(p, n) \cap reached # {}},
             from, [i \in 1..Cardinality(Nodes(p)) |-> i])

Seeds(p, token, request) ==
    CASE token.what = "name" -> {token.body} \cap Nodes(p)
      [] token.what = "tag" -> {n \in Names(p) : token.body \in request.tags[n]}
      [] token.what = "modified" -> request.modified \cap Nodes(p)

TokenValid(p, token, request) ==
    /\ token.what = "name" => token.body \in Nodes(p)
    /\ token.what = "modified" => request.manifest

\* _expand_token
ExpandToken(p, token, request) ==
    LET seeds == Seeds(p, token, request)
    IN  seeds \cup (IF token.up THEN Closure(p, seeds, TRUE) ELSE {})
              \cup (IF token.down THEN Closure(p, seeds, FALSE) ELSE {})

\* select_models: nothing selected is everything, and sources do not run.
Selected(p, request) ==
    LET all(tokens) == UNION {ExpandToken(p, tokens[i], request) : i \in DOMAIN tokens}
    IN  IF \E t \in ToSet(request.select \o request.exclude) : ~TokenValid(p, t, request) THEN {}
        ELSE (IF request.select = <<>> THEN Nodes(p) ELSE all(request.select))
             \ (all(request.exclude) \cup p.sources)

\* required_sources
RequiredSources(p, selected) == Closure(p, selected, TRUE) \cap p.sources

\* A model that is selected with what it depends on finds everything that it, its tests and its
\* evaluations read in the run; one that is selected with what depends on it leaves nobody
\* outside who reads what the run changes; exclusion wins; and the documents of every
\* extraction that runs are discovered.
SelectionSound(p, request) ==
    LET selected == Selected(p, request)
        whole(t, flag) == flag /\ request.exclude = <<>> /\ request.select = <<t>>
    IN  Accepted(p) =>
        /\ \A t \in ToSet(request.select) :
              /\ whole(t, t.up) => \A n \in selected :
                    (~t.down \/ n \in Closure(p, Seeds(p, t, request), TRUE)) =>
                       Reads(Named(p, n), p) \subseteq selected
              /\ whole(t, t.down) => \A n \in Names(p) \ selected :
                    \A s \in Seeds(p, t, request) : s \notin Reads(Named(p, n), p)
                    /\ (~t.up => Reads(Named(p, n), p) \cap selected = {})
        /\ \A t \in ToSet(request.exclude) : Seeds(p, t, request) \cap selected = {}
        /\ \A n \in selected : "extraction" \in Named(p, n).kinds =>
              Named(p, n).source.name \in RequiredSources(p, selected)
==============================================================================
