------------------------------- MODULE MCPlans -------------------------------
(* The cases of ModelContracts and ProjectContract: columns that collide or *)
(* not, small projects of which one line is wrong or none, warehouses that  *)
(* lack one capability, stores that lack one feature.                       *)
EXTENDS ProjectContract, TLC

NoSource == [how |-> "none", name |-> ""]
From(name) == [how |-> "ref", name |-> name]
NoVector == [field |-> "", search |-> "exact", metric |-> "cosine", dimensions |-> 2]
Vector(search) == [NoVector EXCEPT !.field = "embedding", !.search = search]

AnExtraction == [fields |-> <<"title">>, frontmatter |-> <<>>, selectors |-> {}, textField |-> "",
                 bodyField |-> "", flushEvery |-> 2, publishEvery |-> 1]
ATransform == [type |-> "python", module |-> "m", path |-> "", usesLlm |-> FALSE]
AChunk == [strategy |-> "recursive", textField |-> "text", size |-> 10, overlap |-> 1,
           inText |-> <<>>, heading |-> ""]
AnEmbed == [idField |-> "chunk_id", textField |-> "text", vectorField |-> "embedding",
            dimensions |-> 2, batchSize |-> 2]
AnLlm == [inputField |-> "text", idField |-> "id", rowIdField |-> "llm_row_id",
          ordinalField |-> "ordinal", many |-> FALSE]
ASearch == [access |-> "public", store |-> "", collection |-> "", idField |-> "id",
            text |-> <<"text">>, display |-> <<>>, fullText |-> {"text"}, vector |-> NoVector,
            attributes |-> <<>>, modes |-> {"text"}, change |-> "fail", batch |-> 10]
AnEval == [predictions |-> "a", expected |-> "a", predicted |-> "p", expectedField |-> "e",
           key |-> "k", labels |-> <<>>]

Model(name, kind) ==
    [name |-> name, kinds |-> {kind}, source |-> NoSource, deps |-> <<>>, hasDeps |-> FALSE,
     materialization |-> "full", explicit |-> TRUE, uniqueKey |-> "", agent |-> FALSE,
     watched |-> <<>>, change |-> "fail", iceberg |-> FALSE, options |-> FALSE, fields |-> <<>>,
     tests |-> <<>>, retrieval |-> <<>>, extraction |-> AnExtraction, transform |-> ATransform,
     chunk |-> AChunk, embed |-> AnEmbed, llm |-> AnLlm, search |-> ASearch, eval |-> AnEval]
On(m, deps) == [m EXCEPT !.deps = deps, !.hasDeps = TRUE]
Field(name) == [name |-> name, type |-> "string", values |-> <<>>]
Enum(name) == [name |-> name, type |-> "enum", values |-> <<"x", "y">>]

------------------------------------------------------------------------------
Upstreams ==
    {{"document_id", "text"} \cup x
       : x \in {y \in SUBSET {"id", "chunk_id", "embedding", "label", "section", "llm_model",
                               "Embedded_At"} : Cardinality(y) <= 3}}

ChunkModels ==
    {[Model("m", "chunk") EXCEPT !.chunk = [AChunk EXCEPT !.heading = h, !.textField = t, !.inText = i]]
       : h \in {"", "section", "chunk_id", "text", "label"}, t \in {"text", "label"},
         i \in {<<>>, <<"id">>, <<"text">>}}
EmbedModels ==
    {[Model("m", "embed") EXCEPT !.embed = [AnEmbed EXCEPT !.vectorField = v, !.idField = i]]
       : v \in {"embedding", "embedded_at", "text", "label"}, i \in {"chunk_id", "document_id"}}
LLMModels ==
    {[Model("m", "llm") EXCEPT !.fields = f, !.llm = [AnLlm EXCEPT !.idField = i, !.rowIdField = r, !.many = n]]
       : f \in {<<>>, <<Field("label")>>, <<Field("label"), Field("label")>>, <<Field("id")>>,
                <<Field("LLM_Model")>>, <<Field("ordinal"), Enum("section")>>},
         i \in {"id", "label", "document_id"}, r \in {"llm_row_id", "ordinal", "label"}, n \in BOOLEAN}

ColumnCases ==
    {[about |-> "columns", model |-> m, upstream |-> u]
       : m \in ChunkModels \cup EmbedModels \cup LLMModels, u \in Upstreams}

------------------------------------------------------------------------------
Test(name, to) == [name |-> name, to |-> to]
Golden(name, mode) == [name |-> "g", golden |-> name, mode |-> mode, at |-> <<1>>, thresholds |-> {1}]
Call(fn, arg) == [fn |-> fn, arg |-> arg, literal |-> TRUE]
Sql(calls) == [exists |-> TRUE, suffix |-> ".sql", verb |-> "select", statements |-> 1, calls |-> calls]
SqlFiles ==
    {Sql(<<Call("ref", "a"), Call("is_incremental", "")>>), Sql(<<Call("ref", "a"), Call("ref", "c")>>),
     [Sql(<<Call("ref", "a")>>) EXCEPT !.statements = 2], Sql(<<Call("env_var", "a"), Call("ref", "a")>>)}

FirstModels == {[Model("a", "extraction") EXCEPT !.source = From(s)] : s \in {"src", "b"}}
SqlModel == [Model("b", "transform") EXCEPT !.transform = [ATransform EXCEPT !.type = "sql", !.module = "", !.path = "q"]]
SecondModels ==
    {On(Model("b", k), d) : k \in {"transform", "chunk", "ml"}, d \in {<<"a">>, <<"c">>, <<"src">>, <<"a", "c">>}}
    \cup {[On(Model("b", "transform"), <<"a">>) EXCEPT !.tests = <<Test(t, to)>>]
            : t \in {"relationships", "drift", "not_null"}, to \in {"a", "b", "c", "src"}}
    \cup {[SqlModel EXCEPT !.deps = d, !.materialization = m, !.uniqueKey = "id"]
            : d \in {<<>>, <<"a">>}, m \in {"full", "incremental"}}
    \cup {[SqlModel EXCEPT !.deps = d] : d \in {<<>>, <<"a">>}}
    \cup {[Model("b", "eval") EXCEPT !.eval = [AnEval EXCEPT !.expected = e]] : e \in {"a", "c"}}
Index == [On(Model("c", "search"), <<"a">>) EXCEPT !.materialization = "incremental"]
ThirdModels ==
    {On(Model("c", "transform"), d) : d \in {<<"a">>, <<"b">>}}
    \cup {[Index EXCEPT !.deps = d] : d \in {<<"a">>, <<"b">>, <<"a", "b">>}}
    \cup {[Index EXCEPT !.retrieval = <<Golden(g, m)>>] : g \in {"a", "b", "c", "src"}, m \in {"", "text", "hybrid"}}

Projects ==
    {[sources |-> {"src"}, models |-> <<a, b, c>>, sql |-> ("b" :> s)]
       : a \in FirstModels, b \in SecondModels, c \in ThirdModels, s \in SqlFiles}
Token(what, body, up, down) == [what |-> what, body |-> body, up |-> up, down |-> down]
Tokens ==
    {Token("name", n, u, d) : n \in {"a", "b", "c", "src", "x"}, u \in BOOLEAN, d \in BOOLEAN}
    \cup {Token(w, "t", u, d) : w \in {"tag", "modified"}, u \in BOOLEAN, d \in BOOLEAN}
Requests ==
    {[select |-> s, exclude |-> e, manifest |-> k, modified |-> m, tags |-> [n \in {"a", "b", "c"} |-> IF n = "b" THEN {"t"} ELSE {}]]
       : s \in {<<>>} \cup {<<t>> : t \in Tokens}, e \in {<<>>, <<Token("name", "b", FALSE, TRUE)>>, <<Token("tag", "t", FALSE, FALSE)>>},
         k \in {TRUE}, m \in {{}, {"a", "gone"}}}
    \cup {[select |-> <<Token("modified", "", FALSE, TRUE)>>, exclude |-> <<>>, manifest |-> FALSE,
           modified |-> {}, tags |-> [n \in {"a", "b", "c"} |-> {}]]}
SelectionCases ==
    {[about |-> "selection", sources |-> p.sources, models |-> p.models, sql |-> p.sql, request |-> r]
       : p \in {q \in Projects : q.sql["b"] = Sql(<<Call("ref", "a"), Call("is_incremental", "")>>) /\ Accepted(q)},
         r \in Requests}

ProjectCases ==
    {[about |-> "project", sources |-> {"src"}, models |-> <<a, b, c>>, sql |-> ("b" :> s)]
       : a \in FirstModels, b \in SecondModels, c \in ThirdModels, s \in SqlFiles}

------------------------------------------------------------------------------
Capabilities ==
    {"streaming_reads", "paged_state", "atomic_full_replace", "iceberg", "atomic_keyed_upsert",
     "typed_empty", "chunked_writes", "tabular_reads", "schema_tests", "schema_evolution"}
Single == {[FirstModel EXCEPT !.fields = f] : FirstModel \in
              {[Model("a", "extraction") EXCEPT !.source = From("src")]}, f \in {<<>>, <<Enum("label")>>}}
CapabilityCases ==
    {[about |-> "capabilities", sources |-> {"src"}, sql |-> <<>>, adapter |-> Capabilities \ {x},
      models |-> <<[a EXCEPT !.materialization = m, !.iceberg = i, !.change = c],
                   [On(Model("b", k), <<"a">>) EXCEPT !.materialization = m, !.iceberg = i,
                      !.fields = <<Field("label")>>],
                   [On(Model("c", "transform"), <<"b">>) EXCEPT !.tests = t]>>]
       : a \in Single, k \in {"transform", "chunk", "embed", "llm", "ml"}, m \in {"full", "incremental"},
         i \in BOOLEAN, c \in {"fail", "append_new_columns"}, x \in Capabilities \cup {""},
         t \in {<<>>, <<Test("not_null", "")>>}}

Features == {"upsert", "delete", "durable_ack", "atomic_batch", "readiness", "evolution", "exact",
             "approximate", "text", "filtering"}
Store(location, missing, fenced, consistency) ==
    [location |-> location, features |-> Features \ missing, fenced |-> fenced,
     consistency |-> consistency, metrics |-> {"cosine"}, batch |-> 10, dimensions |-> 2]
Attribute(role) == [name |-> "tier", role |-> role]
Indexes ==
    {[Index EXCEPT !.search = [ASearch EXCEPT !.vector = v, !.modes = q, !.access = x, !.store = s,
                                              !.attributes = t]]
       : v \in {NoVector, Vector("exact"), Vector("approximate")},
         q \in {{"text"}, {"vector"}, {"hybrid", "text"}}, x \in {"public", "governed"},
         s \in {"", "other"}, t \in {<<>>, <<Attribute("user")>>, <<Attribute("policy")>>}}
RetrievalCases ==
    {[about |-> "retrieval", sources |-> {"src"}, sql |-> <<>>,
      models |-> <<[Model("a", "extraction") EXCEPT !.source = From("src")], c,
                   [Index EXCEPT !.name = "d"]>>,
      retrieval |-> [default |-> "main", allowPublic |-> w,
                     stores |-> ("main" :> Store("x", m, f, y))]]
       : c \in Indexes, m \in {{}} \cup {{f} : f \in Features}, f \in BOOLEAN, w \in BOOLEAN,
         y \in {{}, {"strong"}}}

------------------------------------------------------------------------------
(* Templates whose values differ in case, in what is no letter, in length;  *)
(* trees with a link, a pipe or a missing file; sources of three kinds.     *)

Files == INSTANCE ProjectFiles
Profiles == INSTANCE TargetProfiles
Documents == INSTANCE DocumentSources

AxisValues ==
    {<<<<1, 2>>>>, <<<<-1, 2>>>>, <<<<0, 1, 0, 0, 2>>>>, <<<<1>>, <<2>>>>, <<<<1, 2, 3, 4, 5>>>>,
     <<<<1, 2, 3, 4, 6>>>>, <<<<0>>>>, <<>>}
AxisOf(name, values) == [name |-> name, ident |-> TRUE, values |-> values]
Template(axes, holes) ==
    [name |-> <<1>>, each |-> TRUE, axes |-> axes, tags |-> {}, fields |-> <<holes>>]
Plain(name) == [name |-> name, each |-> FALSE, axes |-> <<>>, tags |-> {<<1>>}, fields |-> <<>>]
Templates ==
    {Template(<<AxisOf(<<2>>, <<v, w>>)>>, h) : v, w \in AxisValues, h \in {<<>>, <<<<2>>>>, <<<<3>>>>}}
    \cup {Template(<<AxisOf(<<2>>, <<v>>), AxisOf(<<3>>, x)>>, <<<<3>>, <<2>>>>)
            : v \in AxisValues, x \in {<<>>, <<<<<<4>>>>>>, <<<<<<4>>>>, <<>>, <<<<4>>, <<4>>>>>>}}
TemplateCases ==
    {[about |-> "templates", templates |-> <<t, Plain(n)>>]
       : t \in Templates, n \in {<<1>>, <<1, 0, 0, 2, 0, 1, 0, 2>>}}

Kinds0 ==
    (<<"p">> :> "dir") @@ (<<"p", "project">> :> "file") @@ (<<"p", "models">> :> "dir")
    @@ (<<"p", "models", "a.yml">> :> "file") @@ (<<"p", "models", "sub">> :> "dir")
    @@ (<<"p", "models", "sub", "b.yml">> :> "file") @@ (<<"o">> :> "dir") @@ (<<"o", "c.yml">> :> "file")
Links0 ==
    (<<"p", "models", "k.yml">> :> <<"o", "c.yml">>) @@ (<<"p", "models", "sub", "d">> :> <<"o">>)
    @@ (<<"p", "m">> :> <<"p", "models">>) @@ (<<"p", "up">> :> <<"o">>) @@ (<<"p", "models", "n">> :> <<"x">>)
Path(parts) == [absolute |-> FALSE, parts |-> parts]
Layouts ==
    {Path(<<"models">>), Path(<<"m">>), Path(<<"up">>), Path(<<"..", "o">>), Path(<<"up", "..", "p", "models">>),
     Path(<<"m", "..", "models", "sub">>), Path(<<"absent">>), Path(<<"models", "a.yml">>),
     [absolute |-> TRUE, parts |-> <<"p", "models", "sub">>], [absolute |-> TRUE, parts |-> <<"o">>]}
Trees ==
    {[kinds |-> [k \in DOMAIN Kinds0 |-> IF k = <<"p", "models", "a.yml">> THEN a ELSE Kinds0[k]],
      links |-> [k \in links \cup {<<"l">>} |-> IF k = <<"l">> THEN <<"p">> ELSE Links0[k]],
      root |-> root, yaml |-> {"a.yml", "b.yml", "c.yml", "k.yml"}]
       : a \in {"file", "pipe"}, links \in SUBSET DOMAIN Links0, root \in {<<"p">>, <<"l">>}}
    \cup {[kinds |-> [Kinds0 EXCEPT ![<<"p", "project">>] = "pipe"], links |-> <<>>, root |-> <<"p">>,
           yaml |-> {"a.yml"}]}
FileCases ==
    {[about |-> "files", tree |-> t, layout |-> <<x, y>>]
       : t \in Trees, x \in Layouts, y \in {Path(<<"models">>), Path(<<"m", "..", "models", "sub">>)}}

SourceOf(path, key, set, external) ==
    [name |-> "s", path |-> path, key |-> key, columns |-> IF key = "" THEN <<>> ELSE <<"c">>,
     set |-> set, external |-> external]
SourceCases ==
    {[about |-> "sources", sources |-> <<SourceOf(p, k, s, "external" \in s), [SourceOf("inside", "", {}, FALSE) EXCEPT !.name = "t"]>>,
      paths |-> o]
       : p \in {"inside", "outside", "gs://bucket", "warehouse://relation"}, k \in {"", "k", "c"},
         s \in SUBSET Files!FileOptions,
         o \in {<<>>, "u" :> "inside"} \cup {"s" :> q : q \in {"inside", "outside", "gs://bucket"} \cup Files!Warehouse}}

------------------------------------------------------------------------------
(* Profiles: every place of profiles.yml, every value of a credential, two  *)
(* providers of which one takes no key and no address.                      *)

PlaceCases ==
    {[about |-> "places", places |-> [flag |-> f, env |-> e, local |-> l, home |-> h]]
       : f \in {"unset", "none", "file", "link"}, e \in {"unset", "none", "file", "dir"},
         l \in {"none", "file", "link", "dir"}, h \in {"none", "file", "link"}}

PromptFile == [kind |-> "file", text |-> "t"]
PromptTrees ==
    {v1 @@ v2 : v1 \in {<<>>} \cup {(<<"n", "v1">> :> f) : f \in {PromptFile, [PromptFile EXCEPT !.text = "u"],
                                                                [PromptFile EXCEPT !.kind = "link"]}},
                v2 \in {<<>>, <<"n", "v2">> :> PromptFile}}
PromptSteps == {[files |-> f, lock |-> l, force |-> g] : f \in PromptTrees, l \in BOOLEAN, g \in BOOLEAN}
LockedFirst == {x \in PromptSteps : x.lock /\ ~x.force}
PromptCases ==
    {[about |-> "prompts", history |-> <<x, y, z>>, links |-> l]
       : x \in LockedFirst, y \in {s \in PromptSteps : s.lock}, z \in {s \in PromptSteps : s.force => s.lock},
         l \in {{}, {"n"}}}

Values == {"none", "literal", "reference", "default", "embedded"}
SecretCases ==
    {[about |-> "secrets", adapter |-> a, env |-> e, named |-> m,
      fields |-> ("token" :> t) @@ ("keyfile" :> k) @@ ("keyfile_json" :> j) @@ ("refresh_token" :> r)
                 @@ ("client_secret" :> r) @@ ("token_uri" :> u) @@ ("project" :> "embedded") @@ ("api_key_env" :> x)]
       : a \in {"duckdb", "bigquery"}, e \in BOOLEAN, m \in {"", "oauth-secrets"},
         t \in Values, k \in Values, j \in {"none", "reference"}, r \in {"none", "reference", "literal"},
         u \in {"none", "literal", "default"}, x \in {"none", "reference"}}

Providers ==
    ("anthropic" :> [model |-> "a1", url |-> "", custom |-> FALSE, needsUrl |-> FALSE, options |-> {},
                     native |-> TRUE, accepts |-> TRUE, needsKey |-> TRUE, env |-> "ANTHROPIC",
                     implementation |-> 1, semantic |-> <<>>])
    @@ ("vllm" :> [model |-> "", url |-> "", custom |-> TRUE, needsUrl |-> TRUE, options |-> {"o", "x", "y"},
                   native |-> FALSE, accepts |-> FALSE, needsKey |-> FALSE, env |-> "",
                   implementation |-> 1, semantic |-> ("o" :> "1") @@ ("x" :> "2") @@ ("y" :> "2")])
    @@ ("other" :> [model |-> "", url |-> "u0", custom |-> TRUE, needsUrl |-> TRUE, options |-> {"o"},
                    native |-> FALSE, accepts |-> TRUE, needsKey |-> TRUE, env |-> "",
                    implementation |-> 1, semantic |-> ("o" :> "")])
LlmBlocks ==
    {[Profiles!Default EXCEPT !.provider = p, !.model = m, !.url = u, !.options = o, !.key = k, !.cache = c]
       : p \in DOMAIN Providers \cup {"unknown"}, m \in {"", "m"}, u \in {"", "u"}, o \in {"", "o"},
         k \in {"", "KEY"}, c \in {"", "outside"}}
ModelOptions ==
    {[Profiles!NoOptions EXCEPT !.provider = p, !.model = m, !.batch = b, !.cache = c, ![x] = v]
       : p \in {"", "anthropic", "vllm", "unknown"}, m \in {"", "n"}, b \in BOOLEAN, c \in {"", "inside", "outside"},
         x \in Profiles!OperatorOnly, v \in {"", "mine"}}
OptionCases ==
    {[about |-> "options", options |-> x, profile |-> p, flag |-> f,
      profiles |-> "main" :> [target |-> "dev", outputs |-> "dev" :> l]]
       : x \in ModelOptions, l \in {b \in LlmBlocks : b.cache = "" /\ b.provider # "unknown"},
         p \in {"main"}, f \in {""}}
    \cup {[about |-> "options", options |-> Profiles!NoOptions, profile |-> p, flag |-> f,
           profiles |-> "main" :> [target |-> t, outputs |-> "dev" :> l]]
            : l \in LlmBlocks, p \in {"", "main", "absent"}, f \in {"", "dev", "prod"}, t \in {"dev", "prod"}}

\* Two plans of a model, before and after a release that changes one provider.
Plans2 ==
    {[options |-> [Profiles!NoOptions EXCEPT !.model = m, !.prompt = t, !.cache = c],
      config |-> [provider |-> n, model |-> m, prompt |-> [text |-> t, name |-> IF m = "n" THEN "p" ELSE ""]],
      llm |-> [Profiles!Default EXCEPT !.provider = p, !.model = "m", !.url = u, !.options = o,
                                        !.key = IF c = "" THEN "KEY" ELSE "OTHER"]]
       : m \in {"", "n"}, t \in {"t", "u"}, c \in {"", "inside"}, n \in {"", "anthropic", "other"},
         p \in {"anthropic", "vllm", "other"}, u \in {"", "u"}, o \in {"", "o", "y"}}
VersionCases ==
    {[about |-> "versions", before |-> a, after |-> b,
      upgraded |-> [Providers EXCEPT !["vllm"].implementation = i]]
       : a \in {x \in Plans2 : x.options.cache = "" /\ x.options.model = "" /\ x.options.prompt = "t"},
         b \in {x \in Plans2 : x.options.cache = "inside"}, i \in {1, 2}}

------------------------------------------------------------------------------
(* Sources: trees of files, directories and links that change between two   *)
(* looks, patterns of one and two names, buckets whose objects are written  *)
(* again, relations with repeated, colliding and missing keys.              *)

AFile(bytes) == [kind |-> "file", bytes |-> bytes, to |-> <<>>]
ADir == [kind |-> "dir", bytes |-> 0, to |-> <<>>]
ALink(to) == [kind |-> "link", bytes |-> 0, to |-> to]
PlainTree ==
    (<<>> :> ADir) @@ (<<<<1>>>> :> AFile(1)) @@ (<<<<2>>>> :> ADir) @@ (<<<<2>>, <<1>>>> :> AFile(2))
    @@ (<<<<2>>, <<2>>>> :> ADir) @@ (<<<<2>>, <<2>>, <<1, 2>>>> :> AFile(1))
LinkedTree(l) == PlainTree @@ (<<<<2, 1>>>> :> ALink(l)) @@ (<<<<2>>, <<3>>>> :> ALink(<<<<1>>>>))
DocumentTrees ==
    {<<>>, <<>> :> AFile(1), PlainTree, [PlainTree EXCEPT ![<<<<1>>>>] = AFile(2)],
     [PlainTree EXCEPT ![<<<<1>>>>] = ADir], [PlainTree EXCEPT ![<<<<2>>, <<1>>>>] = ALink(<<<<1>>>>)],
     LinkedTree(<<<<2>>>>), LinkedTree(<<<<1>>>>)}
DocumentPatterns ==
    LET any == <<Documents!Star>> IN
    {<<n>> : n \in {any, <<1>>, <<1, Documents!Star>>, <<2>>, Documents!Deep}}
    \cup {<<m, n>> : m \in {Documents!Deep, any, <<2>>}, n \in {any, <<1>>, Documents!Deep}}
DirectoryCases ==
    {[about |-> "directory", tree |-> t, opened |-> o, later |-> l,
      source |-> [pattern |-> p, recursive |-> r, prefix |-> f, maxObjects |-> 9]]
       : t \in DocumentTrees, o \in DocumentTrees, l \in {PlainTree, [PlainTree EXCEPT ![<<<<1>>>>] = AFile(2)]},
         p \in DocumentPatterns, r \in BOOLEAN,
         f \in {<<3>>}}

AnObject(bytes, generation, md5) == [bytes |-> bytes, generation |-> generation, md5 |-> md5]
Buckets(generation) ==
    {[n \in {<<3, 0>>, <<3, 0, 1>>, <<3, 0, 2, 0, 1>>, <<3, 1, 0, 1>>} |-> AnObject(b, generation, m)]
       : b \in {1, 2}, m \in BOOLEAN}
    \cup {<<3, 0, 1>> :> AnObject(1, generation, TRUE)}
BucketCases ==
    {[about |-> "bucket", bucket |-> b, later |-> IF l = <<>> THEN b ELSE l,
      source |-> [pattern |-> p, recursive |-> r, prefix |-> f, maxObjects |-> n]]
       : b \in Buckets(1), l \in {<<>>} \cup Buckets(2), p \in DocumentPatterns, r \in BOOLEAN,
         f \in {<<>>, <<3>>, <<3, 0, 0>>}, n \in {3, 9}}

DocumentRow(key, segment) == [key |-> key, segment |-> segment]
RelationCases ==
    {[about |-> "relation", rows |-> q,
      source |-> [pathColumn |-> c, maxObjects |-> 3]]
       : c \in BOOLEAN,
         q \in UNION {[1..n -> {DocumentRow(<<1>>, <<2>>), DocumentRow(<<1>>, <<>>), DocumentRow(<<2>>, <<2>>),
                               DocumentRow(<<2, 0, 1>>, <<2>>), DocumentRow(<<1>>, <<2, 0, 2>>), DocumentRow(<<>>, <<2>>)}]
                       : n \in 0..4}}

\* What an accepted model or project promises of its columns, its order, its capabilities, its
\* files, and of the settings that are not its own.
PlanSound(case) ==
    CASE case.about = "columns" -> OneWriterPerColumn(case.model, case.upstream)
      [] case.about = "project" -> ReadsAreBuilt(case) /\ GraphsAgree(case)
      [] case.about = "capabilities" -> CapabilitiesKnownBefore(case, case.adapter)
      [] case.about = "retrieval" -> IndexesServe(case, case.retrieval)
      [] case.about = "templates" -> Files!VariantsSound(case.templates)
      [] case.about = "files" ->
            Files!FilesInside(case.tree, case.layout) /\ Files!NothingSkipped(case.tree, case.layout)
      [] case.about = "sources" -> Files!OverridesChecked(case.sources, case.paths)
      [] case.about = "places" -> Profiles!OperatorFirst(case.places)
      [] case.about = "secrets" ->
            Profiles!SecretsStayReferences(case.adapter, case.fields, case.env, case.named)
      [] case.about = "options" ->
            /\ Profiles!OperatorOwns(case.options, case.profiles, case.profile, case.flag, Providers)
            /\ Profiles!PreflightEnough(case.profiles, case.profile, case.flag, Providers)
            /\ \A name \in DOMAIN Providers, l \in {case.profiles["main"].outputs["dev"], [Profiles!Default EXCEPT !.provider = ""]} :
                  Profiles!EmbeddingOwned(name, l, Providers)
      [] case.about = "selection" -> SelectionSound(case, case.request)
      [] case.about = "prompts" -> Files!ReleasesKept(case.history, case.links)
      [] case.about = "versions" ->
            Profiles!VersionDecides(case.before, case.after, Providers, case.upgraded)
      [] case.about = "directory" ->
            /\ Documents!NothingMissed(case.tree, case.source)
            /\ Documents!FetchedAsDiscovered(case.tree, case.opened, case.later, case.source)
            /\ Documents!SourcesAgree(case.tree, case.source, {<<3>>, <<3, 1, 0, 1>>})
      [] case.about = "bucket" -> Documents!ObjectsAsListed(case.bucket, case.later, case.source)
      [] case.about = "relation" -> Documents!RowsAreDocuments(case.rows, case.source)
PlanSubjects ==
    {"columns", "project", "capabilities", "retrieval", "templates", "files", "sources", "places",
     "secrets", "options", "selection", "prompts", "versions", "directory", "bucket", "relation"}
==============================================================================
