------------------------------ MODULE LearnedModels ------------------------------
(* Clusters and topics, and what a project may declare of its ML models.       *)
(*                                                                             *)
(* A document-feature matrix (classic_ml/matrix.py): the matrix a source is    *)
(* pivoted to, the geometry of the clusters, what a persisted model makes of   *)
(* new documents, and the tables that are written.                             *)
(* Values are integers. What sklearn answers is external: any labelling of the *)
(* documents (-1 for noise), any matrix of topic weights. A centroid is a sum  *)
(* and a count, a distance the fraction its square is. L2 normalization,       *)
(* c-TF-IDF weights, silhouette and coherence are left out.                    *)
(*                                                                             *)
(* Contracts (ml_contracts.py): the contract of one model, the options of its  *)
(* provider as declared and as persisted, and who may write and read the       *)
(* artifact directories.                                                       *)
(* A path is a sequence of names, absolute. A file system is a record: names   *)
(* that differ in case are one if "insensitive", which a probe "tells" or not; *)
(* "dirs" are the directories that exist, "links" the symbolic ones.           *)
EXTENDS Integers, Sequences, FiniteSets, SequencesExt, Functions

Noise == -1
Refused == [refused |-> TRUE]

Ranked(S, Lt(_, _)) ==
    [k \in 1..Cardinality(S) |-> CHOOSE x \in S : Cardinality({y \in S : Lt(y, x)}) = k - 1]
Earliest(S) == CHOOSE i \in S : \A j \in S : i <= j
Latest(S) == CHOOSE i \in S : \A j \in S : j <= i
Taken(seq, n) == SubSeq(seq, 1, IF n < Len(seq) THEN n ELSE Len(seq))

------------------------------------------------------------------------------
(* The matrix.                                                              *)

\* The columns: the trained ones, or the terms by the index their first row gives them.
FeatureNames(df, fixed) ==
    LET terms == {df[i].term : i \in DOMAIN df}
        Index(t) == df[Earliest({i \in DOMAIN df : df[i].term = t})].index
    IN  IF fixed # <<>> THEN fixed
        ELSE Ranked(terms, LAMBDA s, t : Index(s) < Index(t) \/ (Index(s) = Index(t) /\ s < t))

\* _assemble_feature_matrix: a document per row id as its first row has it; the last row of a
\* term is its value, a term without a column is dropped, and NULL counts as zero.
AssembleFeatureMatrix(df, fixed) ==
    LET names == FeatureNames(df, fixed)
        docs == Ranked({Earliest({j \in DOMAIN df : df[j].id = df[i].id}) : i \in DOMAIN df},
                  LAMBDA i, j : df[i].row < df[j].row \/ (df[i].row = df[j].row /\ df[i].id < df[j].id))
        Value(id, t) == LET rows == {i \in DOMAIN df : df[i].id = id /\ df[i].term = t}
                        IN  IF rows = {} THEN 0 ELSE df[Latest(rows)].value
    IN  [docs |-> [k \in DOMAIN docs |-> df[docs[k]].id], names |-> names,
         matrix |-> [k \in DOMAIN docs |->
                       [c \in DOMAIN names |-> Value(df[docs[k]].id, names[c])]]]

\* _assemble_embedding_matrix: a row per source row by its stable identifier; no vector may
\* be missing, empty or of another length than the others or the trained columns.
AssembleEmbeddingMatrix(df, dimensions) ==
    LET order == Ranked(DOMAIN df, LAMBDA i, j :
                    df[i].id < df[j].id \/ (df[i].id = df[j].id /\ i < j))
        size == IF dimensions # 0 \/ df = <<>> THEN dimensions ELSE Len(df[order[1]].vector)
    IN  IF \E i \in DOMAIN df : df[i].vector = <<>> \/ Len(df[i].vector) # size THEN Refused
        ELSE [docs |-> [k \in DOMAIN order |-> df[order[k]].id],
              names |-> [c \in 1..size |-> c],
              matrix |-> [k \in DOMAIN order |-> df[order[k]].vector]]

------------------------------------------------------------------------------
(* Clusters.                                                                *)

Clusters(labels) == Range(labels) \ {Noise}
Members(labels, c) == {i \in DOMAIN labels : labels[i] = c}

\* _cluster_geometry.
Centroid(matrix, labels, c) ==
    [count |-> Cardinality(Members(labels, c)),
     sum |-> [f \in DOMAIN matrix[1] |->
                SumFunctionOnSet([i \in DOMAIN matrix |-> matrix[i][f]], Members(labels, c))]]
Centroids(matrix, labels) == [c \in Clusters(labels) |-> Centroid(matrix, labels, c)]
Distance(vector, center) ==
    LET Off(f) == center.count * vector[f] - center.sum[f]
    IN  [n |-> SumFunctionOnSet([f \in DOMAIN vector |-> Off(f) * Off(f)], DOMAIN vector),
         d |-> center.count * center.count]
Closer(a, b) == a.n * b.d < b.n * a.d

\* _fit_cluster and _fit_topics refuse more groups than there are documents, or features.
FitRefused(task, groups, samples, features, least) ==
    /\ samples > 0
    /\ groups > samples \/ (task = "topic_model" /\ (groups > features \/ least < 0))

\* _apply_matrix_model: the nearest center, the first of equals by label. A model that was
\* fitted on nothing has none, and any document makes the call fail.
ApplyCluster(centers, matrix) ==
    IF matrix # <<>> /\ DOMAIN centers = {} THEN Refused
    ELSE [labels |-> [i \in DOMAIN matrix |->
            Earliest({c \in DOMAIN centers : \A e \in DOMAIN centers :
                        ~Closer(Distance(matrix[i], centers[e]), Distance(matrix[i], centers[c]))})]]

\* _cluster_primary_rows.
PrimaryRows(docs, matrix, labels, centers) ==
    {[id |-> docs[i], row |-> i, cluster |-> labels[i], noise |-> labels[i] = Noise,
      distance |-> IF labels[i] = Noise THEN [n |-> -1, d |-> 1]
                   ELSE Distance(matrix[i], centers[labels[i]])] : i \in DOMAIN docs}

\* _representative_docs_rows: the nearest members of each cluster, ties by row id.
RepresentativeDocs(docs, matrix, labels, centers, top) ==
    {[cluster |-> c, docs |->
        LET D(i) == Distance(matrix[i], centers[c])
            nearest == Ranked(Members(labels, c), LAMBDA i, j :
                         \/ Closer(D(i), D(j))
                         \/ ~Closer(D(j), D(i)) /\ (docs[i] < docs[j] \/ (docs[i] = docs[j] /\ i < j)))
        IN  Taken(nearest, top)] : c \in {e \in Clusters(labels) : top > 0}}

\* _neighbor_rows: the order of equal distances is numpy's; every one it may choose.
NeighborLists(matrix, i, k) ==
    LET others == DOMAIN matrix \ {i}
        n == IF k < Cardinality(others) THEN k ELSE Cardinality(others)
        D(j) == Distance(matrix[i], [count |-> 1, sum |-> matrix[j]]).n
    IN  IF k = 0 \/ Len(matrix) < 2 THEN {}
        ELSE {list \in [1..n -> others] :
                /\ IsInjective(list)
                /\ \A a, b \in 1..n : a < b => D(list[a]) <= D(list[b])
                /\ \A j \in others \ Range(list) : \A a \in 1..n : D(list[a]) <= D(j)}

\* _cluster_metrics; a silhouette takes two clusters and one cluster of several documents.
ClusterMetrics(labels) ==
    LET kept == {i \in DOMAIN labels : labels[i] # Noise}
    IN  [rows |-> Len(labels), clusters |-> Cardinality(Clusters(labels)),
         noise |-> Cardinality(Members(labels, Noise)),
         silhouette |-> /\ Cardinality(Clusters(labels)) >= 2
                        /\ Cardinality(kept) > Cardinality(Clusters(labels))]

------------------------------------------------------------------------------
(* Topics.                                                                  *)

\* _topic_document_rows and _topic_term_rows.
TopicRows(docs, weights) ==
    {[id |-> docs[i], topic |-> t, weight |-> weights[i][t]] : i \in DOMAIN docs, t \in DOMAIN weights[1]}
TopicTerms(names, component, top) ==
    Taken(Ranked(DOMAIN names, LAMBDA i, j :
            component[i] > component[j] \/ (component[i] = component[j] /\ names[i] < names[j])), top)

\* _matrix_model_payload and _read_matrix_artifact: what a later run predicts with.
Payload(task, provider, m, labels) ==
    [task |-> task, provider |-> provider, names |-> m.names, centers |-> Centroids(m.matrix, labels)]
ReadPayload(payload, provider) == IF payload.provider = provider THEN payload ELSE Refused

\* _matrix_outputs: a model that only fits writes a summary and no companion table.
Companions(task, mode, neighbors) ==
    IF mode = "fit" THEN {}
    ELSE {"topics"} \cup (IF task = "cluster" THEN {"representative_docs"} ELSE {})
                   \cup (IF task = "cluster" /\ neighbors > 0 THEN {"neighbors"} ELSE {})

------------------------------------------------------------------------------
(* Properties.                                                              *)

Keyed(df) == \A i, j \in DOMAIN df : i # j => df[i].id # df[j].id \/ df[i].term # df[j].term
Coherent(df) == \A i, j \in DOMAIN df : /\ df[i].id = df[j].id => df[i].row = df[j].row
                                       /\ df[i].term = df[j].term => df[i].index = df[j].index

\* Documents that were trained on are given the matrix they were trained with whatever else
\* the source has meanwhile, and no new document is given to a farther cluster than another.
PredictsAsTrained(df, extra, labels) ==
    LET trained == AssembleFeatureMatrix(df, <<>>)
        model == ReadPayload(Payload("cluster", "kmeans", trained, labels), "kmeans")
        later == AssembleFeatureMatrix(df \o extra, model.names)
        answer == ApplyCluster(model.centers, later.matrix)
    IN  /\ \A k \in DOMAIN later.docs : \A i \in DOMAIN trained.docs :
              later.docs[k] = trained.docs[i] /\ (\A e \in DOMAIN extra : extra[e].id # later.docs[k])
                 => later.matrix[k] = trained.matrix[i]
        /\ IF Clusters(labels) = {} THEN answer = Refused \/ later.matrix = <<>>
           ELSE \A k \in DOMAIN answer.labels :
                  /\ answer.labels[k] \in Clusters(labels)
                  /\ \A c \in Clusters(labels) :
                        ~Closer(Distance(later.matrix[k], model.centers[c]),
                                Distance(later.matrix[k], model.centers[answer.labels[k]]))

\* The rows of one run agree with each other: a representative is a member no other member
\* is nearer than unless it is listed first, noise represents nothing, counts add up, and a
\* document is nobody's neighbor twice nor its own.
CompanionsAgree(df, labels, top, k) ==
    LET m == AssembleFeatureMatrix(df, <<>>)
        centers == Centroids(m.matrix, labels)
        rows == PrimaryRows(m.docs, m.matrix, labels, centers)
        metrics == ClusterMetrics(labels)
    IN  /\ metrics.noise + SumFunctionOnSet([c \in Clusters(labels) |-> Cardinality(Members(labels, c))],
                                            Clusters(labels)) = Cardinality(rows)
        /\ \A r \in RepresentativeDocs(m.docs, m.matrix, labels, centers, top) :
              /\ Len(r.docs) > 0 /\ Len(r.docs) <= top
              /\ \A i \in Range(r.docs), x \in rows : x.cluster = r.cluster /\ x.row \notin Range(r.docs) =>
                    ~Closer(x.distance, Distance(m.matrix[i], centers[r.cluster]))
        /\ \A i \in DOMAIN m.matrix : \A list \in NeighborLists(m.matrix, i, k) :
              i \notin Range(list) /\ Cardinality(Range(list)) = Len(list)

\* The matrix is the same whatever order the warehouse returns the rows in. It takes rows
\* with a key: of two rows of one document and term, the later one counts.
MatrixUnordered(df) ==
    Coherent(df) => AssembleFeatureMatrix(Reverse(df), <<>>) = AssembleFeatureMatrix(df, <<>>)
MatrixUnorderedIfKeyed(df) == Keyed(df) => MatrixUnordered(df)

\* Vectors are taken whole or not at all.
EmbeddingsWhole(df, dimensions) ==
    LET m == AssembleEmbeddingMatrix(df, dimensions) IN
    m # Refused => \A k \in DOMAIN m.matrix : Len(m.matrix[k]) = Len(m.names) /\ Len(m.names) > 0

------------------------------------------------------------------------------
(* Identity of a directory.                                                 *)

\* casefold, of the names in two cases.
Fold(name) == CASE name = "A" -> "a" [] name = "B" -> "b" [] OTHER -> name

\* Path.resolve: a link on the way is followed.
Resolve(path, fs) ==
    LET linked == {k \in DOMAIN path : SubSeq(path, 1, k) \in DOMAIN fs.links}
    IN  IF linked = {} THEN path
        ELSE LET k == CHOOSE k \in linked : TRUE
             IN  fs.links[SubSeq(path, 1, k)] \o SubSeq(path, k + 1, Len(path))

\* The directory a path leads to, whatever the program knows of it.
Real(path, fs) ==
    LET r == Resolve(path, fs)
    IN  [k \in DOMAIN r |-> IF fs.insensitive THEN Fold(r[k]) ELSE r[k]]

\* Mutant: names that do not exist yet are compared as they are written.
AsWritten(path, fs) ==
    LET r == Resolve(path, fs)
        There(k) == Real(SubSeq(r, 1, k), fs) \in fs.dirs
    IN  [k \in DOMAIN r |-> IF There(k) THEN <<"inode", Real(SubSeq(r, 1, k), fs)>>
                            ELSE <<"name", <<r[k]>>>>]

\* _canonical_path: what exists by its inode, the rest by its name, folded unless the file
\* system is known to tell cases apart.
CanonicalPath(path, fs) ==
    LET r == Resolve(path, fs)
        There(k) == Real(SubSeq(r, 1, k), fs) \in fs.dirs
    IN  [k \in DOMAIN r |-> IF There(k) THEN <<"inode", Real(SubSeq(r, 1, k), fs)>>
                            ELSE <<"name", <<IF fs.insensitive \/ ~fs.tells THEN Fold(r[k]) ELSE r[k]>>>>]
Overlap(p, q) == IsPrefix(p, q) \/ IsPrefix(q, p)
PathsOverlap(a, b, fs) == Overlap(CanonicalPath(a, fs), CanonicalPath(b, fs))

------------------------------------------------------------------------------
(* Providers and their options. An option that is not set is absent.        *)

TaskOf ==
    [count |-> "features", tfidf |-> "features", hashing |-> "features", naive_bayes |-> "classifier",
     kmeans |-> "cluster", dbscan |-> "cluster", hdbscan |-> "cluster", nmf |-> "topic_model",
     lda |-> "topic_model"]
DefaultProvider ==
    [features |-> "tfidf", classifier |-> "naive_bayes", cluster |-> "kmeans", topic_model |-> "nmf"]
Metrics(provider) ==
    LET task == TaskOf[provider] IN
    {"row_count"}
    \cup (IF task = "features" THEN {"vocabulary_size", "feature_rows"} ELSE {})
    \cup (IF provider = "hashing" THEN {"hash_buckets"} ELSE {})
    \cup (IF task = "classifier" THEN {"prediction_rows", "class_count", "vocabulary_size", "accuracy",
                                       "labeled_row_count"} ELSE {})
    \cup (IF task = "cluster" THEN {"n_clusters", "noise_points", "silhouette"} ELSE {})
    \cup (IF provider = "kmeans" THEN {"inertia"} ELSE {})
    \cup (IF task = "topic_model" THEN {"n_topics", "topic_coherence"} ELSE {})
    \cup (IF provider = "nmf" THEN {"reconstruction_error"} ELSE {})
    \cup (IF provider = "lda" THEN {"perplexity"} ELSE {})
Writes == {"fit", "fit_transform"}

\* The options models: every option with its default; 0 stands for an absent value.
Analyzer == [min_n |-> 1, max_n |-> 1]
Vocabulary == [min_df |-> 1, max_df |-> 0, max_features |-> 0] @@ Analyzer
Matrix == [input |-> "features", embedding_field |-> 0, normalize |-> "none", random_state |-> 0]
Defaults(provider) ==
    CASE provider \in {"count", "tfidf"} -> [binary |-> "no"] @@ Vocabulary
      [] provider = "hashing" -> [n_features |-> 1048576, alternate_sign |-> "yes"] @@ Analyzer
      [] provider = "naive_bayes" -> [alpha |-> 1] @@ Vocabulary
      [] provider = "kmeans" -> [n_clusters |-> 8, max_iter |-> 300] @@ Matrix
      [] provider = "dbscan" -> [eps |-> 1, min_samples |-> 5] @@ Matrix
      [] provider = "hdbscan" -> [min_cluster_size |-> 5, min_samples |-> 0] @@ Matrix
      [] OTHER -> [n_topics |-> 10, max_iter |-> IF provider = "lda" THEN 10 ELSE 200] @@ Matrix

\* The validators that relate one option to another, or to its bound.
Related(provider, o) ==
    /\ "min_n" \in DOMAIN o => o.min_n >= 1 /\ o.max_n <= 64 /\ o.min_n <= o.max_n
    /\ "max_df" \in DOMAIN o => o.max_df = 0 \/ o.min_df <= o.max_df
    /\ "alpha" \in DOMAIN o => o.alpha > 0
    /\ "n_features" \in DOMAIN o => o.n_features > 0
    /\ "n_clusters" \in DOMAIN o => o.n_clusters >= 2
    /\ "n_topics" \in DOMAIN o => o.n_topics >= 2 /\ o.input = "features"
    /\ "input" \in DOMAIN o => (o.input = "embedding") = (o.embedding_field # 0)

\* _validate_provider_options: no unknown option; the dump has every one.
OptionsAccepted(provider, o) ==
    DOMAIN o \subseteq DOMAIN Defaults(provider) /\ Related(provider, o @@ Defaults(provider))
Dumped(provider, o) == o @@ Defaults(provider)

\* _normalize_legacy_persisted_options: an option the provider never read was persisted once;
\* it is dropped at its default and refused at any other value.
LegacyOptions(provider) ==
    CASE provider \in {"count", "tfidf"} -> [n_features |-> 1048576, alternate_sign |-> "yes"]
      [] provider = "naive_bayes" -> [n_features |-> 1048576, alternate_sign |-> "yes", binary |-> "no"]
      [] provider = "hashing" -> [min_df |-> 1, max_df |-> 0, max_features |-> 0, binary |-> "no"]
      [] OTHER -> <<>>
Legacy(provider, o) == DOMAIN o \cap DOMAIN LegacyOptions(provider)
PersistedAccepted(provider, o) ==
    /\ \A name \in Legacy(provider, o) : o[name] = LegacyOptions(provider)[name]
    /\ OptionsAccepted(provider, Restrict(o, DOMAIN o \ Legacy(provider, o)))
Reloaded(provider, o) == Dumped(provider, Restrict(o, DOMAIN o \ Legacy(provider, o)))

------------------------------------------------------------------------------
(* The contract of one model.                                               *)

ProviderOf(m) == IF m.provider = "" THEN DefaultProvider[m.task] ELSE m.provider
ArtifactPath(m, project) ==
    Resolve(IF m.path = <<>> THEN project.target \o <<"artifacts", m.name>> ELSE m.path, project.fs)

\* _validate_artifact_path_boundaries.
WithinBounds(path, project) ==
    LET root == project.target \o <<"artifacts">> IN
    /\ \A layout \in project.layout : ~PathsOverlap(path, Resolve(layout, project.fs), project.fs)
    /\ ~IsPrefix(path, Resolve(project.target, project.fs))
    /\ ~IsPrefix(path, Resolve(root, project.fs))
    /\ \A reserved \in {project.target \o <<"docs">>, project.target \o <<"manifest">>,
                        root \o <<"registry">>} :
          ~PathsOverlap(path, reserved, project.fs)

\* validate_ml_contract.
Executable(m, project) ==
    /\ m.task \in DOMAIN DefaultProvider
    /\ ProviderOf(m) \in DOMAIN TaskOf /\ TaskOf[ProviderOf(m)] = m.task
    /\ m.task \in {"features", "classifier"} => m.text
    /\ m.task # "classifier" => ~m.label
    /\ m.task = "classifier" /\ m.mode \in Writes => m.label
    /\ ProviderOf(m) \in {"dbscan", "hdbscan", "lda"} => m.mode \in Writes
    /\ m.mode \notin Writes => DOMAIN m.options = {}
    /\ OptionsAccepted(ProviderOf(m), m.options)
    /\ Cardinality(Range(m.metrics)) = Len(m.metrics)
    /\ Range(m.metrics) \subseteq Metrics(ProviderOf(m))
    /\ m.external => m.path # <<>>
    /\ m.external \/ IsPrefix(project.root, ArtifactPath(m, project))
    /\ ArtifactPath(m, project) \notin {project.root, <<>>}
    /\ WithinBounds(ArtifactPath(m, project), project)

------------------------------------------------------------------------------
(* The contracts of a project.                                              *)

Identity(m, project) == CanonicalPath(ArtifactPath(m, project), project.fs)
Sharing(m, models, project) == {o \in models : Identity(o, project) = Identity(m, project)}

\* _validate_artifact_dependencies: the writer of a directory is the only dependency of its
\* readers besides their data.
DependenciesFit(m, writers, shared) ==
    IF m.mode \in Writes \/ writers = {} THEN Len(m.deps) <= 1
    ELSE LET writer == CHOOSE w \in writers : TRUE
         IN  /\ m.deps # <<>> => m.deps[1] # writer.name
             /\ SubSeq(m.deps, 2, Len(m.deps)) = <<writer.name>>

\* validate_ml_project_contracts.
ProjectAccepted(models, project) ==
    /\ \A m \in models : Executable(m, project)
    /\ \A m, o \in models :
          Identity(m, project) # Identity(o, project)
             => ~Overlap(Identity(m, project), Identity(o, project))
    /\ \A m \in models :
          LET shared == Sharing(m, models, project)
              writers == {o \in shared : o.mode \in Writes}
          IN  /\ \A o \in shared : o.task = m.task /\ ProviderOf(o) = ProviderOf(m)
              /\ Cardinality(writers) <= 1
              /\ DependenciesFit(m, writers, shared)

------------------------------------------------------------------------------
(* Properties.                                                              *)

\* In an accepted project no two models write into each other's directories, a model reads
\* only what one of its own kind wrote, after it was written, and nothing of the project
\* itself lies in an artifact directory.
OneWriterEach(models, project) ==
    ProjectAccepted(models, project) =>
       LET Dir(m) == Real(ArtifactPath(m, project), project.fs) IN
       /\ \A m, o \in models : m # o /\ Overlap(Dir(m), Dir(o)) =>
             /\ Dir(m) = Dir(o) /\ ProviderOf(m) = ProviderOf(o)
             /\ m.mode \notin Writes \/ o.mode \notin Writes
             /\ m.mode \in Writes => m.name \in Range(o.deps) /\ o.deps[1] # m.name
       /\ \A m \in models, layout \in project.layout :
             ~Overlap(Dir(m), Real(layout, project.fs))

\* Options are reloaded from an artifact as they were when it was written, with or without
\* the ones an older version persisted, which have no other effect than to refuse.
OptionsSurvive(provider, o, legacy) ==
    OptionsAccepted(provider, o) =>
       LET kept == Dumped(provider, o) IN
       /\ PersistedAccepted(provider, kept) /\ Reloaded(provider, kept) = kept
       /\ PersistedAccepted(provider, kept @@ LegacyOptions(provider))
       /\ Reloaded(provider, kept @@ LegacyOptions(provider)) = kept
       /\ PersistedAccepted(provider, kept @@ legacy) =>
             /\ DOMAIN legacy \subseteq DOMAIN kept \cup DOMAIN LegacyOptions(provider)
             /\ Reloaded(provider, kept @@ legacy) = kept
==============================================================================
