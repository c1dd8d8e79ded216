----------------------------- MODULE ProjectFiles -----------------------------
(***************************************************************************)
(* What a project is read from: the YAML files under its configured        *)
(* directories and the models that a `for_each` template stands for        *)
(* (config/loader.py, paths.py), and the roots of its sources              *)
(* (config/source.py, and profile.py for the overrides of a target).       *)
(***************************************************************************)
EXTENDS Integers, Sequences, FiniteSets, SequencesExt

Refused == [ok |-> FALSE]

------------------------------------------------------------------------------
(* Templates.  A text is a sequence of characters: a positive number is a   *)
(* letter or a digit, its negative the same letter in upper case, 0 is any  *)
(* other character, in a name "_".                                          *)

MaxSlug == 4       \* 32 in the code
MaxVariants == 4   \* 256 in the code
LetterX == <<24>>
WordEmpty == <<5, 13, 16, 20, 25>>

\* The digest of a long slug: two slugs that differ have two digests.
Digest(slug) == 1000 + FoldLeft(LAMBDA acc, c : 31 * acc + c, 0, slug)

\* _value_slug, of a text: lower case, each run of other characters one "_", none at the ends.
TextSlug(text) ==
    LET lower == [i \in DOMAIN text |-> IF text[i] < 0 THEN -text[i] ELSE text[i]]
        kept == SelectSeq([i \in DOMAIN text |-> i],
                          LAMBDA i : \/ lower[i] # 0
                                     \/ /\ i > 1 /\ lower[i - 1] # 0
                                        /\ \E j \in i..Len(text) : lower[j] # 0)
        slug == IF kept = <<>> THEN LetterX ELSE [k \in DOMAIN kept |-> lower[kept[k]]]
    IN  IF Len(slug) > MaxSlug THEN SubSeq(slug, 1, MaxSlug - 2) \o <<0, Digest(slug)>> ELSE slug

\* _value_slug: a value is a sequence of texts, a scalar one of length 1.
Slug(value) ==
    IF value = <<>> THEN WordEmpty
    ELSE FoldLeft(LAMBDA acc, text : acc \o <<0>> \o TextSlug(text), TextSlug(value[1]), Tail(value))

\* _variant_name
VariantName(t, combo) ==
    FoldLeft(LAMBDA acc, i : acc \o <<0, 0>> \o t.axes[i].name \o <<0>> \o Slug(t.axes[i].values[combo[i]]),
             t.name, [i \in DOMAIN t.axes |-> i])

\* itertools.product: one value of each axis, by its place.
Combos(t) == {c \in [DOMAIN t.axes -> 1..3] : \A i \in DOMAIN c : c[i] \in DOMAIN t.axes[i].values}

\* _substitute: every placeholder of a field by the value of its axis.
Axis(t, name) == CHOOSE i \in DOMAIN t.axes : t.axes[i].name = name
Substitute(t, combo) ==
    [f \in DOMAIN t.fields |->
        [h \in DOMAIN t.fields[f] |-> LET i == Axis(t, t.fields[f][h]) IN t.axes[i].values[combo[i]]]]

Variant(t, combo) ==
    [name |-> VariantName(t, combo), values |-> Substitute(t, combo), tags |-> t.tags \cup {t.name},
     combo |-> combo]

TemplateValid(t) ==
    /\ t.axes # <<>> /\ \A i \in DOMAIN t.axes : t.axes[i].ident /\ t.axes[i].values # <<>>
    /\ Cardinality(Combos(t)) <= MaxVariants
    /\ \A f \in DOMAIN t.fields : \A h \in DOMAIN t.fields[f] :
          t.fields[f][h] \in {t.axes[i].name : i \in DOMAIN t.axes}

NamesDiffer(t) ==
    \A c, d \in Combos(t) : VariantName(t, c) = VariantName(t, d) => c = d

\* _expand_single_raw_model: a model without `for_each` is itself.
Expand(t) ==
    IF ~t.each THEN [ok |-> TRUE, models |-> {[name |-> t.name, values |-> t.fields, tags |-> t.tags, combo |-> <<>>]}]
    ELSE IF TemplateValid(t) /\ NamesDiffer(t)
         THEN [ok |-> TRUE, models |-> {Variant(t, c) : c \in Combos(t)}]
    ELSE Refused

\* The models of a file, and the duplicate check of the project contract.
LoadTemplates(templates) ==
    LET expanded == [k \in DOMAIN templates |-> Expand(templates[k])]
        all == [k \in DOMAIN templates |-> expanded[k].models]
    IN  IF \E k \in DOMAIN templates : ~expanded[k].ok THEN Refused
        ELSE IF \E j, k \in DOMAIN templates : j # k /\ \E m \in all[j], n \in all[k] : m.name = n.name
             THEN Refused
        ELSE [ok |-> TRUE, models |-> all]

\* A name tells the template and the values of its model: no value of an axis is lost, no two
\* combinations share a table, and the tag of the template selects all its variants and, of
\* the other templates, only models that carry that tag themselves.
VariantsSound(templates) ==
    LET loaded == LoadTemplates(templates)
    IN  loaded.ok =>
        \A k \in DOMAIN templates :
           LET t == templates[k] models == loaded.models[k]
           IN  /\ t.each => Cardinality({m.name : m \in models}) = Cardinality(Combos(t))
               /\ t.each => \A m \in models : t.name \in m.tags
               /\ \A j \in DOMAIN templates \ {k} : \A m \in models, n \in loaded.models[j] :
                     m.name # n.name

------------------------------------------------------------------------------
(* Directories.  A tree is the kind of each physical path, and the links    *)
(* with the physical path that each of them leads to.  `root` is the path   *)
(* the project was given by, which may itself go through a link.            *)

Up == ".."
Within(path, dir) == IsPrefix(dir, path)
Target(tree, path) == IF path \in DOMAIN tree.links THEN tree.links[path] ELSE path
Parent(path) == IF path = <<>> THEN <<>> ELSE SubSeq(path, 1, Len(path) - 1)

\* Path.resolve: every link followed, ".." is the parent of what was reached.
Resolve(tree, path) ==
    FoldLeft(LAMBDA at, part : IF part = Up THEN Parent(at) ELSE Target(tree, Append(at, part)),
             <<>>, path)
\* os.path.abspath: ".." drops the part before it, links are not followed.
Lexical(path) ==
    FoldLeft(LAMBDA at, part : IF part = Up THEN Parent(at) ELSE Append(at, part), <<>>, path)

\* resolve_within_project.  A relative path is joined to the root.
Joined(tree, path) == IF path.absolute THEN path.parts ELSE tree.root \o path.parts
Confined(tree, path) == Within(Resolve(tree, Joined(tree, path)), Resolve(tree, tree.root))

\* _reject_symlink_directory_components
NoLinkOnTheWay(tree, path) ==
    LET lexical == Lexical(Joined(tree, path))
    IN  Within(lexical, Lexical(tree.root)) =>
        \A n \in (Len(Lexical(tree.root)) + 1)..Len(lexical) :
           SubSeq(lexical, 1, n) \notin DOMAIN tree.links

\* What a walk from a physical directory meets, without following links.
Below(tree, dir) == {p \in DOMAIN tree.kinds \cup DOMAIN tree.links : Within(p, dir) /\ p # dir}
IsYaml(tree, path) == path[Len(path)] \in tree.yaml
LeadsToDir(tree, link) ==
    tree.links[link] \in DOMAIN tree.kinds /\ tree.kinds[tree.links[link]] = "dir"

\* _validate_config_file
ConfigFile(tree, path, allowed) ==
    /\ path \notin DOMAIN tree.links
    /\ path \in DOMAIN tree.kinds /\ tree.kinds[path] = "file"
    /\ Within(Resolve(tree, path), Resolve(tree, allowed))

\* _load_yaml_dir and _load_model_yaml_dir, of a resolved directory.
Walk(tree, dir) ==
    LET entries == Below(tree, dir)
        files == {p \in entries : /\ IsYaml(tree, p)
                                  /\ IF p \in DOMAIN tree.links THEN TRUE ELSE tree.kinds[p] # "dir"}
    IN  IF dir \notin DOMAIN tree.kinds THEN [ok |-> TRUE, files |-> {}]
        ELSE IF \/ tree.kinds[dir] # "dir"
                \/ \E p \in entries \cap DOMAIN tree.links : LeadsToDir(tree, p)
                \/ \E p \in files : ~ConfigFile(tree, p, dir)
             THEN Refused
        ELSE [ok |-> TRUE, files |-> files]

\* load_project: the layout, the project file, then the directories of sources and models.
LoadFiles(tree, layout) ==
    LET walked == [k \in DOMAIN layout |-> Walk(tree, Resolve(tree, Joined(tree, layout[k])))]
        file == Append(Resolve(tree, tree.root), "project")
    IN  IF \/ ~ConfigFile(tree, file, tree.root)
           \/ \E k \in DOMAIN layout : ~Confined(tree, layout[k]) \/ ~NoLinkOnTheWay(tree, layout[k])
           \/ \E k \in DOMAIN layout : ~walked[k].ok
        THEN Refused
        ELSE [ok |-> TRUE, files |-> {file} \cup UNION {walked[k].files : k \in DOMAIN layout}]

\* Everything a project says of itself is a regular file, at its own place under the physical
\* root of the project: no link, on the way or in the tree, brings in a file of elsewhere.
FilesInside(tree, layout) ==
    LET loaded == LoadFiles(tree, layout)
    IN  loaded.ok => \A f \in loaded.files : /\ tree.kinds[f] = "file" /\ Resolve(tree, f) = f
                                             /\ Within(f, Resolve(tree, tree.root))

\* Nothing under a configured directory is left out silently: a YAML file that the walk cannot
\* take, or that only a link leads to, stops the load.
NothingSkipped(tree, layout) ==
    LET loaded == LoadFiles(tree, layout)
    IN  loaded.ok =>
        \A k \in DOMAIN layout : \A p \in DOMAIN tree.kinds \cup DOMAIN tree.links :
           LET dir == Resolve(tree, Joined(tree, layout[k]))
           IN  /\ Within(p, dir) /\ p # dir /\ IsYaml(tree, p)
               /\ (p \in DOMAIN tree.kinds => tree.kinds[p] # "dir")
               => p \in loaded.files

------------------------------------------------------------------------------
(* Sources.  `set` is the set of options that the project wrote down.       *)

Warehouse == {"warehouse://relation", "warehouse://bad-name"}
LocalPaths == {"inside", "outside"}
FileOptions == {"file_pattern", "recursive", "external"}

\* SourceConfig._validate_warehouse_source
SourceConfigValid(s) ==
    /\ IF s.path \in Warehouse
       THEN s.path # "warehouse://bad-name" /\ s.key # "" /\ s.set \cap FileOptions = {}
       ELSE s.key = "" /\ s.columns = <<>>
    /\ s.key # "" => s.key \notin ToSet(s.columns)

\* apply_source_path_overrides, of one source.
Overridden(s, path) ==
    IF s.external \/ path \in LocalPaths
    THEN [s EXCEPT !.path = path, !.external = TRUE, !.set = @ \cup {"path", "external"}]
    ELSE [s EXCEPT !.path = path, !.set = @ \cup {"path"}]

\* apply_source_path_overrides
Override(sources, paths) ==
    LET out == [i \in DOMAIN sources |->
                  IF sources[i].name \in DOMAIN paths
                  THEN Overridden(sources[i], paths[sources[i].name]) ELSE sources[i]]
    IN  IF \/ ~(DOMAIN paths \subseteq {sources[i].name : i \in DOMAIN sources})
           \/ \E i \in DOMAIN out : ~SourceConfigValid(out[i])
        THEN Refused ELSE [ok |-> TRUE, sources |-> out]

\* resolve_within_project of the root of a local source.
SourceReads(s) == s.path \in LocalPaths => s.external \/ s.path = "inside"

\* A target changes where a source is read, and nothing else of it; what it names is as valid
\* as what the project may write, so no target fails in the middle of a discovery; and a root
\* outside the project is one that the project opted for, or that the operator named.
OverridesChecked(sources, paths) ==
    LET result == Override(sources, paths)
    IN  (result.ok /\ \A i \in DOMAIN sources : SourceConfigValid(sources[i])) =>
        \A i \in DOMAIN sources :
           LET s == sources[i] r == result.sources[i]
           IN  /\ r.name = s.name /\ r.key = s.key /\ r.columns = s.columns
               /\ SourceConfigValid(r)
               /\ r.path = (IF s.name \in DOMAIN paths THEN paths[s.name] ELSE s.path)
               /\ (SourceReads(r) /\ r.path = "outside")
                  => s.external \/ (s.name \in DOMAIN paths /\ paths[s.name] = "outside")

------------------------------------------------------------------------------
(* Released prompts (prompts.py).  A prompt file is of a name and a         *)
(* version; a folder or a file may be a link.  `lock` is the committed      *)
(* record of what each version said; <<>> is no lock.                       *)

\* discover_prompts: the text of every version; a file that is a link is not one.
Discovered(files) ==
    [key \in {k \in DOMAIN files : files[k].kind = "file"} |-> files[key].text]

\* check_lock
Drift(files, lock) ==
    LET found == Discovered(files)
    IN  {<<k, "missing_file">> : k \in DOMAIN lock \ DOMAIN found}
        \cup {<<k, "unlocked">> : k \in DOMAIN found \ DOMAIN lock}
        \cup {<<k, "changed">> : k \in {x \in DOMAIN lock \cap DOMAIN found : lock[x] # found[x]}}

\* write_lock; a refused one leaves the lock.
WriteLock(files, lock, force) ==
    LET bad == {d \in Drift(files, lock) : d[2] \in {"changed", "missing_file"}}
    IN  IF bad # {} /\ ~force THEN lock ELSE Discovered(files)

\* resolve_prompt: "" where it is refused.
ResolvePrompt(files, links, key) ==
    IF key \in DOMAIN files /\ files[key].kind = "file" /\ key[1] \notin links
    THEN files[key].text ELSE ""

\* The lock after the project was changed and locked again and again.
Locked(history) ==
    FoldLeft(LAMBDA lock, step : IF step.lock THEN WriteLock(step.files, lock, step.force) ELSE lock,
             <<>>, history)

\* When the check is clean, every version that was ever locked, and that nobody forced anew
\* since, says what it said then, and a model that runs with it is asked that text.
ReleasesKept(history, links) ==
    LET last == history[Len(history)].files
        lock(i) == Locked(SubSeq(history, 1, i))
        forced(i) == \E j \in i + 1..Len(history) : history[j].lock /\ history[j].force
    IN  Drift(last, Locked(history)) = {} =>
        \A i \in DOMAIN history : ~forced(i) =>
           \A key \in DOMAIN lock(i) :
              /\ key \in DOMAIN last /\ last[key].text = lock(i)[key]
              /\ ResolvePrompt(last, links, key) \in {"", lock(i)[key]}
==============================================================================
