--------------------------- MODULE DocumentSources ---------------------------
(***************************************************************************)
(* Where the documents of an extraction model come from (sources/): files  *)
(* under a directory, objects under a prefix of a bucket, rows of a        *)
(* relation.  Each is listed first and fetched later, and the world goes   *)
(* on in between.                                                          *)
(* A name is a sequence of letters, 0 the slash; in a pattern -1 is any    *)
(* run of letters.  A local path is a sequence of names, a tree a function *)
(* from paths to entries [kind, bytes, to].  Contents are their own        *)
(* digests; an answer that is refused is Refused.                          *)
(***************************************************************************)
EXTENDS Integers, Sequences, FiniteSets, SequencesExt

Slash == 0
Star == -1
Deep == <<Star, Star>>
Refused == [ok |-> FALSE, refs |-> {}]
Found(refs) == [ok |-> TRUE, refs |-> refs]

\* fnmatch without its character classes.
Fits(text, pattern) ==
    LET fits[i \in 0..Len(text), j \in 0..Len(pattern)] ==
            IF j = 0 THEN i = 0
            ELSE IF pattern[j] = Star THEN fits[i, j - 1] \/ (i > 0 /\ fits[i - 1, j])
            ELSE i > 0 /\ text[i] = pattern[j] /\ fits[i - 1, j - 1]
    IN  fits[Len(text), Len(pattern)]

------------------------------------------------------------------------------
(* Files: the pattern is an automaton whose state is a place in it.         *)

EffectivePattern(source) ==
    IF source.recursive THEN <<Deep>> \o source.pattern ELSE source.pattern

Closure(states, pattern) ==
    {j \in 0..Len(pattern) : \E i \in states : i <= j /\ \A k \in i + 1 .. j : pattern[k] = Deep}

PatternStates(path, pattern) ==
    LET after(states, part) ==
            Closure({i \in states : i < Len(pattern) /\ pattern[i + 1] = Deep}
                    \cup {i + 1 : i \in {i \in states : i < Len(pattern) /\ pattern[i + 1] # Deep
                                                        /\ Fits(part, pattern[i + 1])}}, pattern)
    IN  FoldLeft(after, Closure({0}, pattern), path)

Matches(path, pattern) == Len(pattern) \in PatternStates(path, pattern)
CouldMatchDescendant(path, pattern) == \E i \in PatternStates(path, pattern) : i < Len(pattern)

KindAt(tree, path) == IF path \in DOMAIN tree THEN tree[path].kind ELSE "none"

\* The walk goes down where something below may match; what it lists is opened a moment
\* later, in the tree as it is then, and never through a link.
Walked(tree, pattern) ==
    {d \in DOMAIN tree :
        \A n \in 0..Len(d) : /\ tree[SubSeq(d, 1, n)].kind = "dir"
                             /\ n = 0 \/ CouldMatchDescendant(SubSeq(d, 1, n), pattern)}

Discover(tree, opened, source) ==
    LET pattern == EffectivePattern(source)
        listed == {x \in DOMAIN tree \ {<<>>} : Front(x) \in Walked(tree, pattern)}
        matched == {x \in listed : tree[x].kind = "file" /\ Matches(x, pattern)}
        links == {x \in listed : tree[x].kind = "link"}
        kept == {x \in matched : KindAt(opened, x) = "file"}
        moved ==
            \/ \E x \in links : Matches(x, pattern) \/ CouldMatchDescendant(x, pattern)
            \/ \E d \in {<<>>} \cup Walked(tree, pattern) : KindAt(opened, d) # "dir"
            \/ \E x \in matched : KindAt(opened, x) \in {"link", "none"}
    IN  CASE <<>> \notin DOMAIN tree -> Found({})
          [] <<>> \in DOMAIN tree /\ moved -> Refused
          [] OTHER -> Found({[path |-> x, hash |-> opened[x].bytes] : x \in kept})

\* The file is reached again by directories, never through a link, copied, and compared with
\* the digest of discovery.
Reached(path, tree) ==
    /\ \A n \in 0..Len(path) - 1 : KindAt(tree, SubSeq(path, 1, n)) = "dir"
    /\ KindAt(tree, path) = "file"

Fetch(ref, tree) ==
    IF Reached(ref.path, tree) /\ tree[ref.path].bytes = ref.hash
    THEN Found({tree[ref.path].bytes}) ELSE Refused

------------------------------------------------------------------------------
(* Objects: one listing under a prefix that ends at a slash.                *)

ListPrefix(source) ==
    LET kept == {n \in 0..Len(source.prefix) : \A i \in n + 1 .. Len(source.prefix) : source.prefix[i] = Slash}
        n == CHOOSE n \in kept : \A m \in kept : n <= m
    IN  IF source.prefix = <<>> THEN <<>> ELSE SubSeq(source.prefix, 1, n) \o <<Slash>>

Joined(names) == FoldLeft(LAMBDA all, name : IF all = <<>> THEN name ELSE all \o <<Slash>> \o name, <<>>, names)
HasSlash(text) == Slash \in ToSet(text)
LastName(text) ==
    LET cut == {0} \cup {i \in DOMAIN text : text[i] = Slash}
    IN  SubSeq(text, 1 + CHOOSE i \in cut : \A j \in cut : j <= i, Len(text))

MatchesObject(relative, source) ==
    LET pattern == Joined(source.pattern)
    IN  /\ source.recursive \/ ~HasSlash(relative)
        /\ Fits(IF HasSlash(pattern) THEN relative ELSE LastName(relative), pattern)

ContentHash(object) ==
    IF object.md5 THEN <<"md5", object.bytes>> ELSE <<"gen", object.generation>>

DiscoverObjects(bucket, source) ==
    LET prefix == ListPrefix(source)
        listed == {x \in DOMAIN bucket : IsPrefix(prefix, x)}
        relative(x) == SubSeq(x, Len(prefix) + 1, Len(x))
        matched == {x \in listed : /\ Last(x) # Slash /\ relative(x) # <<>>
                                   /\ MatchesObject(relative(x), source)}
    IN  IF Cardinality(listed) > source.maxObjects THEN Refused
        ELSE Found({[name |-> x, path |-> relative(x), hash |-> ContentHash(bucket[x]),
                     generation |-> bucket[x].generation] : x \in matched})

\* The bucket keeps the live generation of an object; the listed one is asked for.
FetchObject(ref, bucket) ==
    IF ref.name \in DOMAIN bucket /\ bucket[ref.name].generation = ref.generation
    THEN Found({bucket[ref.name].bytes}) ELSE Refused

------------------------------------------------------------------------------
(* Rows: read once, in the order the warehouse returns them.  NULL is <<>>. *)

DiscoverRows(rows, source) ==
    LET pathOf(row) == IF source.pathColumn THEN row.segment \o <<Slash>> \o row.key ELSE row.key
        add(acc, row) ==
            IF row.key = <<>> \/ row.key \in acc.keys THEN [acc EXCEPT !.bad = TRUE]
            ELSE IF \/ source.pathColumn /\ row.segment = <<>>
                    \/ pathOf(row) \in {r.path : r \in acc.refs}
                 THEN [acc EXCEPT !.bad = TRUE, !.keys = @ \cup {row.key}]
            ELSE [acc EXCEPT !.keys = @ \cup {row.key},
                             !.refs = @ \cup {[path |-> pathOf(row), hash |-> row]}]
        end == FoldLeft(add, [keys |-> {}, refs |-> {}, bad |-> FALSE], rows)
    IN  IF Len(rows) > source.maxObjects \/ end.bad THEN Refused ELSE Found(end.refs)

------------------------------------------------------------------------------
(* What is promised of them.                                                *)

RECURSIVE Globs(_, _)
\* The meaning of a pattern: ** is any number of names, anything else one.
Globs(path, pattern) ==
    IF pattern = <<>> THEN path = <<>>
    ELSE IF Head(pattern) = Deep
         THEN Globs(path, Tail(pattern)) \/ (path # <<>> /\ Globs(Tail(path), pattern))
    ELSE path # <<>> /\ Fits(Head(path), Head(pattern)) /\ Globs(Tail(path), Tail(pattern))

\* The paths one can name in a tree, by way of its links or not, that lead to a file.
Named(tree) ==
    {x \in DOMAIN tree : tree[x].kind = "file"}
    \cup UNION {{l \o SubSeq(x, Len(tree[l].to) + 1, Len(x)) :
                    x \in {x \in DOMAIN tree : tree[x].kind = "file" /\ IsPrefix(tree[l].to, x)}}
                : l \in {l \in DOMAIN tree : tree[l].kind = "link"}}

\* No file that the pattern names is left out in silence, in a directory that was pruned or
\* behind a link, and no other is listed (local.py:80-101, 128-198).
NothingMissed(tree, source) ==
    LET found == Discover(tree, tree, source)
    IN  found.ok /\ <<>> \in DOMAIN tree =>
            {r.path : r \in found.refs} = {x \in Named(tree) : Globs(x, EffectivePattern(source))}

\* What is extracted is what was fingerprinted: a file that changed while it was discovered or
\* since is fetched as it was or not at all (local.py:158-195, 449-478; sources/base.py:63-70).
FetchedAsDiscovered(tree, opened, later, source) ==
    \A r \in Discover(tree, opened, source).refs :
       Fetch(r, later) \in {Refused, Found({opened[r.path].bytes})}

\* The same of objects; and an object with the fingerprint of an earlier listing has its bytes,
\* also when it was written again in between (gcs.py:64-70, 203-222).
ObjectsAsListed(bucket, later, source) ==
    LET refs == DiscoverObjects(bucket, source).refs
    IN  \A r \in refs :
           /\ FetchObject(r, later) \in {Refused, Found({bucket[r.name].bytes})}
           /\ \A s \in DiscoverObjects(later, source).refs :
                 s.path = r.path /\ s.hash = r.hash => later[s.name].bytes = bucket[r.name].bytes

\* A source that moves from a directory to a bucket keeps its documents, and a neighbour whose
\* name begins alike adds none (gcs.py:51-61, 121-150): for patterns of one name.
SourcesAgree(tree, source, neighbours) ==
    LET files == {x \in DOMAIN tree : tree[x].kind = "file"}
        nameOf(x) == ListPrefix(source) \o Joined(x)
        bucket == [n \in {nameOf(x) : x \in files} \cup neighbours |-> [bytes |-> 1, md5 |-> TRUE, generation |-> 1]]
        found == DiscoverObjects(bucket, [source EXCEPT !.maxObjects = Cardinality(DOMAIN bucket)])
    IN  /\ Len(source.pattern) = 1 /\ source.pattern[1] # Deep
        /\ \A x \in DOMAIN tree : tree[x].kind # "link"
        => {r.path : r \in found.refs} = {Joined(r.path) : r \in Discover(tree, tree, source).refs}

\* An accepted relation is one document for each row, told apart by its path and by its key,
\* whatever the order the warehouse returns the rows in, and a refused one is refused in every
\* order (warehouse.py:133-205).
RowsAreDocuments(rows, source) ==
    LET found == DiscoverRows(rows, source)
    IN  /\ DiscoverRows(Reverse(rows), source) = found
        /\ found.ok => /\ Cardinality({r.path : r \in found.refs}) = Len(rows)
                       /\ Cardinality({r.hash.key : r \in found.refs}) = Len(rows)
                       /\ {r.hash : r \in found.refs} = ToSet(rows)
==============================================================================
