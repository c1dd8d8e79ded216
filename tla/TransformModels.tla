---------------------------- MODULE TransformModels ----------------------------
(***************************************************************************)
(* An incremental transform (execution/transform.py) around the entity     *)
(* linker: its parents are the documents of the mentions model, the alias  *)
(* model is a whole-table reference.  A run reads both, compares every     *)
(* parent's fingerprint with the state, links the changed and the new      *)
(* parents, and publishes their rows and their state together; a full run  *)
(* publishes the rows first and the state afterwards.  Models are edited   *)
(* and runs die in between.                                                *)
(***************************************************************************)
EXTENDS EntityLinks

CONSTANTS
    Docs,         \* the documents that may have a mention
    Texts,        \* what the text of a mention may be
    References,   \* what the alias table may hold
    LinkOptions,  \* the options of the transform
    MaxEdits,     \* bound: edits of mentions, aliases and code
    MaxDeaths     \* bound: runs that die or fail

ASSUME TransformAssumption ==
    /\ \A t \in Texts : Len(t) > 0
    /\ \A r \in References : ~BadReference(r, FALSE)
    /\ LinkOptions.resolver = "alias_table" /\ LinkOptions.onAmbiguity = "keep"
    /\ {MaxEdits, MaxDeaths} \subseteq Nat

VARIABLES
    upstream,   \* the mentions and alias models and the code: [docs, aliases, code]
    target,     \* the relation: [exists, rows]
    known,      \* the state: each parent's fingerprint, or Unknown
    job,        \* the run: [at, full, loaded, input, incremental, todo, changed, removed, rows]
    edits, deaths,   \* counted against the bounds
    torn        \* history: a full run over an older state died before its new state, or
                \* a version was recorded for rows that an older code made

transformVars == <<upstream, target, known, job, edits, deaths, torn>>

Unknown == <<"unknown">>
Gone == <<>>               \* a document without a mention
NoJob == [at |-> "idle", full |-> FALSE, loaded |-> 0, input |-> <<>>, incremental |-> FALSE,
          todo |-> {}, changed |-> {}, removed |-> {}, rows |-> {}]

Present(input) == {d \in Docs : input.docs[d] # Gone}

\* run_links of one document: its links do not depend on the other documents
\* (LinksByDocument), so those of several are put together from these.
DocumentLinks ==
    [d \in Docs |-> [t \in Texts |-> [r \in References |->
       Rows(RunLinks(<<[id |-> d, doc |-> d, text |-> t]>>, r, LinkOptions))]]]

\* The transform on these parents: links with the version of their reference, as the code
\* makes them.
Output(input, docs) ==
    LET links == UNION {DocumentLinks[d][input.docs[d]][input.aliases]
                          : d \in docs \cap Present(input)}
    IN  {[link |-> l, version |-> ReferenceFingerprint(input.aliases, LinkOptions),
          code |-> input.code] : l \in links}

\* _frame_fingerprint: the rows of a table in any order, repetitions included.
FrameFingerprint(rows) ==
    [row \in ToSet(rows) |-> Cardinality({i \in DOMAIN rows : rows[i] = row})]

\* Mutant: the reference tables are not part of a parent's fingerprint.
ParentFingerprintOnly(input, d) == <<input.docs[d], <<>>, input.code>>

\* _parent_fingerprint beside the code version.
Fingerprint(input, d) == <<input.docs[d], FrameFingerprint(input.aliases), input.code>>

\* A new model, or one whose target an earlier `materialization: full` filled.
TransformInit ==
    /\ upstream \in [docs : {[d \in Docs |-> t] : t \in Texts}, aliases : References, code : {1}]
    /\ target \in {[exists |-> FALSE, rows |-> {}],
                   [exists |-> TRUE, rows |-> Output(upstream, Docs)]}
    /\ known = [d \in Docs |-> Unknown]
    /\ job = NoJob /\ edits = 0 /\ deaths = 0 /\ torn = FALSE

------------------------------------------------------------------------------
Edit(changed) ==
    /\ edits < MaxEdits /\ edits' = edits + 1
    /\ upstream' = changed /\ upstream' # upstream
    /\ UNCHANGED <<target, known, job, deaths, torn>>

\* The upstream models are rebuilt, the transform's code is changed.
EditUpstream ==
    \/ \E d \in Docs, t \in Texts \cup {Gone} : Edit([upstream EXCEPT !.docs[d] = t])
    \/ \E r \in References : Edit([upstream EXCEPT !.aliases = r])
    \/ Edit([upstream EXCEPT !.code = 2])

Step(next) == job' = next /\ UNCHANGED <<upstream, edits, deaths>>

\* run_transform_model up to the executor: the code is loaded, the parents are read ...
BeginTransform(full) ==
    /\ job.at = "idle"
    /\ Step([NoJob EXCEPT !.at = "read", !.full = full, !.loaded = upstream.code, !.input = upstream])
    /\ UNCHANGED <<target, known, torn>>

\* ... and then the reference, and the version of the code is computed from its file, which
\* was loaded before.
ReadReference ==
    /\ job.at = "read"
    /\ Step([job EXCEPT !.at = "classify", !.input = [upstream EXCEPT !.docs = job.input.docs]])
    /\ UNCHANGED <<target, known, torn>>

NoState == \A d \in Docs : known[d] = Unknown

\* Mutant: a target without state is taken for an incremental one.
ClassifyTrusting ==
    /\ job.at = "classify" /\ UNCHANGED <<target, known, torn>>
    /\ LET incremental == ~job.full
           todo == {d \in Present(job.input) :
                      incremental => known[d] # Fingerprint(job.input, d)}
       IN  Step([job EXCEPT !.incremental = incremental, !.todo = todo,
                   !.changed = {d \in todo : incremental /\ known[d] # Unknown},
                   !.removed = {d \in Docs \ Present(job.input) :
                                  incremental /\ known[d] # Unknown},
                   !.at = IF incremental /\ todo = {} THEN "remove" ELSE "invoke"])

\* A parent is skipped when its fingerprint is the state's; one the state knows is
\* changed, or removed; a target without state is rebuilt.
Classify ==
    /\ job.at = "classify" /\ UNCHANGED <<target, known, torn>>
    /\ LET incremental == ~job.full /\ ~(NoState /\ target.exists)
           todo == {d \in Present(job.input) :
                      incremental => known[d] # Fingerprint(job.input, d)}
       IN  Step([job EXCEPT !.incremental = incremental, !.todo = todo,
                   !.changed = {d \in todo : incremental /\ known[d] # Unknown},
                   !.removed = {d \in Docs \ Present(job.input) :
                                  incremental /\ known[d] # Unknown},
                   !.at = IF incremental /\ todo = {} THEN "remove" ELSE "invoke"])

\* _invoke_transform, before anything is written: on the parents to do, or on all.
Invoke ==
    /\ job.at = "invoke" /\ UNCHANGED <<target, known, torn>>
    /\ Step([job EXCEPT !.at = IF job.incremental THEN "remove" ELSE "replace",
                        !.rows = Output([job.input EXCEPT !.code = job.loaded],
                                        IF job.incremental THEN job.todo ELSE Docs)])

\* delete_rows_and_state: one transaction.  Without removed parents, nothing.
RemoveParents ==
    /\ job.at = "remove"
    /\ target' = [target EXCEPT !.rows = {r \in @ : r.link.doc \notin job.removed}]
    /\ known' = [d \in Docs |-> IF d \in job.removed THEN Unknown ELSE known[d]]
    /\ Step(IF job.todo = {} THEN NoJob ELSE [job EXCEPT !.at = "children"])
    /\ UNCHANGED torn

\* The code was edited after it was loaded and before its version was computed.
Skewed == job.loaded # job.input.code

\* replace_children: the rows of the changed parents deleted, the new rows upserted
\* on entity_link_id, which stands for the link, and the state of both advanced, in one
\* transaction.
ReplaceChildren ==
    /\ job.at = "children"
    /\ LET kept == {r \in target.rows : r.link.doc \notin job.changed}
       IN  target' = [exists |-> TRUE,
                      rows |-> {r \in kept : \A n \in job.rows : n.link # r.link} \cup job.rows]
    /\ known' = [d \in Docs |-> IF d \in job.todo THEN Fingerprint(job.input, d) ELSE known[d]]
    /\ torn' = (torn \/ Skewed)
    /\ Step(NoJob)

\* materialize_full, and only then
MaterializeFull ==
    /\ job.at = "replace"
    /\ target' = [exists |-> TRUE, rows |-> job.rows]
    /\ Step([job EXCEPT !.at = "baseline"]) /\ UNCHANGED <<known, torn>>

\* replace_state.
ReplaceBaseline ==
    /\ job.at = "baseline"
    /\ known' = [d \in Docs |-> IF d \in job.todo THEN Fingerprint(job.input, d) ELSE Unknown]
    /\ torn' = Skewed
    /\ Step(NoJob) /\ UNCHANGED target

\* The run dies, or a step fails and takes back what it did.
RunDies ==
    /\ job.at # "idle" /\ deaths < MaxDeaths /\ deaths' = deaths + 1
    /\ torn' = (torn \/ (job.at = "baseline" /\ ~NoState))
    /\ job' = NoJob /\ UNCHANGED <<upstream, target, known, edits>>

Advance ==
    \/ ReadReference \/ Classify \/ Invoke \/ RemoveParents
    \/ ReplaceChildren \/ MaterializeFull \/ ReplaceBaseline

TransformNext ==
    \/ EditUpstream \/ (\E full \in BOOLEAN : BeginTransform(full)) \/ Advance \/ RunDies

\* The operator runs the project again and again, and a run gets on.
TransformFairness == WF_transformVars(Advance) /\ WF_transformVars(BeginTransform(FALSE))

TransformSpec == TransformInit /\ [][TransformNext]_transformVars /\ TransformFairness

------------------------------------------------------------------------------
(* Properties.                                                             *)

\* The rows that a parent's fingerprint stands for.
LinkedAs(d, fingerprint) ==
    LET aliases == CHOOSE r \in References : FrameFingerprint(r) = fingerprint[2]
    IN  Output([docs |-> [x \in Docs |-> fingerprint[1]], aliases |-> aliases,
                code |-> fingerprint[3]], {d})

\* A parent is skipped for good while its fingerprint stands, so the rows of a parent
\* in the state are what its fingerprint links to, and a parent that the state does
\* not know has none, through edits between the reads, deaths between the steps and
\* the first run over a filled target (transform.py:318-345).  A full run that died
\* over an older state is the exception, and code edited after it was loaded and before
\* its version was computed (transform.py:172, 325), until the next full run.
ChildrenFollowState ==
    \/ torn \/ NoState \/ job.at = "baseline"
    \/ \A d \in Docs :
          {r \in target.rows : r.link.doc = d} = IF known[d] = Unknown THEN {}
              ELSE LinkedAs(d, known[d])

\* Once nothing is edited, runs bring the target to the links of what is there.
LinksConverge == <>[](torn \/ target.rows = Output(upstream, Docs))
================================================================================
