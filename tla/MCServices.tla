------------------------------ MODULE MCServices ------------------------------
(* Six machines that share no state, each checked by itself in one run: a  *)
(* behaviour is about one subject, and the others keep their first state.   *)
EXTENDS ContextServer, WarehouseLifecycle, ProviderCalls, TransformModels,
        SearchEvolution, MLArtifacts

VARIABLES subject

vars == <<subject, serverVars, lifecycleVars, callVars, transformVars, evolutionVars,
          artifactVars>>

\* One call of each kind while a row or the registry changes and the index
\* follows, a search of a target without a query log, and two calls that meet at the limiter.
MCWorlds ==
    {[calls |-> 1, kinds |-> {"list", "search", "document", "lineage"}, changes |-> 1,
      ticks |-> 0, log |-> TRUE],
     [calls |-> 1, kinds |-> {"search"}, changes |-> 0, ticks |-> 0, log |-> FALSE],
     [calls |-> 2, kinds |-> {"document"}, changes |-> 0, ticks |-> 2, log |-> TRUE]}

MCCalls ==
    {[via |-> v, ids |-> <<"a">>, retries |-> 2] : v \in {"anthropic", "vertex", "vllm"}}
    \cup {[via |-> "vertex_embed", ids |-> <<"a", "b", "c">>, retries |-> 1],
          [via |-> "sequential", ids |-> <<"a", "b">>, retries |-> 1],
          [via |-> "native", ids |-> <<"a", "b">>, retries |-> 1]}

\* Aliases that resolve a mention, leave it ambiguous, or repeat a row.
Alias(id, text) == [ns |-> "n", id |-> id, text |-> text, vector |-> <<>>]
MCTexts == {<<1>>, <<-1>>}
MCReferences ==
    {<<Alias("a", <<1>>)>>, <<Alias("a", <<-1>>), Alias("b", <<1>>)>>,
     <<Alias("a", <<1>>), Alias("a", <<1>>)>>}
MCLinkOptions ==
    [resolver |-> "alias_table", methods |-> <<"exact", "normalized">>, onAmbiguity |-> "keep"]

\* A new attribute, a changed role, a wider projection in either order, a new version of
\* the store, a field of another type upstream, a cadence and a policy that are no part of
\* the descriptor.
MCConfigs ==
    LET first == [store |-> "v1", attributes |-> <<>>, display |-> <<"t">>, batch |-> 1,
                  policy |-> "fail",
                  types |-> [f \in {"id", "a", "b", "t", "u"} |-> "string"]]
        named == [first EXCEPT !.attributes = [a |-> "user"], !.policy = "online"]
    IN  {first, [first EXCEPT !.batch = 2, !.policy = "online"], named,
         [named EXCEPT !.attributes = [a |-> "policy"]],
         [named EXCEPT !.attributes = [a |-> "user", b |-> "user"]],
         [named EXCEPT !.display = <<"u", "t">>], [named EXCEPT !.display = <<"t", "u">>],
         [named EXCEPT !.store = "v2"], [named EXCEPT !.types["t"] = "integer"]}

Init ==
    /\ subject \in {"server", "warehouse", "provider", "transform", "index", "artifact"}
    /\ ServerInit /\ LifecycleInit /\ CallInit /\ TransformInit /\ EvolutionInit
    /\ ArtifactInit
    /\ subject # "server" => bounds.calls = 2
    /\ subject # "warehouse" => engine = "duckdb" /\ ~corpus /\ ~pinned
    /\ subject # "provider" => asked.via = "anthropic"
    /\ subject # "index" => config.policy = "fail" /\ ~Exists(collection)
    /\ subject # "transform" =>
          /\ upstream = [docs |-> [d \in Docs |-> <<1>>], code |-> 1,
                         aliases |-> <<Alias("a", <<1>>)>>]
          /\ ~target.exists

OnServer(A) ==
    /\ subject = "server"
    /\ A /\ UNCHANGED <<subject, lifecycleVars, callVars, transformVars, evolutionVars, artifactVars>>
OnWarehouse(A) ==
    /\ subject = "warehouse"
    /\ A /\ UNCHANGED <<subject, serverVars, callVars, transformVars, evolutionVars, artifactVars>>
OnProvider(A) ==
    /\ subject = "provider"
    /\ A /\ UNCHANGED <<subject, serverVars, lifecycleVars, transformVars, evolutionVars, artifactVars>>
OnTransform(A) ==
    /\ subject = "transform"
    /\ A /\ UNCHANGED <<subject, serverVars, lifecycleVars, callVars, evolutionVars, artifactVars>>
OnIndex(A) ==
    /\ subject = "index"
    /\ A /\ UNCHANGED <<subject, serverVars, lifecycleVars, callVars, transformVars, artifactVars>>
OnArtifact(A) ==
    /\ subject = "artifact"
    /\ A /\ UNCHANGED <<subject, serverVars, lifecycleVars, callVars, transformVars, evolutionVars>>

Next ==
    \/ OnServer(ServerNext) \/ OnWarehouse(LifecycleNext)
    \/ OnProvider(CallNext) \/ OnTransform(TransformNext)
    \/ OnIndex(EvolutionNext) \/ OnArtifact(ArtifactNext)

\* The fairness of each machine; a process that runs is one of theirs.
Fairness ==
    /\ WF_vars(OnServer(Tick) \/ OnWarehouse(Proceed) \/ OnTransform(Advance)
               \/ OnIndex(BeginPublish \/ EvolutionStep) \/ OnArtifact(SectionStep))
    /\ WF_vars(OnArtifact(RunStep)) /\ WF_vars(OnArtifact(\E t \in Trainers, m \in Fitted : BeginRun(t, m)))
    /\ \A r \in Requests : WF_vars(OnServer(Waits(r)))
    /\ WF_vars(OnTransform(BeginTransform(FALSE)))
    /\ SF_vars(OnWarehouse(Begin("run"))) /\ SF_vars(OnWarehouse(Begin("migrate")))
    /\ SF_vars(OnWarehouse(PinSchema)) /\ SF_vars(OnWarehouse(ResolveConflict))

Spec == Init /\ [][Next]_vars /\ Fairness

\* The subject of a behaviour is the one whose liveness it is about.
\* Each subject ends what it began: calls of the server are answered (or stand in the append
\* of their log row, which may hang), the warehouse opens, a transform's rows come to follow their
\* inputs, a reconfigured index is published or refused, no publication of an artifact stays
\* pending.
SubjectsSettle ==
    /\ subject = "server" => EveryCallAnswered
    /\ subject = "warehouse" => OpensEventually
    /\ subject = "transform" => LinksConverge
    /\ subject = "index" => SettlesOrRefuses
    /\ subject = "artifact" => PublicationsSettle
==============================================================================
