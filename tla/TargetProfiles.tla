---------------------------- MODULE TargetProfiles ----------------------------
(***************************************************************************)
(* The target of a run (profile.py, config/profile.py): where profiles.yml *)
(* is looked for, what is interpolated into it and what never is, the      *)
(* output that is selected, and how the options of a model are merged with *)
(* the settings that belong to the operator.  "" is an option left out.    *)
(***************************************************************************)
EXTENDS Integers, Sequences, FiniteSets, SequencesExt

Refused == [ok |-> FALSE]
Given(value) == value # ""

------------------------------------------------------------------------------
(* Discovery.  A place is "unset", "none", "file", "link" (to a file) or    *)
(* "dir"; Path.exists follows links.                                        *)

There(place) == place \in {"file", "link", "dir"}

\* _discover_profiles_file: the flag, the environment, the project, the home directory.
Discover(places) ==
    CASE There(places.flag) -> "flag"
      [] ~There(places.flag) /\ There(places.env) -> "env"
      [] ~There(places.flag) /\ ~There(places.env) ->
            CASE places.local \in {"link", "dir"} -> "refused"
              [] places.local = "file" -> "local"
              [] There(places.home) -> "home"
              [] OTHER -> "none"

\* What the project ships never takes the place of a file that the operator named, and no link
\* in the project is followed to a file of the operator's that was not meant for it.
OperatorFirst(places) ==
    \A shipped \in {"none", "file", "link", "dir"} :
       LET other == Discover([places EXCEPT !.local = shipped])
       IN  /\ Discover(places) \in {"flag", "env"} => other = Discover(places)
           /\ Discover(places) = "home" => other \in {"home", "local", "refused"}
           /\ Discover([places EXCEPT !.local = "link"]) # "local"

------------------------------------------------------------------------------
(* Interpolation.  A value is "none", "literal" text, an exact "reference"  *)
(* to a variable, a "default" (a reference with a default), or "embedded"   *)
(* in other text; `env` says whether the variable is set.                   *)

ProtectedFields == {"client_secret", "keyfile", "keyfile_json", "refresh_token", "token", "token_uri"}
Templated == {"reference", "default", "embedded"}

\* The fields of which an adapter makes references, whatever they hold or if they are templates.
AlwaysReference(adapter) ==
    CASE adapter = "duckdb" -> {"token"}
      [] adapter = "bigquery" -> {"keyfile_json", "token", "refresh_token", "client_secret"}
TemplateReference(adapter) == IF adapter = "bigquery" THEN {"keyfile", "token_uri"} ELSE {}

\* prepare_profile_input of the adapter: "credential" is a reference that is resolved on use.
Prepared(adapter, field, value) ==
    CASE value = "none" -> "none"
      [] value # "none" /\ field \in AlwaysReference(adapter) ->
            IF value = "reference" THEN "credential" ELSE "refused"
      [] value \in Templated /\ field \in TemplateReference(adapter) ->
            IF value = "reference" THEN "credential" ELSE "refused"
      [] OTHER -> value

\* _prepare_profile_warehouses: what the adapter left as a template in a credential field.
Protected(adapter, field, value) ==
    LET prepared == Prepared(adapter, field, value)
    IN  IF field \in ProtectedFields /\ prepared \in Templated THEN "refused" ELSE prepared

\* _interpolate_env_vars: "secret" is the text of the variable.
Interpolated(field, value, env) ==
    CASE value \notin Templated -> value
      [] field = "api_key_env" -> "refused"
      [] value \in Templated /\ field # "api_key_env" ->
            IF env THEN "secret" ELSE IF value = "default" THEN "literal" ELSE "refused"

\* Every field of every target, selected or not; a reference to a variable that is not set is
\* refused unless it was made a credential.
Load(adapter, fields, env) ==
    LET read == [f \in DOMAIN fields |->
                   IF f = "api_key_env" THEN Interpolated(f, fields[f], env)
                   ELSE Interpolated(f, Protected(adapter, f, fields[f]), env)]
    IN  IF \E f \in DOMAIN read : read[f] = "refused" THEN Refused ELSE [ok |-> TRUE, fields |-> read]

\* BigQuery _resolve_auth_method, of the method that the config names ("" if it names none).
Present(fields, f) == fields[f] # "none"
OAuth == {"token", "refresh_token", "client_secret", "token_uri"}
RefreshSet == OAuth \ {"token"}
Inferred(fields) ==
    CASE Present(fields, "keyfile") -> "service-account"
      [] ~Present(fields, "keyfile") /\ Present(fields, "keyfile_json") -> "service-account-json"
      [] ~Present(fields, "keyfile") /\ ~Present(fields, "keyfile_json") ->
            IF \E f \in OAuth : Present(fields, f) THEN "oauth-secrets" ELSE "oauth"
AuthMethod(fields, named) ==
    LET given == {f \in OAuth : Present(fields, f)}
        method == IF Given(named) THEN named ELSE Inferred(fields)
    IN  IF \/ Present(fields, "keyfile") /\ Present(fields, "keyfile_json")
           \/ (Present(fields, "keyfile") \/ Present(fields, "keyfile_json")) /\ given # {}
           \/ /\ method = "oauth-secrets"
              /\ \/ given \cap RefreshSet \notin {{}, RefreshSet}
                 \/ "token" \notin given /\ ~(RefreshSet \subseteq given)
           \/ method # Inferred(fields)
        THEN "refused" ELSE method

\* The text of a variable, or the default of one, is never the value of a credential field: it
\* is a reference or, for a key file and a token address, the path that the file names; and
\* BigQuery is left with one way to authenticate, of which every field is there.
SecretsStayReferences(adapter, fields, env, named) ==
    LET loaded == Load(adapter, fields, env)
        method == AuthMethod(loaded.fields, named)
    IN  loaded.ok =>
        /\ \A f \in DOMAIN fields :
              f \in ProtectedFields \cup {"api_key_env"} /\ fields[f] \in Templated
              => loaded.fields[f] = "credential"
        /\ \A f \in AlwaysReference(adapter) : loaded.fields[f] \in {"none", "credential"}
        /\ (adapter = "bigquery" /\ method # "refused") =>
              LET used == CASE method = "service-account" -> {"keyfile"}
                            [] method = "service-account-json" -> {"keyfile_json"}
                            [] method = "oauth" -> {}
                            [] method = "oauth-secrets" -> OAuth
              IN  /\ \A f \in ProtectedFields \ used : ~Present(loaded.fields, f)
                  /\ method \in {"service-account", "service-account-json"} =>
                        \A f \in used : Present(loaded.fields, f)
                  /\ method = "oauth-secrets" =>
                        \/ Present(loaded.fields, "token")
                        \/ \A f \in RefreshSet : Present(loaded.fields, f)

------------------------------------------------------------------------------
(* Providers: [model, url, custom, needsUrl, options, native, accepts,      *)
(* needsKey, env], the class attributes of a provider.                      *)

\* resolve_provider_model, resolve_base_url, parse_profile_options, validate_credential_reference
Model(p, model) == IF Given(model) THEN model ELSE IF Given(p.model) THEN p.model ELSE "refused"
Url(p, url) ==
    LET chosen == IF Given(url) THEN url ELSE p.url
    IN  CASE ~Given(chosen) -> IF p.needsUrl THEN "refused" ELSE ""
          [] Given(chosen) -> IF p.custom THEN chosen ELSE "refused"
OptionsParse(p, options) == options = "" \/ options \in p.options
KeyAllowed(p, key) == Given(key) => p.accepts

\* resolve_profile, of the llm block of the selected output.
ResolveLlm(llm, providers) ==
    IF llm.provider \notin DOMAIN providers THEN Refused
    ELSE LET p == providers[llm.provider]
         IN  IF \/ ~OptionsParse(p, llm.options) \/ ~KeyAllowed(p, llm.key)
                \/ Model(p, llm.model) = "refused" \/ Url(p, llm.url) = "refused"
             THEN Refused
             ELSE [ok |-> TRUE, llm |-> [llm EXCEPT !.model = Model(p, llm.model), !.url = Url(p, llm.url)]]

\* resolve_profile: the output that the flag or the profile names, without a profile the
\* implicit one; the implicit one has no llm, which is the default provider without settings.
Default == [provider |-> "anthropic", model |-> "", url |-> "", options |-> "", key |-> "", cache |-> "", timeout |-> "", prompt |-> ""]
ResolveProfile(profiles, profile, flag, providers) ==
    IF ~Given(profile) THEN [ok |-> TRUE, target |-> "<inline>", llm |-> Default]
    ELSE IF profile \notin DOMAIN profiles THEN Refused
    ELSE LET target == IF Given(flag) THEN flag ELSE profiles[profile].target
             outputs == profiles[profile].outputs
         IN  IF target \notin DOMAIN outputs THEN Refused
             ELSE IF ~ResolveLlm(outputs[target], providers).ok THEN Refused
             ELSE [ok |-> TRUE, target |-> target, llm |-> ResolveLlm(outputs[target], providers).llm]

------------------------------------------------------------------------------
(* The options of a model: provider, model, batch, cache_path, timeout,     *)
(* prompt, and those that belong to the operator.                           *)

OperatorOnly == {"api_key_env", "base_url", "provider_options"}
First(value, default) == IF Given(value) THEN value ELSE default

\* compiler.py, of the options of an extraction by an llm.
Compiles(options, providers) ==
    /\ ~Given(options.api_key_env)
    /\ Given(options.provider) => /\ options.provider \in DOMAIN providers
                                  /\ options.batch => providers[options.provider].native
    /\ options.cache # "outside"

\* resolve_llm_options
Merge(options, llm, providers) ==
    LET p == providers[llm.provider] model == First(options.model, llm.model)
    IN  IF \/ \E o \in OperatorOnly : Given(options[o])
           \/ Given(options.provider) /\ options.provider # llm.provider
           \/ llm.provider \notin DOMAIN providers
           \/ Model(p, model) = "refused" \/ Url(p, llm.url) = "refused"
           \/ ~OptionsParse(p, llm.options) \/ (options.batch /\ ~p.native)
        THEN Refused
        ELSE [ok |-> TRUE, provider |-> llm.provider, model |-> Model(p, model), url |-> Url(p, llm.url),
              options |-> llm.options, key |-> First(llm.key, p.env), batch |-> options.batch,
              cache |-> First(options.cache, llm.cache), timeout |-> First(options.timeout, llm.timeout),
              prompt |-> First(options.prompt, llm.prompt)]

\* BaseProvider.resolve_credential: the variable whose value is sent, "" if none is.
ResolveCredential(p, key) ==
    CASE ~KeyAllowed(p, key) -> "refused"
      [] KeyAllowed(p, key) /\ ~p.needsKey -> ""
      [] KeyAllowed(p, key) /\ p.needsKey -> IF Given(First(key, p.env)) THEN First(key, p.env) ELSE "refused"

\* resolve_llm_credential
Credential(merged, providers) ==
    LET p == providers[merged.provider]
    IN  IF ~p.needsKey /\ ~Given(merged.key) THEN ""
        ELSE IF ~Given(First(merged.key, p.env)) THEN "refused"
        ELSE ResolveCredential(p, First(merged.key, p.env))

NoOptions ==
    [provider |-> "", model |-> "", batch |-> FALSE, cache |-> "", timeout |-> "", prompt |-> "",
     api_key_env |-> "", base_url |-> "", provider_options |-> ""]

\* Whatever the options of a model say, the requests of a run go to the provider and the address
\* that the operator chose, with the operator's settings and credential; what the model may
\* choose is the model, the cache in the project, the time limit, the prompt and, with a
\* provider that has them, batches.
OperatorOwns(options, profiles, profile, flag, providers) ==
    LET resolved == ResolveProfile(profiles, profile, flag, providers)
        merged == Merge(options, resolved.llm, providers)
        plain == Merge([NoOptions EXCEPT !.model = First(options.model, resolved.llm.model)],
                       resolved.llm, providers)
    IN  (resolved.ok /\ Compiles(options, providers) /\ merged.ok) =>
        /\ plain.ok
        /\ <<merged.provider, merged.url, merged.options, merged.key>>
           = <<plain.provider, plain.url, plain.options, plain.key>>
        /\ Credential(merged, providers) = Credential(plain, providers)
        /\ merged.batch => providers[merged.provider].native
        /\ merged.cache # "outside" \/ resolved.llm.cache = "outside"

\* A target that was resolved can be used: a model that sets no option is neither refused when
\* the run reaches it, nor given another model or address than the target was checked with.
PreflightEnough(profiles, profile, flag, providers) ==
    LET resolved == ResolveProfile(profiles, profile, flag, providers)
        merged == Merge(NoOptions, resolved.llm, providers)
    IN  (resolved.ok /\ Given(profile)) =>
        /\ merged.ok /\ merged.model = resolved.llm.model /\ merged.url = resolved.llm.url
        /\ Credential(merged, providers) = "refused" =>
              ~Given(resolved.llm.key) /\ ~Given(providers[merged.provider].env)

\* resolve_embedding_options
EmbeddingOptions(name, profile, providers) ==
    IF \/ name \notin DOMAIN providers
       \/ Given(profile.provider) /\ (profile.provider # name \/ ~KeyAllowed(providers[name], profile.key)
                                      \/ ~OptionsParse(providers[name], profile.options))
    THEN Refused
    ELSE [ok |-> TRUE, options |-> profile.options, key |-> profile.key, timeout |-> First(profile.timeout, "60")]

\* An embed model that names another provider than the target's is refused: the operator's
\* settings and key are never given to a provider they were not written for.
EmbeddingOwned(name, profile, providers) ==
    LET resolved == EmbeddingOptions(name, profile, providers)
    IN  resolved.ok /\ (Given(resolved.key) \/ Given(resolved.options)) => profile.provider = name

------------------------------------------------------------------------------
(* Versions (versioning.py).  A provider also has an implementation, and    *)
(* the part of its options that changes answers.  A prompt stands for the   *)
(* instruction, the output schema and the sampling settings.                *)

\* profile_options_fingerprint
Semantic(p, options) == IF Given(options) THEN p.semantic[options] ELSE ""

\* _cache_key of extract_fields_with_usage: what a provider is asked about a content.
Request(p, name, model, url, options, text) ==
    [provider |-> name, implementation |-> p.implementation, model |-> Model(p, model), text |-> text,
     url |-> Url(p, url), options |-> Semantic(p, options)]

\* Mutant: the address of the provider is no part of its description.
DescriptorAnywhere(p, name, model, url, options) ==
    [provider |-> name, model |-> Model(p, model), implementation |-> p.implementation,
     endpoint |-> "", options |-> Semantic(p, options)]

\* _provider_descriptor
Descriptor(p, name, model, url, options) ==
    [DescriptorAnywhere(p, name, model, url, options) EXCEPT !.endpoint = Url(p, url)]

\* compute_model_code_version of an extraction by an llm: its options that shape the answer.
ExtractionVersion(merged, providers) ==
    <<Descriptor(providers[merged.provider], merged.provider, merged.model, merged.url, merged.options),
      merged.prompt>>

\* ... of a transform that uses the target's llm.
TransformVersion(llm, providers) ==
    <<Descriptor(providers[llm.provider], llm.provider, llm.model, llm.url, llm.options), llm.prompt>>

\* resolve_llm_runtime, of a model that names a provider and a model, or takes the target's.
Runtime(config, llm, providers) ==
    LET name == First(config.provider, llm.provider)
        own == name = llm.provider
        p == providers[name]
        hint == IF own THEN First(config.model, llm.model) ELSE config.model
    IN  IF name \notin DOMAIN providers \/ (own /\ ~OptionsParse(p, llm.options)) \/ Model(p, hint) = "refused"
        THEN Refused
        ELSE [ok |-> TRUE, provider |-> name, implementation |-> p.implementation, model |-> Model(p, hint),
              url |-> IF own THEN llm.url ELSE "", options |-> IF own THEN llm.options ELSE "",
              prompt |-> config.prompt, key |-> llm.key, cache |-> llm.cache, timeout |-> llm.timeout]

\* LLMMapRuntime.identity
RuntimeVersion(r, providers) ==
    <<r.provider, r.model, r.implementation, r.prompt.text, r.prompt.name, r.url,
      Semantic(providers[r.provider], r.options)>>

\* Rows that an incremental model keeps because the version is still the recorded one are those
\* it would ask for again: two plans of the same version ask the same of the same provider, and
\* name the same prompt.  Settings of the operator's that shape no answer, the key, the cache,
\* the time limit, change no version.
VersionDecides(a, b, providers, upgraded) ==
    LET before == Merge(a.options, a.llm, providers)
        after == Merge(b.options, b.llm, upgraded)
        asked(m, known) == Request(known[m.provider], m.provider, m.model, m.url, m.options, m.prompt)
        old == Runtime(a.config, a.llm, providers)
        new == Runtime(b.config, b.llm, upgraded)
        mapped(r, known) ==
            Request(known[r.provider], r.provider, r.model, r.url, r.options, r.prompt)
        tuned == [a.llm EXCEPT !.key = b.llm.key, !.cache = b.llm.cache, !.timeout = b.llm.timeout]
        usable(x, known) == x.ok /\ Url(known[x.provider], x.url) # "refused"
    IN  /\ (before.ok /\ after.ok) =>
              /\ ExtractionVersion(before, providers) = ExtractionVersion(after, upgraded) =>
                    asked(before, providers) = asked(after, upgraded)
              /\ TransformVersion(a.llm, providers) = TransformVersion(b.llm, upgraded) =>
                    Request(providers[a.llm.provider], a.llm.provider, a.llm.model, a.llm.url, a.llm.options, a.llm.prompt)
                    = Request(upgraded[b.llm.provider], b.llm.provider, b.llm.model, b.llm.url, b.llm.options, b.llm.prompt)
        /\ (/\ usable(old, providers) /\ usable(new, upgraded)
            /\ RuntimeVersion(old, providers) = RuntimeVersion(new, upgraded))
           => mapped(old, providers) = mapped(new, upgraded)
        /\ before.ok => LET other == Merge([a.options EXCEPT !.cache = b.options.cache, !.batch = FALSE], tuned, providers)
                        IN  other.ok /\ ExtractionVersion(other, providers) = ExtractionVersion(before, providers)
        /\ old.ok => LET other == Runtime(a.config, tuned, providers)
                     IN  other.ok /\ RuntimeVersion(other, providers) = RuntimeVersion(old, providers)
==============================================================================
