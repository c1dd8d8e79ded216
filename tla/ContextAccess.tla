----------------------------- MODULE ContextAccess -----------------------------
(***************************************************************************)
(* Who may see what through the context server: the principal read from    *)
(* the environment, the policy filters of a search and the decision about  *)
(* a row that was read (mcp_server/authorization.py); and the catalog      *)
(* built of a manifest, which decides which relations answer for an index  *)
(* (mcp_server/catalog.py).  "" is NULL; a scalar claim is a set of one.   *)
(***************************************************************************)
EXTENDS Integers, Sequences, FiniteSets

------------------------------------------------------------------------------
(* Principals and decisions.                                                *)

\* EnvironmentPrincipalResolver: nobody without a subject, blank groups are dropped, claims are an
\* object of scalars and lists that are not empty.
ClaimsParse(claims) == \A c \in DOMAIN claims : c # "" /\ claims[c] # {}
Resolve(env) ==
    CASE env.subject = "" -> [is |-> "nobody"]
      [] env.subject # "" /\ ~ClaimsParse(env.claims) -> [is |-> "error"]
      [] OTHER -> [is |-> "principal", tenant |-> env.tenant, groups |-> env.groups \ {""},
                   claims |-> env.claims]

\* _claim_value: a claim of this name comes before the tenant and the groups.
ClaimValue(p, field) ==
    CASE field \in DOMAIN p.claims -> p.claims[field]
      [] field \notin DOMAIN p.claims /\ field \in {"tenant", "tenant_id"} -> {p.tenant} \ {""}
      [] field \notin DOMAIN p.claims /\ field \in {"access_group", "group"} -> p.groups
      [] OTHER -> {}

\* search_policy_filters: one filter for every policy attribute, or no search at all.
SearchDenied(p, access, attributes) ==
    access = "governed" /\ (\/ attributes = {}
                            \/ \E a \in attributes : a.type = "array[string]" \/ ClaimValue(p, a.name) = {})
PolicyFilters(p, access, attributes) ==
    IF access = "public" THEN {} ELSE {[field |-> a.name, values |-> ClaimValue(p, a.name)] : a \in attributes}
Passes(row, filters) == \A f \in filters : row[f.field] # "" /\ row[f.field] \in f.values

\* can_read
CanRead(p, row, attributes) ==
    /\ row["authorization_resolved"]
    /\ \/ row["is_public"]
       \/ LET claimed == {c \in DOMAIN p.claims : c \in DOMAIN row /\ row[c] # ""}
          IN  /\ row["tenant_id"] # "" => p.tenant = row["tenant_id"]
              /\ row["access_groups"] # {} => row["access_groups"] \cap p.groups # {}
              /\ \A a \in attributes : row[a.name] # "" /\ row[a.name] \in ClaimValue(p, a.name)
              /\ \A c \in claimed : row[c] \in p.claims[c]
              /\ row["tenant_id"] # "" \/ row["access_groups"] # {} \/ attributes # {} \/ claimed # {}

------------------------------------------------------------------------------
(* The catalog.  A manifest: models by unique id, each with its kind, grain, *)
(* attributes and relation, edges, and the order of execution.              *)

Predecessors(m, id) == {e[1] : e \in {e \in m.edges : e[2] = id}}

\* _reachable, over the edges or over the edges turned round.
RECURSIVE Reach(_, _, _)
Reach(edges, found, pending) ==
    IF pending = {} THEN found
    ELSE Reach(edges, found \cup pending,
               {e[2] : e \in {e \in edges : e[1] \in pending}} \ (found \cup pending))
Ancestors(m, id) == Reach({<<e[2], e[1]>> : e \in m.edges}, {}, Predecessors(m, id))
Descendants(m, id) == Reach(m.edges, {}, {e[2] : e \in {e \in m.edges : e[1] = id}})

Grain(m, id) == IF id \in DOMAIN m.models THEN m.models[id].grain ELSE "none"

\* _closest_contract_model: level by level upwards, the first name of the first level that has one;
\* 0 when there is none.
RECURSIVE Closest(_, _, _, _)
Closest(m, level, done, grain) ==
    LET matches == {x \in level : Grain(m, x) = grain}
        todo == level \ done
    IN  IF level = {} THEN 0
        ELSE IF matches # {} THEN CHOOSE x \in matches : \A y \in matches : x <= y
        ELSE Closest(m, UNION {Predecessors(m, x) : x \in todo}, done \cup todo, grain)
ClosestContractModel(m, id, grain) == Closest(m, Predecessors(m, id), {}, grain)

\* ArtifactCatalog.from_payloads: an index without a chunk relation and its registry above it is
\* not served.
Resource(m, id) ==
    LET context == ClosestContractModel(m, id, "document_chunks")
        registry == IF context = 0 THEN 0 ELSE ClosestContractModel(m, context, "document_registry")
    IN  [id |-> id, context |-> context, registry |-> registry,
         entities |-> {x \in Descendants(m, context) : Grain(m, x) = "context_entity_links"},
         policy |-> {a \in m.models[id].attributes : a.role \in {"policy", "user_and_policy"}},
         filters |-> {a \in m.models[id].attributes : a.role \in {"user", "user_and_policy"}},
         lineage |-> SelectSeq(m.order, LAMBDA x : x = id \/ x \in Ancestors(m, id))]
Resources(m) ==
    {r \in {Resource(m, id) : id \in {x \in DOMAIN m.models : m.models[x].search}} :
       r.context # 0 /\ r.registry # 0}

------------------------------------------------------------------------------
(* What the two decisions promise together.                                 *)

\* A search and a read of a document decide the same: a row of a governed index that can_read
\* grants, and that is not public, passes the filters a search of this caller would run with; and
\* a search that is not refused is filtered by something the caller was given.
SearchAgreesWithRead(env, row, access, attributes) ==
    LET p == Resolve(env) filters == PolicyFilters(p, access, attributes)
    IN  (p.is = "principal" /\ access = "governed") =>
        /\ CanRead(p, row, attributes) /\ ~row["is_public"] => Passes(row, filters)
        /\ ~SearchDenied(p, access, attributes) => filters # {} /\ \A f \in filters : f.values # {}

\* A caller who can prove nothing reads nothing that is not public, and a further group never
\* takes a row away.
ProofNeeded(env, row, attributes) ==
    LET p == Resolve(env)
    IN  p.is = "principal" =>
        /\ (p.tenant = "" /\ p.groups = {} /\ DOMAIN p.claims = {}) =>
              (CanRead(p, row, attributes) => row["is_public"])
        /\ \A g \in {"g", "h"} : CanRead(p, row, attributes) =>
              CanRead([p EXCEPT !.groups = @ \cup {g}], row, attributes)

\* The relations of an index belong together: the chunks are the nearest ones above the index, the
\* registry the nearest above the chunks, and the lineage is every node the index is built of, each
\* behind what it is built of.
Hops(m, id) == LET levels[n \in Nat] ==
                       IF n = 0 THEN {id} ELSE UNION {Predecessors(m, x) : x \in levels[n - 1]}
               IN  levels
Nearest(m, id, x) ==
    /\ x \in Ancestors(m, id)
    /\ \E n \in 1..Cardinality(DOMAIN m.models) :
          /\ x \in Hops(m, id)[n]
          /\ \A k \in 1..n : \A y \in Hops(m, id)[k] : Grain(m, y) = Grain(m, x) => k = n /\ x <= y
CatalogJoins(m) ==
    /\ \A r \in Resources(m) :
          /\ Nearest(m, r.id, r.context) /\ Grain(m, r.context) = "document_chunks"
          /\ Nearest(m, r.context, r.registry) /\ Grain(m, r.registry) = "document_registry"
          /\ \A i, j \in DOMAIN r.lineage : <<r.lineage[i], r.lineage[j]>> \in m.edges => i < j
          /\ \A e \in m.edges : (e[2] = r.id \/ \E i \in DOMAIN r.lineage : r.lineage[i] = e[2]) =>
                                 \E j \in DOMAIN r.lineage : r.lineage[j] = e[1]
    /\ \A id \in DOMAIN m.models :
          (/\ m.models[id].search
           /\ \E c \in Ancestors(m, id) : Grain(m, c) = "document_chunks"
           /\ \A c \in Ancestors(m, id) : Grain(m, c) = "document_chunks" =>
                 \E x \in Ancestors(m, c) : Grain(m, x) = "document_registry") =>
          \E r \in Resources(m) : r.id = id
==============================================================================
