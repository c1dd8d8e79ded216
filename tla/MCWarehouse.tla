----------------------------- MODULE MCWarehouse -----------------------------
(* Three keys of two documents, two payload columns, and one request of    *)
(* every kind, layout and policy that the two engines treat differently.   *)
EXTENDS WarehouseAdapters

MCKeys == {1, 2, 3}
MCDocOf == [k \in MCKeys |-> IF k = 3 THEN "d2" ELSE "d1"]

Frame(kind, keys, cols, value) ==
    [Request(kind) EXCEPT !.keys = keys, !.cols = cols, !.value = value]

Portable ==
    {Frame("full", {1, 3}, {"a"}, v) : v \in {1, 2}}
    \cup {Request("full"), Request("chunks"), Frame("chunks", {1}, {"a"}, 2),
            [Frame("chunks", {1}, {"a"}, 2) EXCEPT !.more = {3}, !.moreCols = {"b"}],
            Frame("sql_full", {1, 2}, {"a", "b"}, 1)}
    \cup {[Frame(kind, {1, 2}, cols, 2) EXCEPT !.policy = p, !.clean = c]
            : kind \in {"incremental", "sql_incremental"},
              cols \in {{"a"}, {"a", "b"}},
              p \in {"fail", "append_new_columns", "ignore"}, c \in BOOLEAN}
    \cup {[Frame("incremental", {1, 2}, {"a", "b"}, 1) EXCEPT !.watch = {"a"},
            !.policy = "append_new_columns"]}
    \cup {[Frame("children", keys, cols, 2) EXCEPT !.parents = {"d1"},
            !.records = {"d1"}, !.policy = "append_new_columns"]
            : keys \in {{}, {2}}, cols \in {{"b"}}}
    \cup {[Frame("delete", {1, 2}, {}, 1) EXCEPT !.records = {"d1"}]}
    \cup {[Request("scope") EXCEPT !.records = {"d2"}, !.clean = c, !.fence = f]
            : c \in BOOLEAN, f \in {0, 1}}

LaidOut ==
    {[r EXCEPT !.layout = l] :
        r \in {Frame("full", {1, 3}, {"a"}, 1), Frame("sql_full", {1}, {"a"}, 2),
               [Frame("chunks", {1}, {"a"}, 2) EXCEPT !.more = {3},
                    !.moreCols = {"b"}],
               Frame("incremental", {2}, {"a"}, 2)},
        l \in {"plain", "part", "iceberg"}}

MCAsked == [duckdb |-> Portable, bigquery |-> Portable \cup LaidOut]
==============================================================================
