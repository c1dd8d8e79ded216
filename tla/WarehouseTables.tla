--------------------------- MODULE WarehouseTables ---------------------------
(***************************************************************************)
(* The data a warehouse adapter works on, shared by the contract of        *)
(* adapters/base.py (WarehouseContract) and by the DuckDB and BigQuery     *)
(* adapters (WarehouseAdapters): one model table, the state rows of one    *)
(* scope, and the requests the execution modules make of them.             *)
(*                                                                         *)
(* A cell holds 0 for NULL or the value of the batch that wrote it.  The   *)
(* key of a row is a member of Keys and its parent document is DocOf; a    *)
(* table without columns does not exist.                                   *)
(***************************************************************************)
EXTENDS Naturals, FiniteSets, Functions

CONSTANTS
    Keys,       \* values of the key column
    DocOf,      \* the parent document of each key
    Columns,    \* columns besides the key
    Values,     \* what a batch writes into every cell it loads
    Forms       \* how a BigQuery table is stored: "plain", "part", "iceberg"

ASSUME TableAssumption ==
    /\ DOMAIN DocOf = Keys
    /\ Values \subseteq Nat \ {0}
    /\ Forms \subseteq {"plain", "part", "iceberg"}

Null == 0
Docs == {DocOf[k] : k \in Keys}
Absent == [cols |-> {}, rows |-> <<>>, form |-> "plain"]
Exists(t) == t.cols # {}

Row(cols, v) == [c \in Columns |-> IF c \in cols THEN v ELSE Null]
Table(cols, keys, v, form) ==
    [cols |-> cols, rows |-> [k \in keys |-> Row(cols, v)], form |-> form]

(* New rows over old ones.                                                 *)
Over(new, old) ==
    [k \in DOMAIN new \cup DOMAIN old |-> IF k \in DOMAIN new THEN new[k] ELSE old[k]]

(* A row written with some of the columns is NULL in the others.           *)
Padded(t, cols) == [t EXCEPT !.cols = @ \cup cols]
Without(t, keys) == [t EXCEPT !.rows = Restrict(@, DOMAIN @ \ keys)]
OfDocs(t, docs) == {k \in DOMAIN t.rows : DocOf[k] \in docs}

(* plan_schema_change: which staged columns are loaded, which are added,   *)
(* and whether the policy lets the load go on at all.                      *)
PlanSchemaChange(existing, staged, policy) ==
    LET new == staged \ existing
        removed == existing \ staged
    IN  IF new = {} /\ removed = {} THEN [ok |-> TRUE, load |-> staged, add |-> {}]
        ELSE CASE policy = "fail" -> [ok |-> FALSE, load |-> {}, add |-> {}]
               [] policy = "append_new_columns" ->
                     [ok |-> TRUE, load |-> staged, add |-> new]
               [] policy = "ignore" ->
                     [ok |-> TRUE, load |-> staged \cap existing, add |-> {}]

(* A request: the operation, the rows and columns of its frame and the     *)
(* value they carry, whether the key column is free of NULLs and           *)
(* duplicates, the columns and rows of the chunk that follows (for a       *)
(* chunked load), the schema policy, the change-detection columns, the     *)
(* parents a child replacement covers, the records of its state part, the  *)
(* declared layout and the publication claim a fenced replacement shows.   *)
Request(kind) ==
    [kind |-> kind, keys |-> {}, cols |-> {}, value |-> 1, clean |-> TRUE,
     more |-> {}, moreCols |-> {}, policy |-> "fail", watch |-> {},
     parents |-> {}, records |-> {}, layout |-> "none", fence |-> 0]

Replacing == {"full", "chunks", "sql_full"}
Merging == {"incremental", "sql_incremental", "children"}

(* The requests there are.  A frame with rows has columns beside the key;  *)
(* only a load in chunks has a second chunk, and a first one before it; a  *)
(* query selects something; a frame without rows has no key that is NULL.  *)
Shape ==
    [kind : Replacing \cup Merging \cup {"delete", "scope"}, keys : SUBSET Keys,
     cols : SUBSET Columns, value : Values, clean : BOOLEAN, more : SUBSET Keys,
     moreCols : SUBSET Columns, policy : {"fail", "append_new_columns", "ignore"},
     watch : SUBSET Columns, parents : SUBSET Docs, records : SUBSET Docs,
     layout : {"none"} \cup Forms, fence : Nat]

WellFormed(r) ==
    /\ r \in Shape
    /\ r.kind # "delete" /\ r.keys # {} => r.cols # {}
    /\ r.kind \in {"sql_full", "sql_incremental"} => r.cols # {}
    /\ r.kind = "chunks" /\ r.keys = {} => r.cols = {} /\ r.more = {}
    /\ r.kind # "chunks" => r.more = {}
    /\ r.more = {} => r.moreCols = {}
    /\ r.kind = "children" /\ r.keys = {} => r.clean

(* The layout a table gets when the request creates it.                    *)
FormOf(r) == IF r.layout = "none" THEN "plain" ELSE r.layout

(* The whole of a chunked load: the chunks are unioned by column name and  *)
(* a column a chunk lacks is NULL in its rows.                             *)
Chunk1(r) == Table(r.cols, r.keys, r.value, FormOf(r))
Chunked(r) ==
    [cols |-> r.cols \cup r.moreCols, form |-> FormOf(r),
     rows |-> Over([k \in r.more |-> Row(r.moreCols, r.value)], Chunk1(r).rows)]

(* What a replacement wants to find in place of the table: nothing, when   *)
(* the load had no chunk or its frame no column.                           *)
Whole(r) == IF r.cols = {} THEN Absent ELSE IF r.kind = "chunks" THEN Chunked(r) ELSE Chunk1(r)

(* Rows of the batch the target takes: all of them, or, under change       *)
(* detection, those it lacks and those a watched column differs in.        *)
Changed(t, r) ==
    {k \in r.keys : \/ r.watch = {}
                    \/ k \notin DOMAIN t.rows
                    \/ \E c \in r.watch : t.rows[k][c] # r.value}

Upserted(t, r, load) ==
    [t EXCEPT !.rows = Over([k \in Changed(t, r) |-> Row(load, r.value)], @)]

(* As Upserted, but a matched row keeps the columns the batch lacks.       *)
Updated(t, r, load) ==
    [t EXCEPT !.rows =
        Over([k \in r.keys |->
                 [c \in Columns |->
                     IF c \in load THEN r.value
                     ELSE IF k \in DOMAIN t.rows THEN t.rows[k][c] ELSE Null]], @)]

(* State rows of the scope: the value each document was last recorded at.  *)
NoState == [d \in Docs |-> Null]
Recorded(s, docs, v) == [d \in Docs |-> IF d \in docs THEN v ELSE s[d]]
Forgotten(s, docs) == Recorded(s, docs, Null)
==============================================================================
