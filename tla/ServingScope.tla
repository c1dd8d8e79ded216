---------------------------- MODULE ServingScope ----------------------------
(***************************************************************************)
(* What the serving coordinator promises about one search scope, whatever  *)
(* its tables and statements are: a readers-writer lock whose writer is    *)
(* the publisher, whose readers are the query leases, and which only a     *)
(* writer that finishes turns into something queries may be served from.   *)
(* An operator may dismiss the readers and reset the scope at any time.    *)
(***************************************************************************)
EXTENDS Naturals

CONSTANTS
    Writers, Readers,
    Generations   \* what a finishing writer may leave to be served, and Unavailable

NoWriter == 0
Unavailable == 0

VARIABLES
    writer,   \* the publisher that has authority, or none
    readers,  \* the queries holding a lease
    served    \* the generation queries are served from, or Unavailable

vars == <<writer, readers, served>>

Init == writer = NoWriter /\ readers = {} /\ served = Unavailable

\* A publisher is let in when nobody else is; nothing is served meanwhile.
Claim(w) ==
    /\ writer = NoWriter /\ readers = {}
    /\ writer' = w /\ served' = Unavailable
    /\ UNCHANGED readers

\* It leaves with a generation to serve, or with none.
Finish(w, generation) ==
    /\ writer = w
    /\ writer' = NoWriter /\ served' = generation
    /\ UNCHANGED readers

Admit(r) ==
    /\ writer = NoWriter /\ served # Unavailable
    /\ readers' = readers \cup {r}
    /\ UNCHANGED <<writer, served>>

Leave(r) == readers' = readers \ {r} /\ UNCHANGED <<writer, served>>

Dismiss == readers' = {} /\ UNCHANGED <<writer, served>>

Reset == writer' = NoWriter /\ served' = Unavailable /\ UNCHANGED readers

Next ==
    \/ \E w \in Writers : Claim(w) \/ \E g \in Generations : Finish(w, g)
    \/ \E r \in Readers : Admit(r) \/ Leave(r)
    \/ Dismiss \/ Reset

Spec == Init /\ [][Next]_vars

\* A publisher and a query are never inside together.
Exclusion == writer # NoWriter => readers = {}
=============================================================================
