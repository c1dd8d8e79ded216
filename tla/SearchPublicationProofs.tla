----------------------- MODULE SearchPublicationProofs -----------------------
(***************************************************************************)
(* Theorems about SearchPublication for any rows, values, batch sizes and  *)
(* environments: the publication state never runs ahead of the store, a    *)
(* governed row is never served with a superseded value, and what is ready *)
(* is the snapshot it was published from.                                  *)
(***************************************************************************)
EXTENDS SearchPublication, FiniteSetTheorems, TLAPS

\* The control points of a run, by the part of it they belong to.
Batching == {"verify", "create", "revoke", "upsert", "verify_record", "record"}
Looping == Batching \cup {"batch"}
Staling == {"verify_stale", "delete", "forget"}
Checked == {"validate", "confirm"}
Late == {"verify_empty", "create_empty", "index"} \cup Checked
StalePass == {"stale_open", "stale"} \cup Staling
Running == {"inspect"} \cup Looping \cup StalePass \cup Late

Stored(r) == IF store = None THEN None ELSE store[r]
\* State rows that the snapshot does not have.
Extra == Present(state) \ Present(snap)

\* What a call to the store left for the calls after it.
WriteOK ==
    /\ pc \in {"revoke", "upsert", "index"} \cup Checked => store # None
    /\ pc \in {"create", "create_empty"} => store = None
    /\ pc \in {"verify_record", "record"} =>
          store # None /\ \A r \in batch : store[r] = snap[r]
    /\ pc = "forget" => store # None /\ \A r \in batch : store[r] = None
    /\ Governed /\ pc = "upsert" => \A r \in Known : store[r] = None

\* The rows of the snapshot are read, in the current batch, or recorded; and a
\* run goes on under its claim or after a recovery, never under a ready row.
LoopOK ==
    /\ pc \in {"acquire", "inspect"} => todo = Present(snap)
    /\ pc \in Looping => todo \subseteq Present(snap)
    /\ pc \in Batching => batch \subseteq Present(snap) \ todo
    /\ pc \in Looping => \A r \in Present(snap) :
          r \in todo \/ (pc \in Batching /\ r \in batch) \/ state[r] = snap[r]
    /\ pc \in Running \cup {"failing"} => ledger \in {"publishing", "failed"}

\* While upstream waits: a run sees it as it is, the stale pass leaves its rows
\* alone, and what is stored without state is what upstream holds, and only
\* until a publication is completed.
WaitOK == UpstreamWaits =>
    /\ pc \in Running \cup {"acquire"} => snap = upstream
    /\ pc \in StalePass \cup Late => \A r \in Present(snap) : state[r] = snap[r]
    /\ pc \in {"stale"} \cup Staling => todo \cap Present(snap) = {}
    /\ pc \in Staling => batch \cap Present(snap) = {}
    /\ \A r \in Rows : state[r] = None /\ Stored(r) # None =>
          ledger \notin {"unpublished", "ready"} /\ Stored(r) = upstream[r]

\* And while nobody else removes the collection: the store holds what the state
\* says but for rows that upstream has changed since, the stale pass empties the
\* rest of the state, and what is ready was counted.
ReadyOK == UpstreamWaits /\ ~CollectionVanishes =>
    /\ store = None => state = Empty
    /\ forced /\ pc \in Looping => \A r \in todo : state[r] = None
    /\ pc \in Batching => \A r \in batch : state[r] # snap[r]
    /\ \A r \in Rows : state[r] # None =>
          \/ Stored(r) = state[r]
          \/ ledger \notin {"unpublished", "ready"} /\ state[r] # upstream[r]
    /\ pc = "stale" => Extra \subseteq todo
    /\ pc \in Staling => Extra \subseteq todo \cup batch
    /\ pc \in Late => Extra = {}
    /\ pc \in Checked => CountMatches
    /\ ledger = "ready" => store = published

PublicationInv == TypeOK /\ WriteOK /\ LoopOK /\ WaitOK /\ ReadyOK

-----------------------------------------------------------------------------
(* Types.                                                                  *)

LEMMA ContentFacts ==
  /\ Empty \in Content /\ None \notin Content
  /\ \A r \in Rows : Empty[r] = None
  /\ \A content \in Content, values \in Content : \A rows :
        /\ With(content, rows, values) \in Content
        /\ \A r \in Rows :
              With(content, rows, values)[r] = IF r \in rows THEN values[r] ELSE content[r]
BY NoneAssumption DEF Empty, Content, With

\* The environment of a behaviour stays.
LEMMA SettingStays == [Next]_vars => setting' = setting
BY DEF Next, Publish, vars, env, OpenSnapshot, Acquire, Inspect, NextBatch, VerifyBatch,
       CreateCollection, Revoke, Upsert, VerifyRecord, RecordState, OpenStalePages,
       NextStalePage, VerifyStale, DeleteStale, ForgetState, VerifyEmpty, CreateEmpty,
       EnsureIndexes, ValidateSnapshot, MarkReady, MarkFailed, Fault, Crash, Restart, Recover,
       ChangeUpstream, DropCollection, Verify, Call

LEMMA TypeInit == Init => TypeOK
<1> SUFFICES ASSUME Init PROVE TypeOK
  OBVIOUS
<1>1. setting.maxFaults \in Nat /\ MaxChanges \in Nat
  BY SettingAssumption, BoundAssumption DEF Init
<1>2. changes \in 0..MaxChanges /\ faults \in 0..MaxFaults
  BY <1>1 DEF Init, MaxFaults
<1> QED
  BY <1>2, ContentFacts DEF Init, TypeOK, Points

\* A write keeps the types.
LEMMA CallType ==
  ASSUME TypeOK, NEW point, NEW newStore \in Content \cup {None}, NEW newState \in Content,
         NEW next \in Points, Call(point, newStore, newState, next)
  PROVE  TypeOK'
<1>1. MaxFaults \in Nat /\ MaxFaults' = MaxFaults /\ setting' = setting
  BY SettingAssumption DEF TypeOK, MaxFaults, Call, env
<1>2. faults' \in 0..MaxFaults
  BY <1>1 DEF TypeOK, Call
<1>3. store' \in Content \cup {None} /\ state' \in Content
  BY DEF TypeOK, Call, tables
<1>4. pc' \in Points
  BY DEF TypeOK, Call, Points
<1> QED
  BY <1>1, <1>2, <1>3, <1>4 DEF TypeOK, Call, env, run

LEMMA TypeStep == TypeOK /\ WriteOK /\ [Next]_vars => TypeOK'
<1> SUFFICES ASSUME TypeOK, WriteOK, [Next]_vars PROVE TypeOK'
  OBVIOUS
<1>a. MaxFaults \in Nat /\ MaxChanges \in Nat
  BY SettingAssumption, BoundAssumption DEF TypeOK, MaxFaults
<1>b. Writes \subseteq Points
  BY DEF Points
<1> USE DEF env, run, tables
<1>1. CASE UNCHANGED vars
  BY <1>1 DEF vars, TypeOK, MaxFaults
<1>2. CASE OpenSnapshot \/ Acquire \/ Inspect
  BY <1>2 DEF OpenSnapshot, Acquire, Inspect, TypeOK, MaxFaults, Points, Present
<1>3. CASE NextBatch
  BY <1>3 DEF NextBatch, Pages, TypeOK, MaxFaults, Points
<1>4. ASSUME NEW point, NEW next \in Points, Verify(point, next) PROVE TypeOK'
  BY <1>4 DEF Verify, TypeOK, MaxFaults, Points
<1>5. CASE VerifyBatch \/ VerifyRecord \/ VerifyStale
  BY <1>4, <1>5 DEF VerifyBatch, VerifyRecord, VerifyStale, Mutation, Points, Writes
<1>6. CASE CreateCollection
  <2>1. Mutation \in Points /\ Empty \in Content \cup {None} /\ state \in Content
    BY ContentFacts DEF TypeOK, Mutation, Points, Writes
  <2>2. Call("create", Empty, state, Mutation)
    BY <1>6 DEF CreateCollection
  <2> QED
    BY <2>1, <2>2, CallType
<1>7. CASE CreateEmpty
  <2>1. "index" \in Points /\ Empty \in Content \cup {None} /\ state \in Content
    BY ContentFacts DEF TypeOK, Points
  <2>2. Call("create_empty", Empty, state, "index")
    BY <1>7 DEF CreateEmpty
  <2> QED
    BY <2>1, <2>2, CallType
<1>8. ASSUME store # None, NEW rows, NEW values \in Content
      PROVE  With(store, rows, values) \in Content \cup {None}
  BY <1>8, ContentFacts DEF TypeOK
<1>9. ASSUME NEW rows, NEW values \in Content PROVE With(state, rows, values) \in Content
  BY ContentFacts DEF TypeOK
<1>10. CASE Revoke
  BY <1>8, <1>10, CallType, ContentFacts DEF Revoke, Call, WriteOK, TypeOK, Points, Writes
<1>11. CASE Upsert
  BY <1>8, <1>11, CallType DEF Upsert, Call, WriteOK, TypeOK, Points
<1>12. CASE RecordState
  BY <1>9, <1>12, CallType DEF RecordState, TypeOK, Points
<1>13. CASE OpenStalePages \/ NextStalePage
  BY <1>13 DEF OpenStalePages, NextStalePage, Pages, Present, TypeOK, MaxFaults, Points
<1>14. CASE DeleteStale
  <2>1. CASE store # None /\ Call("delete", With(store, batch, Empty), state, "forget")
    <3>1. With(store, batch, Empty) \in Content \cup {None} /\ state \in Content
      BY <1>8, <2>1, ContentFacts DEF TypeOK
    <3>2. "forget" \in Points
      BY DEF Points, Writes
    <3> QED
      BY <2>1, <3>1, <3>2, CallType
  <2>2. CASE ~(store # None /\ Call("delete", With(store, batch, Empty), state, "forget"))
    BY <1>14, <2>2 DEF DeleteStale, TypeOK, MaxFaults, Points
  <2> QED
    BY <2>1, <2>2
<1>15. CASE ForgetState
  BY <1>9, <1>15, CallType, ContentFacts DEF ForgetState, TypeOK, Points
<1>16. CASE VerifyEmpty
  BY <1>4, <1>16 DEF VerifyEmpty, TypeOK, MaxFaults, Points, Writes
<1>17. CASE EnsureIndexes \/ ValidateSnapshot \/ MarkReady \/ MarkFailed
  BY <1>17 DEF EnsureIndexes, ValidateSnapshot, MarkReady, MarkFailed, TypeOK, MaxFaults, Points
<1>18. CASE Fault \/ Crash \/ Restart \/ Recover
  <2>1. CASE Fault \/ Crash
    <3>1. faults' \in 0..MaxFaults
      BY <1>a, <2>1 DEF Fault, Crash, TypeOK
    <3>2. pc' \in {"failing", "down"} /\ UNCHANGED <<env, tables, ledger, claimed, run, published>>
      BY <2>1 DEF Fault, Crash
    <3> QED
      BY <3>1, <3>2 DEF TypeOK, MaxFaults, Points
  <2>2. CASE Restart \/ Recover
    BY <2>2 DEF Restart, Recover, TypeOK, MaxFaults, Points
  <2> QED
    BY <1>18, <2>1, <2>2
<1>19. CASE ChangeUpstream \/ DropCollection
  <2>1. upstream' \in Content /\ changes' \in 0..MaxChanges
    BY <1>a, <1>19 DEF ChangeUpstream, DropCollection, TypeOK, Content
  <2> QED
    BY <1>19, <2>1 DEF ChangeUpstream, DropCollection, TypeOK, MaxFaults
<1> QED
  BY <1>1, <1>2, <1>3, <1>5, <1>6, <1>7, <1>10, <1>11, <1>12, <1>13, <1>14, <1>15, <1>16, <1>17,
     <1>18, <1>19 DEF Next, Publish
-----------------------------------------------------------------------------
(* The writes of a run, one after the other.                               *)

LEMMA WriteStep == TypeOK /\ WriteOK /\ LoopOK /\ [Next]_vars => WriteOK'
<1> SUFFICES ASSUME TypeOK, WriteOK, LoopOK, [Next]_vars PROVE WriteOK'
  OBVIOUS
<1> USE DEF WriteOK, Checked, env, run, tables, Governed, Known
<1>1. CASE UNCHANGED vars
  BY <1>1 DEF vars
<1>2. CASE OpenSnapshot \/ Acquire \/ Inspect \/ NextBatch
  BY <1>2 DEF OpenSnapshot, Acquire, Inspect, NextBatch
<1>3. CASE VerifyBatch
  BY <1>3 DEF VerifyBatch, Verify, Mutation
<1>4. CASE CreateCollection
  BY <1>4, ContentFacts DEF CreateCollection, Call, Mutation, TypeOK, Content
<1>5. CASE Revoke
  BY <1>5, ContentFacts DEF Revoke, Call, TypeOK
<1>6. CASE Upsert
  <2>1. /\ With(store, batch, snap) # None
        /\ \A r \in batch : With(store, batch, snap)[r] = snap[r]
    BY <1>6, ContentFacts DEF Upsert, Call, TypeOK
  <2> QED
    BY <1>6, <2>1 DEF Upsert, Call
<1>7. CASE VerifyRecord \/ RecordState
  BY <1>7 DEF VerifyRecord, RecordState, Verify, Call
<1>8. CASE OpenStalePages \/ NextStalePage \/ VerifyStale
  BY <1>8 DEF OpenStalePages, NextStalePage, VerifyStale, Verify
<1>9. CASE DeleteStale
  <2>1. store # None => /\ With(store, batch, Empty) # None
                        /\ \A r \in batch : With(store, batch, Empty)[r] = None
    BY ContentFacts DEF TypeOK
  <2> QED
    BY <1>9, <2>1 DEF DeleteStale, Call
<1>10. CASE ForgetState
  BY <1>10 DEF ForgetState, Call
<1>11. CASE VerifyEmpty \/ CreateEmpty
  BY <1>11, ContentFacts DEF VerifyEmpty, CreateEmpty, Verify, Call
<1>12. CASE EnsureIndexes \/ ValidateSnapshot \/ MarkReady \/ MarkFailed
  BY <1>12 DEF EnsureIndexes, ValidateSnapshot, MarkReady, MarkFailed
<1>13. CASE Fault \/ Crash \/ Restart \/ Recover
  BY <1>13 DEF Fault, Crash, Restart, Recover
<1>14. CASE ChangeUpstream
  BY <1>14 DEF ChangeUpstream
<1>15. CASE DropCollection
  BY <1>15 DEF DropCollection, Settled
<1> QED
  BY <1>1, <1>2, <1>3, <1>4, <1>5, <1>6, <1>7, <1>8, <1>9, <1>10, <1>11, <1>12, <1>13, <1>14,
     <1>15 DEF Next, Publish

LEMMA LoopStep == TypeOK /\ WriteOK /\ LoopOK /\ [Next]_vars => LoopOK'
<1> SUFFICES ASSUME TypeOK, WriteOK, LoopOK, [Next]_vars PROVE LoopOK'
  OBVIOUS
<1> USE DEF LoopOK, Batching, Looping, Staling, Checked, Late, StalePass, Running, env, run,
            tables, Present
<1>1. CASE UNCHANGED vars
  BY <1>1 DEF vars
<1>2. CASE OpenSnapshot \/ Acquire \/ Inspect
  BY <1>2 DEF OpenSnapshot, Acquire, Inspect
<1>3. CASE NextBatch
  <2>1. CASE todo = {}
    BY <1>3, <2>1 DEF NextBatch
  <2>2. CASE todo # {}
    <3>1. PICK rows \in Pages :
            /\ todo' = todo \ rows /\ batch' = {r \in rows : Pending(r)}
            /\ pc' = IF batch' = {} THEN "batch" ELSE "verify"
      BY <1>3, <2>2 DEF NextBatch
    <3>2. rows \subseteq todo
      BY DEF Pages
    <3>3. pc = "batch" /\ UNCHANGED <<state, snap, ledger>>
      BY <1>3 DEF NextBatch
    <3>4. \A r \in rows : r \in batch' \/ state[r] = snap[r]
      BY <3>1 DEF Pending
    <3> QED
      BY <3>1, <3>2, <3>3, <3>4
  <2> QED
    BY <2>1, <2>2
<1>4. CASE VerifyBatch
  BY <1>4 DEF VerifyBatch, Verify, Mutation
<1>5. CASE CreateCollection \/ Revoke \/ Upsert \/ VerifyRecord
  BY <1>5 DEF CreateCollection, Revoke, Upsert, VerifyRecord, Verify, Call, Mutation
<1>6. CASE RecordState
  <2>1. \A r \in Rows : With(state, batch, snap)[r] = IF r \in batch THEN snap[r] ELSE state[r]
    BY ContentFacts DEF TypeOK
  <2> QED
    BY <1>6, <2>1 DEF RecordState, Call
<1>7. CASE OpenStalePages \/ NextStalePage \/ VerifyStale \/ DeleteStale \/ ForgetState
  BY <1>7 DEF OpenStalePages, NextStalePage, VerifyStale, DeleteStale, ForgetState, Verify, Call
<1>8. CASE VerifyEmpty \/ CreateEmpty \/ EnsureIndexes \/ ValidateSnapshot \/ MarkReady \/ MarkFailed
  BY <1>8 DEF VerifyEmpty, CreateEmpty, EnsureIndexes, ValidateSnapshot, MarkReady, MarkFailed,
              Verify, Call
<1>9. CASE Fault \/ Crash \/ Restart \/ Recover
  BY <1>9 DEF Fault, Crash, Restart, Recover, Writes, TypeOK, Points
<1>10. CASE ChangeUpstream \/ DropCollection
  BY <1>10 DEF ChangeUpstream, DropCollection, Settled
<1> QED
  BY <1>1, <1>2, <1>3, <1>4, <1>5, <1>6, <1>7, <1>8, <1>9, <1>10 DEF Next, Publish
-----------------------------------------------------------------------------
(* A patient upstream.                                                     *)

\* What is stored without state, and what the state says, of one row.
Ghost(r) == state[r] = None /\ Stored(r) # None
NoGhost(r) == Ghost(r) => ledger \notin {"unpublished", "ready"} /\ Stored(r) = upstream[r]

\* Present of a content, and the store with rows replaced, row by row.
LEMMA WithStored ==
  ASSUME TypeOK, store # None, NEW rows, NEW values \in Content, NEW r \in Rows
  PROVE  /\ With(store, rows, values) # None
         /\ With(store, rows, values)[r] = IF r \in rows THEN values[r] ELSE Stored(r)
BY ContentFacts DEF TypeOK, Stored

LEMMA WithState ==
  ASSUME TypeOK, NEW rows, NEW values \in Content, NEW r \in Rows
  PROVE  With(state, rows, values)[r] = IF r \in rows THEN values[r] ELSE state[r]
BY ContentFacts DEF TypeOK

\* Upstream changes, and the collection vanishes, between settled runs only.
LEMMA UpstreamStays ==
  ASSUME UpstreamWaits, [Next]_vars
  PROVE  \/ upstream' = upstream
         \/ Settled /\ UNCHANGED <<setting, tables, ledger, claimed, pc, run, published>>
BY DEF Next, Publish, vars, env, OpenSnapshot, Acquire, Inspect, NextBatch, VerifyBatch,
       CreateCollection, Revoke, Upsert, VerifyRecord, RecordState, OpenStalePages,
       NextStalePage, VerifyStale, DeleteStale, ForgetState, VerifyEmpty, CreateEmpty,
       EnsureIndexes, ValidateSnapshot, MarkReady, MarkFailed, Fault, Crash, Restart, Recover,
       ChangeUpstream, DropCollection, Verify, Call

\* The rows of the snapshot keep the state that the loop gave them.
SnapOK ==
    /\ pc \in Running \cup {"acquire"} => snap = upstream
    /\ pc \in StalePass \cup Late => \A r \in Present(snap) : state[r] = snap[r]
    /\ pc \in {"stale"} \cup Staling => todo \cap Present(snap) = {}
    /\ pc \in Staling => batch \cap Present(snap) = {}

LEMMA SnapStep ==
  ASSUME TypeOK, WriteOK, LoopOK, UpstreamWaits, SnapOK, [Next]_vars
  PROVE  SnapOK'
<1> USE DEF SnapOK, Batching, Looping, Staling, Checked, Late, StalePass, Running, env, run,
            tables, Present
<1>1. CASE UNCHANGED vars
  BY <1>1 DEF vars
<1>2. CASE OpenSnapshot \/ Acquire \/ Inspect
  BY <1>2 DEF OpenSnapshot, Acquire, Inspect
<1>3. CASE NextBatch
  <2>1. todo = {} => \A r \in Present(snap) : state[r] = snap[r]
    BY <1>3 DEF NextBatch, LoopOK
  <2> QED
    BY <1>3, <2>1 DEF NextBatch
<1>4. CASE VerifyBatch
  BY <1>4 DEF VerifyBatch, Verify, Mutation
<1>5. CASE CreateCollection \/ Revoke \/ Upsert \/ VerifyRecord \/ RecordState
  BY <1>5 DEF CreateCollection, Revoke, Upsert, VerifyRecord, RecordState, Verify, Call, Mutation
<1>6. CASE OpenStalePages
  BY <1>6 DEF OpenStalePages
<1>7. CASE NextStalePage
  BY <1>7 DEF NextStalePage, Pages
<1>8. CASE VerifyStale \/ DeleteStale
  BY <1>8 DEF VerifyStale, DeleteStale, Verify, Call
<1>9. CASE ForgetState
  <2>1. \A r \in Present(snap) : With(state, batch, Empty)[r] = state[r]
    BY <1>9, WithState, ContentFacts DEF ForgetState, Call
  <2> QED
    BY <1>9, <2>1 DEF ForgetState, Call
<1>10. CASE VerifyEmpty \/ CreateEmpty \/ EnsureIndexes \/ ValidateSnapshot \/ MarkReady \/ MarkFailed
  BY <1>10 DEF VerifyEmpty, CreateEmpty, EnsureIndexes, ValidateSnapshot, MarkReady, MarkFailed,
               Verify, Call
<1>11. CASE Fault \/ Crash \/ Restart \/ Recover
  BY <1>11 DEF Fault, Crash, Restart, Recover
<1>12. CASE ChangeUpstream \/ DropCollection
  BY <1>12 DEF ChangeUpstream, DropCollection, Settled
<1> QED
  BY <1>1, <1>2, <1>3, <1>4, <1>5, <1>6, <1>7, <1>8, <1>9, <1>10, <1>11, <1>12 DEF Next, Publish
\* Only the completion of a publication makes a ledger row ready.
LEMMA LedgerChange ==
  ASSUME [Next]_vars, ledger' # ledger
  PROVE  MarkReady \/ ledger' \in {"publishing", "failed"}
BY DEF Next, Publish, vars, env, OpenSnapshot, Acquire, Inspect, NextBatch, VerifyBatch,
       CreateCollection, Revoke, Upsert, VerifyRecord, RecordState, OpenStalePages,
       NextStalePage, VerifyStale, DeleteStale, ForgetState, VerifyEmpty, CreateEmpty,
       EnsureIndexes, ValidateSnapshot, MarkReady, MarkFailed, Fault, Crash, Restart, Recover,
       ChangeUpstream, DropCollection, Verify, Call

Creates == CreateCollection \/ CreateEmpty
StoreCall == Creates \/ Revoke \/ Upsert \/ RecordState \/ DeleteStale \/ ForgetState

\* The collection and the state change by the calls of a run, or the collection
\* vanishes.
LEMMA TablesChange ==
  ASSUME [Next]_vars, ~StoreCall, ~DropCollection
  PROVE  UNCHANGED tables
BY DEF Next, Publish, vars, env, tables, OpenSnapshot, Acquire, Inspect, NextBatch, VerifyBatch,
       StoreCall, Creates, VerifyRecord, OpenStalePages, NextStalePage, VerifyStale,
       VerifyEmpty, EnsureIndexes, ValidateSnapshot, MarkReady, MarkFailed, Fault, Crash,
       Restart, Recover, ChangeUpstream, Verify

\* A call leaves the ledger and the run alone, and fails or goes on.
LEMMA StoreCallFacts ==
  ASSUME WriteOK, LoopOK, StoreCall
  PROVE  /\ UNCHANGED <<env, ledger, claimed, run, published>>
         /\ pc \in Running /\ ledger \in {"publishing", "failed"}
BY DEF StoreCall, Creates, CreateCollection, CreateEmpty, Revoke, Upsert, RecordState, DeleteStale,
       ForgetState, Call, LoopOK, Running, Looping, Batching, StalePass, Staling, Late, run, env

\* The one row of a table that a call changes, or not.
LEMMA CallEffect ==
  ASSUME TypeOK, WriteOK, StoreCall, NEW r \in Rows
  PROVE  \/ Stored(r)' = Stored(r) /\ state'[r] = state[r]
         \/ Creates /\ store' = Empty /\ state' = state /\ Stored(r)' = None
         \/ Revoke /\ r \in Known /\ Stored(r)' = None /\ state'[r] = state[r]
         \/ Upsert /\ r \in batch /\ Stored(r)' = snap[r] /\ state'[r] = state[r]
         \/ RecordState /\ r \in batch /\ Stored(r)' = Stored(r) /\ state'[r] = snap[r]
         \/ DeleteStale /\ r \in batch /\ Stored(r)' = None /\ state'[r] = state[r]
         \/ ForgetState /\ r \in batch /\ Stored(r)' = Stored(r) /\ state'[r] = None
<1> USE DEF tables, Stored
<1>0. snap \in Content /\ Empty \in Content /\ Empty[r] = None /\ None # Empty
  BY ContentFacts DEF TypeOK
<1>1. CASE Creates
  BY <1>0, <1>1 DEF Creates, CreateCollection, CreateEmpty, Call
<1>2. CASE Revoke
  BY <1>0, <1>2, WithStored DEF Revoke, Call, WriteOK
<1>3. CASE Upsert
  BY <1>0, <1>3, WithStored DEF Upsert, Call, WriteOK
<1>4. CASE RecordState
  BY <1>0, <1>4, WithState DEF RecordState, Call
<1>5. CASE DeleteStale
  BY <1>0, <1>5, WithStored DEF DeleteStale, Call
<1>6. CASE ForgetState
  BY <1>0, <1>6, WithState DEF ForgetState, Call
<1> QED
  BY <1>1, <1>2, <1>3, <1>4, <1>5, <1>6 DEF StoreCall

LEMMA GhostStep ==
  ASSUME TypeOK, WriteOK, LoopOK, UpstreamWaits, SnapOK, [Next]_vars,
         NEW r \in Rows, NoGhost(r)
  PROVE  NoGhost(r)'
<1> USE DEF NoGhost, Ghost, Stored, tables
<1>1. CASE upstream' # upstream
  BY <1>1, UpstreamStays DEF Settled
<1>2. CASE upstream' = upstream /\ StoreCall
  <2>1. ledger' = ledger /\ ledger \notin {"unpublished", "ready"} /\ pc \in Running
    BY <1>2, StoreCallFacts
  <2>2. snap[r] = upstream[r]
    BY <2>1 DEF SnapOK
  <2>3. pc = "forget" => \A q \in batch : Stored(q) = None
    BY DEF WriteOK
  <2>4. Upsert /\ r \in batch => snap[r] # None
    BY DEF LoopOK, Looping, Batching, Upsert, Call, Present
  <2>5. ForgetState => pc = "forget"
    BY DEF ForgetState, Call
  <2>6. RecordState /\ r \in batch => snap[r] # None
    BY DEF LoopOK, Looping, Batching, RecordState, Call, Present
  <2> HIDE DEF Stored
  <2> QED
    BY <1>2, <2>1, <2>2, <2>3, <2>4, <2>5, <2>6, CallEffect
<1>3. CASE upstream' = upstream /\ DropCollection
  BY <1>3 DEF DropCollection
<1>4. CASE upstream' = upstream /\ ~StoreCall /\ ~DropCollection
  <2>1. UNCHANGED tables
    BY <1>4, TablesChange
  <2>2. CASE MarkReady
    <3>1. snap = upstream /\ \A q \in Present(snap) : state[q] = snap[q]
      BY <2>2 DEF MarkReady, SnapOK, Running, Late, Checked
    <3> QED
      BY <2>1, <3>1 DEF Present
  <2>3. CASE ledger' = ledger
    BY <1>4, <2>1, <2>3
  <2> QED
    BY <1>4, <2>1, <2>2, <2>3, LedgerChange
<1> QED
  BY <1>1, <1>2, <1>3, <1>4

LEMMA WaitStep == TypeOK /\ WriteOK /\ LoopOK /\ WaitOK /\ [Next]_vars => WaitOK'
<1> SUFFICES ASSUME TypeOK, WriteOK, LoopOK, WaitOK, [Next]_vars, UpstreamWaits' PROVE WaitOK'
  BY DEF WaitOK
<1>1. setting' = setting /\ UpstreamWaits
  BY SettingStays DEF UpstreamWaits
<1>2. SnapOK /\ \A r \in Rows : NoGhost(r)
  BY <1>1 DEF WaitOK, SnapOK, NoGhost, Ghost
<1>3. SnapOK' /\ \A r \in Rows : NoGhost(r)'
  BY <1>1, <1>2, SnapStep, GhostStep
<1> QED
  BY <1>3 DEF WaitOK, SnapOK, NoGhost, Ghost
-----------------------------------------------------------------------------
(* A ready index.                                                          *)

\* A call that changes a table leaves a collection.
LEMMA CallStores ==
  ASSUME TypeOK, WriteOK, StoreCall
  PROVE  store' # None \/ UNCHANGED tables
<1>0. /\ Empty # None /\ Empty \in Content /\ snap \in Content
      /\ \A rows, values : store # None /\ values \in Content => With(store, rows, values) # None
  BY ContentFacts DEF TypeOK
<1>1. CASE Creates
  BY <1>0, <1>1 DEF Creates, CreateCollection, CreateEmpty, Call, tables
<1>2. CASE Revoke \/ Upsert
  BY <1>0, <1>2 DEF Revoke, Upsert, Call, WriteOK, tables
<1>3. CASE RecordState \/ ForgetState
  BY <1>3 DEF RecordState, ForgetState, Call, WriteOK, tables
<1>4. CASE DeleteStale
  BY <1>0, <1>4 DEF DeleteStale, Call, tables
<1> QED
  BY <1>1, <1>2, <1>3, <1>4 DEF StoreCall

NoStoreNoState == store = None => state = Empty

LEMMA NoStateStep ==
  ASSUME TypeOK, WriteOK, ~CollectionVanishes, NoStoreNoState, [Next]_vars
  PROVE  NoStoreNoState'
BY CallStores, TablesChange DEF NoStoreNoState, DropCollection, tables, Empty

\* Rows that are still to be read have no state in a forced run, and the rows of
\* a batch are those that the state does not prove unchanged.
PendingOK ==
    /\ forced /\ pc \in Looping => \A r \in todo : state[r] = None
    /\ pc \in Batching => \A r \in batch : state[r] # snap[r]

LEMMA PendingStep ==
  ASSUME TypeOK, LoopOK, NoStoreNoState, PendingOK, [Next]_vars
  PROVE  PendingOK'
<1> USE DEF PendingOK, Looping, Batching, env, run, tables
<1>1. CASE UNCHANGED vars
  BY <1>1 DEF vars
<1>2. CASE OpenSnapshot \/ Acquire
  BY <1>2 DEF OpenSnapshot, Acquire
<1>3. CASE Inspect
  <2>1. todo \subseteq Rows /\ \A r \in Rows : Empty[r] = None
    BY ContentFacts DEF TypeOK
  <2> QED
    BY <1>3, <2>1 DEF Inspect, NoStoreNoState
<1>4. CASE NextBatch
  <2>1. CASE todo = {}
    BY <1>4, <2>1 DEF NextBatch
  <2>2. CASE todo # {}
    <3>1. PICK rows \in Pages :
            /\ todo' = todo \ rows /\ batch' = {r \in rows : Pending(r)}
            /\ pc' = IF batch' = {} THEN "batch" ELSE "verify"
      BY <1>4, <2>2 DEF NextBatch
    <3>2. rows \subseteq todo /\ \A r \in todo : snap[r] # None
      BY <1>4 DEF Pages, NextBatch, LoopOK, Present
    <3>3. \A r \in batch' : state[r] # snap[r]
      BY <1>4, <3>1, <3>2 DEF Pending, NextBatch
    <3> QED
      BY <1>4, <3>1, <3>2, <3>3 DEF NextBatch
  <2> QED
    BY <2>1, <2>2
<1>5. CASE VerifyBatch \/ CreateCollection \/ Revoke \/ Upsert \/ VerifyRecord
  BY <1>5 DEF VerifyBatch, CreateCollection, Revoke, Upsert, VerifyRecord, Verify, Call, Mutation
<1>6. CASE RecordState
  <2>1. \A r \in todo : With(state, batch, snap)[r] = state[r]
    BY <1>6, WithState DEF RecordState, Call, LoopOK, TypeOK
  <2> QED
    BY <1>6, <2>1 DEF RecordState, Call
<1>7. CASE OpenStalePages \/ NextStalePage \/ VerifyStale \/ DeleteStale \/ ForgetState
  BY <1>7 DEF OpenStalePages, NextStalePage, VerifyStale, DeleteStale, ForgetState, Verify, Call
<1>8. CASE VerifyEmpty \/ CreateEmpty \/ EnsureIndexes \/ ValidateSnapshot \/ MarkReady \/ MarkFailed
  BY <1>8 DEF VerifyEmpty, CreateEmpty, EnsureIndexes, ValidateSnapshot, MarkReady, MarkFailed,
              Verify, Call
<1>9. CASE Fault \/ Crash \/ Restart \/ Recover
  BY <1>9 DEF Fault, Crash, Restart, Recover
<1>10. CASE ChangeUpstream \/ DropCollection
  BY <1>10 DEF ChangeUpstream, DropCollection, Settled
<1> QED
  BY <1>1, <1>2, <1>3, <1>4, <1>5, <1>6, <1>7, <1>8, <1>9, <1>10 DEF Next, Publish

\* The stale pass empties the state of what the snapshot does not have, and
\* what is validated was counted.
StaleOK ==
    /\ pc = "stale" => Extra \subseteq todo
    /\ pc \in Staling => Extra \subseteq todo \cup batch
    /\ pc \in Late => Extra = {}
    /\ pc \in Checked => CountMatches

LEMMA StaleStep ==
  ASSUME TypeOK, WriteOK, UpstreamWaits, SnapOK, StaleOK, [Next]_vars
  PROVE  StaleOK'
<1> USE DEF StaleOK, Staling, Late, Checked, Extra, CountMatches, env, run, tables
<1>1. CASE UNCHANGED vars
  BY <1>1 DEF vars, Present
<1>2. CASE OpenSnapshot \/ Acquire \/ Inspect \/ NextBatch
  BY <1>2 DEF OpenSnapshot, Acquire, Inspect, NextBatch
<1>3. CASE VerifyBatch \/ CreateCollection \/ Revoke \/ Upsert \/ VerifyRecord \/ RecordState
  BY <1>3 DEF VerifyBatch, CreateCollection, Revoke, Upsert, VerifyRecord, RecordState, Verify,
              Call, Mutation
<1>4. CASE OpenStalePages
  BY <1>4 DEF OpenStalePages, SnapOK, Running, StalePass, Present
<1>5. CASE NextStalePage
  <2>1. Extra' = Extra
    BY <1>5 DEF NextStalePage, Present
  <2> QED
    BY <1>5, <2>1 DEF NextStalePage, Pages
<1>6. CASE VerifyStale \/ DeleteStale
  <2>1. Extra' = Extra
    BY <1>6 DEF VerifyStale, DeleteStale, Verify, Call, Present
  <2> QED
    BY <1>6, <2>1 DEF VerifyStale, DeleteStale, Verify, Call
<1>7. CASE ForgetState
  <2>1. CASE pc' = "stale"
    <3>1. state' = With(state, batch, Empty) /\ snap' = snap /\ todo' = todo /\ pc = "forget"
      BY <1>7, <2>1 DEF ForgetState, Call
    <3>2. \A r \in Rows : state'[r] = IF r \in batch THEN None ELSE state[r]
      BY <3>1, ContentFacts, WithState
    <3> QED
      BY <2>1, <3>1, <3>2 DEF Present
  <2> QED
    BY <1>7, <2>1 DEF ForgetState, Call
<1>8. CASE VerifyEmpty \/ CreateEmpty \/ EnsureIndexes \/ ValidateSnapshot \/ MarkReady \/ MarkFailed
  <2>1. Extra' = Extra
    BY <1>8 DEF VerifyEmpty, CreateEmpty, EnsureIndexes, ValidateSnapshot, MarkReady, MarkFailed,
              Verify, Call, Present
  <2> QED
    BY <1>8, <2>1 DEF VerifyEmpty, CreateEmpty, EnsureIndexes, ValidateSnapshot, MarkReady,
              MarkFailed, Verify, Call, Present
<1>9. CASE Fault \/ Crash \/ Restart \/ Recover
  BY <1>9 DEF Fault, Crash, Restart, Recover, Present
<1>10. CASE ChangeUpstream \/ DropCollection
  BY <1>10 DEF ChangeUpstream, DropCollection, Settled
<1> QED
  BY <1>1, <1>2, <1>3, <1>4, <1>5, <1>6, <1>7, <1>8, <1>9, <1>10 DEF Next, Publish
\* The store holds what the state says of a row, or upstream holds something
\* else, and no publication was completed since.
Agrees(r) ==
    state[r] # None =>
        \/ Stored(r) = state[r]
        \/ ledger \notin {"unpublished", "ready"} /\ state[r] # upstream[r]

LEMMA AgreeStep ==
  ASSUME TypeOK, WriteOK, LoopOK, UpstreamWaits, ~CollectionVanishes, SnapOK, NoStoreNoState,
         PendingOK, StaleOK, [Next]_vars, NEW r \in Rows, Agrees(r)
  PROVE  Agrees(r)'
<1> USE DEF Agrees, tables
<1>1. CASE upstream' # upstream
  <2>1. Settled /\ UNCHANGED <<tables, ledger>>
    BY <1>1, UpstreamStays
  <2> QED
    BY <2>1 DEF Settled, Stored
<1>2. CASE upstream' = upstream /\ StoreCall
  <2>1. ledger' = ledger /\ ledger \notin {"unpublished", "ready"} /\ pc \in Running
    BY <1>2, StoreCallFacts
  <2>2. snap[r] = upstream[r]
    BY <2>1 DEF SnapOK
  <2>3. Creates => state[r] = None
    BY ContentFacts DEF NoStoreNoState, Creates, CreateCollection, CreateEmpty, Call, WriteOK
  <2>4. (Revoke /\ r \in Known) \/ (Upsert /\ r \in batch) => state[r] # snap[r]
    BY DEF Revoke, Upsert, Call, Known, PendingOK, Batching
  <2>5. RecordState /\ r \in batch => Stored(r) = snap[r]
    BY DEF RecordState, Call, WriteOK, Stored
  <2>6. DeleteStale /\ r \in batch => snap[r] = None
    BY DEF DeleteStale, Call, SnapOK, Staling, Present
  <2>7. CASE Stored(r)' = Stored(r) /\ state'[r] = state[r]
    BY <1>2, <2>1, <2>7
  <2>8. CASE ~(Stored(r)' = Stored(r) /\ state'[r] = state[r])
    <3>1. \/ state'[r] = None
          \/ state'[r] = Stored(r)'
          \/ state'[r] # snap[r]
      <4>1. CASE Creates /\ state' = state
        BY <2>3, <4>1
      <4>2. CASE Revoke /\ r \in Known /\ state'[r] = state[r]
        BY <2>4, <4>2
      <4>3. CASE Upsert /\ r \in batch /\ state'[r] = state[r]
        BY <2>4, <4>3
      <4>4. CASE RecordState /\ r \in batch /\ Stored(r)' = Stored(r) /\ state'[r] = snap[r]
        BY <2>5, <4>4
      <4>5. CASE DeleteStale /\ r \in batch /\ state'[r] = state[r]
        BY <2>6, <4>5
      <4>6. CASE ForgetState /\ state'[r] = None
        BY <4>6
      <4> QED
        BY <1>2, <2>8, <4>1, <4>2, <4>3, <4>4, <4>5, <4>6, CallEffect
    <3> QED
      BY <1>2, <2>1, <2>2, <3>1
  <2> QED
    BY <2>7, <2>8
<1>3. CASE upstream' = upstream /\ ~StoreCall
  <2>1. UNCHANGED tables
    BY <1>3, TablesChange DEF DropCollection
  <2>2. CASE MarkReady
    <3>1. /\ snap = upstream /\ \A q \in Present(snap) : state[q] = snap[q]
          /\ Extra = {}
      BY <2>2 DEF MarkReady, SnapOK, StaleOK, Running, Late, Checked
    <3>2. state[r] # None => state[r] = upstream[r]
      BY <3>1 DEF Extra, Present
    <3> QED
      BY <2>1, <3>2 DEF Stored
  <2>3. CASE ledger' = ledger
    BY <1>3, <2>1, <2>3 DEF Stored
  <2> QED
    BY <1>3, <2>1, <2>2, <2>3, LedgerChange DEF Stored
<1> QED
  BY <1>1, <1>2, <1>3

\* What is counted and agrees row by row is the snapshot.
LEMMA CountedIsSnapshot ==
  ASSUME TypeOK, store # None, CountMatches,
         \A r \in Rows : snap[r] # None => store[r] = snap[r]
  PROVE  store = snap
<1>1. store \in Content /\ snap \in Content
  BY DEF TypeOK
<1>2. Present(snap) \subseteq Present(store)
  BY DEF Present
<1>3. IsFiniteSet(Present(store))
  BY RowsAssumption, FS_Subset DEF Present
<1>4. Present(snap) = Present(store)
  BY <1>2, <1>3, FS_Subset DEF CountMatches
<1>5. \A r \in Rows : store[r] = snap[r]
  BY <1>4 DEF Present
<1> QED
  BY <1>1, <1>5 DEF Content

Published == ledger = "ready" => store = published

LEMMA PublishedStep ==
  ASSUME TypeOK, WriteOK, LoopOK, UpstreamWaits, ~CollectionVanishes, SnapOK, StaleOK,
         \A r \in Rows : Agrees(r), Published, [Next]_vars
  PROVE  Published'
<1> USE DEF Published, tables
<1>1. CASE MarkReady
  <2>1. /\ pc = "confirm" /\ UNCHANGED tables
        /\ ledger' = "ready" => published' = snap
    BY <1>1, LoopOK DEF MarkReady, LoopOK, Running, Late, Checked
  <2>2. /\ store # None /\ CountMatches /\ snap = upstream
        /\ \A r \in Present(snap) : state[r] = snap[r]
    BY <2>1 DEF WriteOK, StaleOK, SnapOK, Running, Late, Checked
  <2>3. \A r \in Rows : snap[r] # None => store[r] = snap[r]
    BY <2>2 DEF Agrees, Stored, Present
  <2> QED
    BY <2>1, <2>2, <2>3, CountedIsSnapshot
<1>2. CASE ~MarkReady /\ StoreCall
  BY <1>2, StoreCallFacts
<1>3. CASE ~MarkReady /\ ~StoreCall
  <2>1. UNCHANGED tables
    BY <1>3, TablesChange DEF DropCollection
  <2>2. published' = published
    BY <1>3 DEF Next, Publish, vars, env, run, OpenSnapshot, Acquire, Inspect, NextBatch,
       VerifyBatch, VerifyRecord, OpenStalePages, NextStalePage, VerifyStale, StoreCall, Creates,
       VerifyEmpty, EnsureIndexes, ValidateSnapshot, MarkFailed, Fault, Crash, Restart, Recover,
       ChangeUpstream, DropCollection, Verify
  <2> QED
    BY <1>3, <2>1, <2>2, LedgerChange
<1> QED
  BY <1>1, <1>2, <1>3

LEMMA ReadyStep == PublicationInv /\ [Next]_vars => ReadyOK'
<1> SUFFICES ASSUME PublicationInv, [Next]_vars, UpstreamWaits', ~CollectionVanishes'
             PROVE  ReadyOK'
  BY DEF ReadyOK
<1>1. UpstreamWaits /\ ~CollectionVanishes /\ TypeOK /\ WriteOK /\ LoopOK
  BY SettingStays DEF UpstreamWaits, CollectionVanishes, PublicationInv
<1>2. /\ SnapOK /\ NoStoreNoState /\ PendingOK /\ StaleOK /\ Published
      /\ \A r \in Rows : Agrees(r)
  BY <1>1 DEF PublicationInv, WaitOK, SnapOK, ReadyOK, NoStoreNoState, PendingOK, StaleOK,
              Published, Agrees
<1>3. NoStoreNoState' /\ PendingOK' /\ StaleOK' /\ Published' /\ \A r \in Rows : Agrees(r)'
  BY <1>1, <1>2, NoStateStep, PendingStep, StaleStep, PublishedStep, AgreeStep
<1> QED
  BY <1>3 DEF ReadyOK, NoStoreNoState, PendingOK, StaleOK, Published, Agrees

-----------------------------------------------------------------------------
(* The theorems.                                                           *)

LEMMA PublicationInit == Init => PublicationInv
<1> SUFFICES ASSUME Init PROVE PublicationInv
  OBVIOUS
<1>1. TypeOK /\ \A r \in Rows : state[r] = None /\ Stored(r) = None
  BY TypeInit, ContentFacts DEF Init, Stored
<1> QED
  BY <1>1 DEF Init, PublicationInv, WriteOK, LoopOK, WaitOK, ReadyOK, Batching, Looping, Staling,
              Checked, Late, StalePass, Running

LEMMA PublicationStep == PublicationInv /\ [Next]_vars => PublicationInv'
BY TypeStep, WriteStep, LoopStep, WaitStep, ReadyStep DEF PublicationInv

\* TypeOK: the tables, the ledger row and the variables of run_search_model keep
\* their types; a write never meets a collection that is not there.
THEOREM PublicationTypeCorrect == Spec => []TypeOK
<1>1. PublicationInv => TypeOK
  BY DEF PublicationInv
<1> QED
  BY PublicationInit, PublicationStep, <1>1, PTL DEF Spec

\* ReadyIsSnapshot: whatever failed, died or was recovered before, a ready row
\* names a store that holds the snapshot of upstream it was published from, row
\* by row (execution/search.py).
THEOREM ReadyIsPublished == Spec => []ReadyIsSnapshot
<1>1. PublicationInv => ReadyIsSnapshot
  BY DEF PublicationInv, ReadyOK, ReadyIsSnapshot
<1> QED
  BY PublicationInit, PublicationStep, <1>1, PTL DEF Spec

\* StateFollowsStore: "advance state per batch, only for receipt-acknowledged
\* rows"; what a step records was stored, in every environment
\* (execution/search.py).
THEOREM StateNeverAheadOfStore == Spec => StateFollowsStore
<1> DEFINE Step == \A r \in Rows : state'[r] \notin {None, state[r]} =>
                      store # None /\ store[r] = state'[r]
<1>1. PublicationInv /\ [Next]_vars => [Step]_vars
  <2> SUFFICES ASSUME PublicationInv, [Next]_vars, NEW r \in Rows,
                      state'[r] \notin {None, state[r]}
               PROVE  store # None /\ store[r] = state'[r]
    OBVIOUS
  <2>1. TypeOK /\ WriteOK /\ StoreCall
    BY TablesChange DEF PublicationInv, tables, DropCollection
  <2> QED
    BY <2>1, CallEffect DEF RecordState, Call, WriteOK
<1> QED
  BY PublicationInit, PublicationStep, <1>1, PTL DEF Spec, StateFollowsStore

\* GovernedRevoked: "a failed publish leaves the old, possibly more permissive
\* row absent, not queryable"; once the upsert of a governed batch was begun, the
\* store holds none of its rows with another value than the new one
\* (execution/search.py).
THEOREM GovernedRowsRevoked == Spec => GovernedRevoked
<1> DEFINE Step == Governed /\ UpstreamWaits /\ pc = "upsert" /\ pc' # "upsert" =>
                      \A r \in batch : store'[r] \in {None, snap[r]}
<1>1. PublicationInv /\ [Next]_vars => [Step]_vars
  <2> SUFFICES ASSUME PublicationInv, [Next]_vars, Governed, UpstreamWaits,
                      pc = "upsert", pc' # "upsert", NEW r \in batch
               PROVE  store'[r] \in {None, snap[r]}
    OBVIOUS
  <2>1. /\ TypeOK /\ WriteOK /\ LoopOK /\ r \in Rows /\ snap = upstream
        /\ store # None
    BY DEF PublicationInv, WaitOK, Running, Looping, Batching, TypeOK, WriteOK
  <2>2. Upsert
    BY DEF Next, Publish, vars, OpenSnapshot, Acquire, Inspect, NextBatch, VerifyBatch,
           CreateCollection, Revoke, VerifyRecord, RecordState, OpenStalePages, NextStalePage,
           VerifyStale, DeleteStale, ForgetState, VerifyEmpty, CreateEmpty, EnsureIndexes,
           ValidateSnapshot, MarkReady, MarkFailed, Fault, Crash, Restart, Recover,
           ChangeUpstream, DropCollection, Verify, Call, Writes
  <2>3. store[r] \in {None, snap[r]}
    <3>1. CASE state[r] # None
      BY <2>1, <3>1 DEF WriteOK, Known
    <3>2. CASE state[r] = None
      BY <2>1, <3>2 DEF PublicationInv, WaitOK, Stored
    <3> QED
      BY <3>1, <3>2
  <2>4. With(store, batch, snap)[r] = snap[r]
    BY <2>1, WithStored DEF TypeOK
  <2> QED
    BY <2>2, <2>3, <2>4 DEF Upsert, Call, tables
<1> QED
  BY PublicationInit, PublicationStep, <1>1, PTL DEF Spec, GovernedRevoked
==============================================================================
