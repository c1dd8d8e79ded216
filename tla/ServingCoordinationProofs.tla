---------------------- MODULE ServingCoordinationProofs ----------------------
(***************************************************************************)
(* Theorems about ServingCoordination for every set of publishers, queries *)
(* and operators, with crashes and with recoveries at any moment: type     *)
(* correctness, the election of at most one owner by the conditional claim,*)
(* fencing tokens that rise, leases that exclude publishers, answers of the *)
(* pinned generation, and the refinement of ServingScope.  What needs      *)
(* serializing statements, or a scope that nobody recovers, says so in its *)
(* ASSUME.                                                                 *)
(***************************************************************************)
EXTENDS ServingCoordination, TLAPS

\* The steps in which a session is stopped from outside.
PublisherStops(p) == CrashPublisher(p) \/ PublisherStatementFails(p)
QueryStops(q) == CrashQuery(q) \/ QueryStatementFails(q)

\* The initial state of the coordinator has the types of its variables.
LEMMA TypeOKInit == Init => TypeOK
<1> SUFFICES ASSUME Init PROVE TypeOK
  OBVIOUS
<1> USE SessionsAssumption
<1>1. ppc \in [Publishers -> PublisherPoints] /\ qpc \in [Queriers -> QueryPoints]
      /\ opc \in [Operators -> OperatorPoints]
  BY DEF Init, PublisherPoints, QueryPoints, OperatorPoints
<1>2. qpin \in [Queriers -> Pin]
  BY DEF Init, NoPin, Pin, NoGeneration
<1> QED
  BY <1>1, <1>2 DEF Init, TypeOK, NoGeneration

Stores == [version : Nat, config : Configs \cup {NoOne}, indexed : BOOLEAN]

\* A store mutation leaves a well-formed store, whatever it indexes.
LEMMA MutateType ==
  ASSUME TypeOK, NEW p \in Publishers, NEW indexed \in BOOLEAN, Mutate(p, indexed)
  PROVE  store' \in Stores
<1>1. store.version + 1 \in Nat /\ pconfig[p] \in Configs
  BY DEF TypeOK
<1> QED
  BY <1>1 DEF Mutate, Stores

\* The row a claim writes is a row.
LEMMA ClaimedRowType ==
  ASSUME TypeOK, NEW p \in Publishers, NEW r \in Row
  PROVE  ClaimedRow(p, r) \in Row
<1>1. p \in Publishers \cup {NoOne} /\ pconfig[p] \in Configs \cup {NoOne}
      /\ "publishing" \in Status
  BY DEF TypeOK, Status
<1>2. r.token + 1 \in Nat
  BY DEF Row
<1> QED
  BY <1>1, <1>2 DEF ClaimedRow, Row

\* _finish's UPDATE leaves rows.
LEMMA FinishedType ==
  ASSUME ledger \subseteq Row, NEW p,
         NEW status \in Status, NEW generation \in Nat
  PROVE  Finished(p, status, generation) \subseteq Row
<1> DEFINE Changed(r) == [r EXCEPT !.status = status, !.generation = generation,
                                   !.owner = NoOne]
<1>1. ASSUME NEW r \in Row PROVE Changed(r) \in Row
  BY DEF Row
<1>2. Claimed(p) \subseteq Row
  BY DEF Claimed
<1>3. {Changed(r) : r \in Claimed(p)} \subseteq Row
  BY <1>1, <1>2
<1> HIDE DEF Changed
<1>4. Finished(p, status, generation) = (ledger \ Claimed(p)) \cup {Changed(r) : r \in Claimed(p)}
  BY DEF Finished, Changed
<1> QED
  BY <1>3, <1>4

\* Every step of a publisher keeps the types.
LEMMA TypeOKPublisher ==
  ASSUME TypeOK, NEW p \in Publishers, PublisherStep(p) \/ PublisherStops(p)
  PROVE  TypeOK'
<1> USE SessionsAssumption, BoundAssumption
        DEF TypeOK, PGoto, PublisherPoints, tables, storage, pubVars, qryVars, opVars
<1>1. CASE EnsureRowSnapshot(p)
  BY <1>1 DEF EnsureRowSnapshot, Absent
<1>2. CASE EnsureRow(p)
  <2>1. FreshRow(p) \in Row
    BY DEF FreshRow, Row, Status, NoGeneration
  <2> QED
    BY <1>2, <2>1 DEF EnsureRow, Absent
<1>3. CASE CollapseDuplicates(p)
  BY <1>3 DEF CollapseDuplicates
<1>4. CASE ClaimSnapshot(p)
  BY <1>4 DEF ClaimSnapshot, Claimable
<1>5. CASE Claim(p)
  <2>1. \A r \in Row : ClaimedRow(p, r) \in Row
    BY ClaimedRowType
  <2>2. ASSUME NEW matched \in SUBSET Row, ClaimRows(p, matched)
        PROVE  ledger' \in SUBSET Row /\ highWater' \in Nat
    BY <2>1, <2>2 DEF ClaimRows, Row
  <2>3. Claimable \in SUBSET Row /\ psaw[p] \in SUBSET Row
    BY DEF Claimable
  <2>4. ledger' \in SUBSET Row /\ highWater' \in Nat
    BY <1>5, <2>2, <2>3 DEF Claim
  <2> QED
    BY <1>5, <2>4 DEF Claim
<1>6. CASE ClaimConflict(p)
  BY <1>6 DEF ClaimConflict
<1>7. CASE ReadBack(p)
  <2>1. ptoken' \in [Publishers -> Nat]
    BY <1>7 DEF ReadBack, Row
  <2> QED
    BY <1>7, <2>1 DEF ReadBack
<1>8. CASE TakeFence(p)
  BY <1>8 DEF TakeFence
<1>9. CASE PrepareCollection(p)
  <2>1. store' \in Stores /\ lock' \in Publishers \cup {NoOne}
    BY <1>9, MutateType DEF PrepareCollection, Stores
  <2> QED
    BY <1>9, <2>1 DEF PrepareCollection, Stores
<1>10. CASE VerifyBatch(p)
  BY <1>10 DEF VerifyBatch
<1>11. CASE WriteBatch(p)
  BY <1>11 DEF WriteBatch, Mutate
<1>12. CASE VerifyRecord(p)
  BY <1>12 DEF VerifyRecord
<1>13. CASE LastBatch(p)
  BY <1>13 DEF LastBatch
<1>14. CASE EnsureIndexes(p)
  <2>1. store' \in Stores
    BY <1>14, MutateType DEF EnsureIndexes, Stores
  <2>2. store'.version \in Nat
    BY <2>1 DEF Stores
  <2> QED
    BY <1>14, <2>1, <2>2 DEF EnsureIndexes, Stores
<1>15. CASE StoreError(p)
  BY <1>15 DEF StoreError
<1>16. CASE Confirm(p)
  BY <1>16 DEF Confirm
<1>17. CASE ReadBeforeReady(p)
  BY <1>17 DEF ReadBeforeReady
<1>18. CASE FinishReady(p) \/ FinishFailed(p)
  <2>1. Finished(p, "ready", pgen[p]) \subseteq Row
    BY FinishedType DEF Status
  <2>2. Finished(p, "failed", NoGeneration) \subseteq Row
    BY FinishedType DEF Status, NoGeneration
  <2>3. ledger' \in SUBSET Row
    BY <1>18, <2>1, <2>2 DEF FinishReady, FinishFailed
  <2> QED
    BY <1>18, <2>3 DEF FinishReady, FinishFailed
<1>19. CASE CheckReady(p)
  BY <1>19 DEF CheckReady
<1>20. CASE PublisherStops(p)
  BY <1>20 DEF CrashPublisher, PublisherStatementFails,
     PublisherStops
<1> QED
  BY <1>1, <1>2, <1>3, <1>4, <1>5, <1>6, <1>7, <1>8, <1>9, <1>10, <1>11, <1>12,
     <1>13, <1>14, <1>15, <1>16, <1>17, <1>18, <1>19, <1>20 DEF PublisherStep

\* Every step of a query keeps the types.
LEMMA TypeOKQuery ==
  ASSUME TypeOK, NEW q \in Queriers, QueryStep(q) \/ QueryStops(q)
  PROVE  TypeOK'
<1> USE DEF TypeOK, QGoto, QueryPoints, tables, storage, pubVars, opVars
<1>1. CASE ReadForQuery(q)
  <2>1. \A r \in Row : [token |-> r.token, generation |-> r.generation,
                        config |-> r.config] \in Pin
    BY DEF Row, Pin
  <2>2. qpin' \in [Queriers -> Pin]
    BY <1>1, <2>1 DEF ReadForQuery
  <2> QED
    BY <1>1, <2>2 DEF ReadForQuery
<1>2. CASE InsertLeaseSnapshot(q)
  BY <1>2 DEF InsertLeaseSnapshot, LeaseAllowed
<1>3. CASE InsertLease(q)
  <2>1. [holder |-> q, pin |-> qpin[q]] \in Lease
    BY DEF Lease
  <2> QED
    BY <1>3, <2>1 DEF InsertLease, LeaseAllowed
<1>4. CASE CheckHeld(q)
  BY <1>4 DEF CheckHeld
<1>5. CASE ValidateAdmission(q)
  BY <1>5 DEF ValidateAdmission
<1>6. CASE InspectCollection(q)
  BY <1>6 DEF InspectCollection
<1>7. CASE SearchStore(q)
  <2>1. store.version \in Nat
    OBVIOUS
  <2> QED
    BY <1>7, <2>1 DEF SearchStore
<1>8. CASE QueryError(q)
  BY <1>8 DEF QueryError
<1>9. CASE ValidateAnswer(q)
  BY <1>9 DEF ValidateAnswer
<1>10. CASE ReleaseLease(q)
  BY <1>10 DEF ReleaseLease
<1>11. CASE QueryStops(q)
  BY <1>11 DEF CrashQuery, QueryStatementFails,
     QueryStops
<1> QED
  BY <1>1, <1>2, <1>3, <1>4, <1>5, <1>6, <1>7, <1>8, <1>9, <1>10, <1>11
     DEF QueryStep

\* Every step of a recovery keeps the types.
LEMMA TypeOKOperator ==
  ASSUME TypeOK, NEW o \in Operators, RecoverStep(o) \/ CrashOperator(o)
  PROVE  TypeOK'
<1> USE DEF TypeOK, OGoto, OperatorPoints, tables, storage, pubVars, qryVars
<1>1. CASE ClearLeases(o)
  BY <1>1 DEF ClearLeases
<1>2. CASE ReadMaxFence(o)
  <2>1. \A r \in Row : r.token + 1 \in Nat
    BY DEF Row
  <2>2. ofence' \in [Operators -> Nat]
    BY <1>2, <2>1 DEF ReadMaxFence
  <2> QED
    BY <1>2, <2>2 DEF ReadMaxFence
<1>3. CASE DropRows(o)
  BY <1>3 DEF DropRows
<1>4. CASE InsertRecovered(o)
  <2>1. RecoveredRow(o) \in Row
    BY DEF RecoveredRow, Row, Status, NoGeneration
  <2> QED
    BY <1>4, <2>1 DEF InsertRecovered
<1>5. CASE CrashOperator(o)
  BY <1>5 DEF CrashOperator
<1> QED
  BY <1>1, <1>2, <1>3, <1>4, <1>5 DEF RecoverStep

\* A step is one of a publisher, of a query or of an operator.
LEMMA StepCases ==
  Next <=> \/ \E p \in Publishers : PublisherStep(p) \/ PublisherStops(p)
           \/ \E q \in Queriers : QueryStep(q) \/ QueryStops(q)
           \/ \E o \in Operators : RecoverStep(o) \/ CrashOperator(o)
BY DEF Next, Work, Crash, StatementFails, PublisherStops, QueryStops

\* A step that changes no variable keeps the types.
LEMMA TypeOKStutter == TypeOK /\ UNCHANGED vars => TypeOK'
BY DEF TypeOK, vars, tables, storage, pubVars, qryVars, opVars

\* TypeOK, the type invariant of the ledger, the leases, the store and every
\* session, holds in every behaviour, crashes and late recoveries included.
THEOREM TypeCorrect == Spec => []TypeOK
<1>1. TypeOK /\ [Next]_vars => TypeOK'
  BY StepCases, TypeOKPublisher, TypeOKQuery, TypeOKOperator, TypeOKStutter
<1> QED
  BY TypeOKInit, <1>1, PTL DEF Spec

-----------------------------------------------------------------------------
(* The election.  OneOwner is not inductive: a publisher whose conditional *)
(* UPDATE has read its snapshot (psaw) may commit much later, after others *)
(* claimed, finished or recovered.  Election says what such a snapshot     *)
(* still proves when the row it matched is still in the ledger unchanged.  *)

\* The session's INSERT is behind it: no other row will carry its number.
Inserted(i) ==
    \/ i \in Publishers /\ ppc[i] \notin {"start", "inserting"}
    \/ i \in Operators /\ opc[i] \notin {"start", "max", "drop", "insert"}
Seen == UNION {psaw[p] : p \in Publishers}

InsertedOnce == \A r \in ledger \cup Seen : Inserted(r.id)
UniqueIds == \A r, s \in ledger : r.id = s.id => r = s

\* A claim's snapshot matched at most one row, without an owner, and the row
\* of that number is the one it saw or carries a greater token since.
SawOneUnowned == \A p \in Publishers : \A x, y \in psaw[p] : x = y /\ x.owner = NoOne
SawOlder ==
    \A p \in Publishers : \A x \in psaw[p], r \in ledger :
        r.id = x.id => r = x \/ r.token > x.token
\* A row still as it was seen is evidence that nobody claimed since, and that
\* every other snapshot still valid matched the same row.
SawAlone ==
    \A p \in Publishers : \A x \in psaw[p], r \in ledger :
        x \in ledger => r.owner = NoOne
SawAgree ==
    \A p, q \in Publishers : \A x \in psaw[p] \cap ledger, y \in psaw[q] \cap ledger : x = y

Election ==
    /\ OneOwner /\ InsertedOnce /\ UniqueIds
    /\ SawOneUnowned /\ SawOlder /\ SawAlone /\ SawAgree

\* A session that is past its INSERT stays past it.
LEMMA InsertedStays ==
  ASSUME TypeOK, [Next]_vars, NEW i, Inserted(i)
  PROVE  Inserted(i)'
<1>1. ASSUME NEW p \in Publishers, PublisherStep(p) \/ PublisherStops(p)
      PROVE  Inserted(i)'
  <2>1. opc' = opc
    BY <1>1 DEF PublisherStep, EnsureRowSnapshot, EnsureRow, CollapseDuplicates,
       ClaimSnapshot, Claim, ClaimConflict, ReadBack, TakeFence, PrepareCollection,
       VerifyBatch, WriteBatch, VerifyRecord, LastBatch, EnsureIndexes, StoreError,
       Confirm, ReadBeforeReady, FinishReady, CheckReady, FinishFailed,
       CrashPublisher, PublisherStatementFails,
       PublisherStops, opVars
  <2>2. \E point \in PublisherPoints :
          /\ ppc' = [ppc EXCEPT ![p] = point]
          /\ ppc[p] = "start" \/ point \notin {"start", "inserting"}
    <3>1. CASE \/ EnsureRowSnapshot(p) \/ EnsureRow(p) \/ CollapseDuplicates(p)
               \/ ClaimSnapshot(p) \/ Claim(p) \/ ClaimConflict(p) \/ ReadBack(p)
               \/ TakeFence(p) \/ PrepareCollection(p) \/ VerifyBatch(p)
      BY <3>1 DEF EnsureRowSnapshot, EnsureRow, CollapseDuplicates, ClaimSnapshot,
         Claim, ClaimConflict, ReadBack, TakeFence, PrepareCollection, VerifyBatch,
         PGoto, PublisherPoints
    <3>2. CASE \/ WriteBatch(p) \/ VerifyRecord(p) \/ LastBatch(p) \/ EnsureIndexes(p)
               \/ StoreError(p) \/ Confirm(p) \/ ReadBeforeReady(p) \/ FinishReady(p)
               \/ CheckReady(p) \/ FinishFailed(p) \/ PublisherStops(p)
      BY <3>2 DEF WriteBatch, VerifyRecord, LastBatch, EnsureIndexes, StoreError,
         Confirm, ReadBeforeReady, FinishReady, CheckReady, FinishFailed,
         CrashPublisher, PublisherStatementFails,
         PublisherStops, PGoto, PublisherPoints
    <3> QED
      BY <1>1, <3>1, <3>2 DEF PublisherStep
  <2> QED
    BY <2>1, <2>2 DEF Inserted, TypeOK
<1>2. ASSUME NEW q \in Queriers, QueryStep(q) \/ QueryStops(q)
      PROVE  Inserted(i)'
  <2>1. ppc' = ppc /\ opc' = opc
    BY <1>2 DEF QueryStep, ReadForQuery, InsertLeaseSnapshot, InsertLease, CheckHeld,
       ValidateAdmission, InspectCollection, SearchStore, QueryError, ValidateAnswer,
       ReleaseLease, CrashQuery, QueryStatementFails,
       QueryStops, pubVars, opVars
  <2> QED
    BY <2>1 DEF Inserted
<1>3. ASSUME NEW o \in Operators, RecoverStep(o) \/ CrashOperator(o)
      PROVE  Inserted(i)'
  <2>1. ppc' = ppc
    BY <1>3 DEF RecoverStep, ClearLeases, ReadMaxFence, DropRows, InsertRecovered,
       CrashOperator, pubVars
  <2>2. \E point \in OperatorPoints :
          /\ opc' = [opc EXCEPT ![o] = point]
          /\ \/ opc[o] \in {"start", "max", "drop", "insert"}
             \/ point \notin {"start", "max", "drop", "insert"}
    BY <1>3 DEF RecoverStep, ClearLeases, ReadMaxFence, DropRows, InsertRecovered,
       CrashOperator, OGoto, OperatorPoints
  <2> QED
    BY <2>1, <2>2 DEF Inserted, TypeOK
<1>4. CASE UNCHANGED vars
  BY <1>4 DEF vars, pubVars, opVars, Inserted
<1> QED
  BY <1>1, <1>2, <1>3, <1>4, StepCases

\* A step that only removes rows and only forgets snapshots keeps Election.
LEMMA ElectionShrinks ==
  ASSUME TypeOK, [Next]_vars, Election,
         ledger' \subseteq ledger, \A p \in Publishers : psaw'[p] \subseteq psaw[p]
  PROVE  Election'
<1> USE DEF Election
<1>1. OneOwner' /\ UniqueIds'
  BY DEF OneOwner, UniqueIds
<1>2. InsertedOnce'
  <2>1. Seen' \subseteq Seen
    BY DEF Seen
  <2> QED
    BY <2>1, InsertedStays DEF InsertedOnce
<1>3. SawOneUnowned' /\ SawOlder'
  BY DEF SawOneUnowned, SawOlder
<1>4. SawAlone' /\ SawAgree'
  BY DEF SawAlone, SawAgree
<1> QED
  BY <1>1, <1>2, <1>3, <1>4

\* A step that inserts an unowned row under a number not used before keeps Election.
LEMMA ElectionInsert ==
  ASSUME TypeOK, [Next]_vars, Election, psaw' = psaw,
         NEW row \in Row, row.owner = NoOne, ~Inserted(row.id), Inserted(row.id)',
         ledger' = ledger \cup {row}
  PROVE  Election'
<1> USE DEF Election
<1>1. \A r \in ledger \cup Seen : r.id # row.id
  BY DEF InsertedOnce
<1>2. \A p \in Publishers : \A x \in psaw[p] : x.id # row.id /\ (x \in ledger' => x \in ledger)
  BY <1>1 DEF Seen
<1>3. OneOwner' /\ UniqueIds'
  BY <1>1 DEF OneOwner, UniqueIds
<1>4. InsertedOnce'
  <2>1. Seen' = Seen
    BY DEF Seen
  <2> QED
    BY <2>1, InsertedStays DEF InsertedOnce
<1>5. SawOneUnowned' /\ SawOlder'
  BY <1>2 DEF SawOneUnowned, SawOlder
<1>6. SawAlone' /\ SawAgree'
  BY <1>2 DEF SawAlone, SawAgree
<1> QED
  BY <1>3, <1>4, <1>5, <1>6

\* The snapshot of a claim, which matches nothing but a lone unowned row, keeps
\* Election.
LEMMA ElectionSnapshot ==
  ASSUME TypeOK, [Next]_vars, Election, NEW p \in Publishers, ClaimSnapshot(p)
  PROVE  Election'
<1> USE DEF Election
<1>1. ledger' = ledger /\ psaw' = [psaw EXCEPT ![p] = Claimable]
  BY DEF ClaimSnapshot, tables
<1>2. \A q \in Publishers : \A x \in psaw'[q] : x \in psaw[q] \/ x \in Claimable
  BY <1>1 DEF TypeOK
<1>3. \A x \in Claimable : x.owner = NoOne /\ ledger = {x}
  BY DEF Claimable, IsRow
<1>4. OneOwner' /\ UniqueIds'
  BY <1>1 DEF OneOwner, UniqueIds
<1>5. InsertedOnce'
  <2>1. Seen' \subseteq Seen \cup ledger
    BY <1>2 DEF Seen, Claimable
  <2> QED
    BY <1>1, <2>1, InsertedStays DEF InsertedOnce
<1>6. SawOneUnowned'
  <2>1. \A q \in Publishers : psaw'[q] = IF q = p THEN Claimable ELSE psaw[q]
    BY <1>1 DEF TypeOK
  <2> QED
    BY <1>3, <2>1 DEF SawOneUnowned
<1>7. SawOlder' /\ SawAlone' /\ SawAgree'
  BY <1>1, <1>2, <1>3 DEF SawOlder, SawAlone, SawAgree
<1> QED
  BY <1>4, <1>5, <1>6, <1>7

\* A claim that commits on the row x, being the lone unowned row, or the row its
\* snapshot matched and still as it was seen, keeps Election.
LEMMA ElectionClaim ==
  ASSUME TypeOK, [Next]_vars, Election, NEW p \in Publishers, NEW x \in ledger,
         x \in psaw[p] \/ x \in Claimable,
         ledger' = (ledger \ {x}) \cup {ClaimedRow(p, x)},
         psaw' = [psaw EXCEPT ![p] = {}]
  PROVE  Election'
<1> USE DEF Election
<1> DEFINE x1 == ClaimedRow(p, x)
<1>1. x1.id = x.id /\ x1.owner = p /\ x1.token = x.token + 1 /\ x.token \in Nat
  BY DEF ClaimedRow, TypeOK, Row
<1>2. p # NoOne
  BY SessionsAssumption DEF NoOne
<1>3. \A r \in ledger : r.owner = NoOne
  BY DEF SawAlone, Claimable, IsRow
<1>4. \A q \in Publishers : \A y \in psaw'[q] : y \in psaw[q] /\ y.owner = NoOne
  BY DEF TypeOK, SawOneUnowned
<1>5. \A q \in Publishers : \A y \in psaw[q] \cap ledger : y = x
  BY DEF SawAgree, Claimable, IsRow
<1>6. \A q \in Publishers : \A y \in psaw'[q] : y \notin ledger'
  BY <1>1, <1>2, <1>4, <1>5
<1>7. OneOwner'
  BY <1>3 DEF OneOwner
<1>8. UniqueIds'
  BY <1>1 DEF UniqueIds
<1>9. InsertedOnce'
  <2>1. Seen' \subseteq Seen
    BY <1>4 DEF Seen
  <2>2. \A r \in ledger' : \E s \in ledger : r.id = s.id
    BY <1>1
  <2> QED
    BY <2>1, <2>2, InsertedStays DEF InsertedOnce
<1>10. SawOneUnowned'
  BY <1>4 DEF SawOneUnowned
<1>11. SawOlder'
  <2> SUFFICES ASSUME NEW q \in Publishers, NEW y \in psaw'[q], NEW r \in ledger',
                      r.id = y.id
               PROVE  r = y \/ r.token > y.token
    BY DEF SawOlder
  <2>1. CASE r \in ledger
    BY <1>4, <2>1 DEF SawOlder
  <2>2. CASE r = x1
    <3>1. x = y \/ x.token > y.token
      BY <1>1, <1>4, <2>2 DEF SawOlder
    <3>2. y.token \in Nat
      BY <1>4 DEF TypeOK, Row
    <3> QED
      BY <1>1, <2>2, <3>1, <3>2
  <2> QED
    BY <2>1, <2>2
<1>12. SawAlone' /\ SawAgree'
  BY <1>6 DEF SawAlone, SawAgree
<1> QED
  BY <1>7, <1>8, <1>9, <1>10, <1>11, <1>12

\* A finishing publisher, which gives up its own row under the same number and
\* token, keeps Election: no stale snapshot matches the row it leaves.
LEMMA ElectionFinish ==
  ASSUME TypeOK, [Next]_vars, Election, NEW p \in Publishers, NEW status, NEW generation,
         ledger' = Finished(p, status, generation), psaw' = psaw
  PROVE  Election'
<1> USE DEF Election
<1> DEFINE Left(r) == [r EXCEPT !.status = status, !.generation = generation,
                                !.owner = NoOne]
<1>1. ledger' = (ledger \ Claimed(p)) \cup {Left(r) : r \in Claimed(p)}
  BY DEF Finished
<1>2. \A r \in Claimed(p) :
         /\ r \in ledger /\ r.owner # NoOne
         /\ Left(r).id = r.id /\ Left(r).token = r.token /\ Left(r).owner = NoOne
  BY SessionsAssumption DEF Claimed, NoOne, TypeOK, Row
<1> HIDE DEF Left
<1>3. \A r \in ledger' : \E s \in ledger :
         /\ r.id = s.id /\ r.token = s.token
         /\ r = s \/ (s.owner # NoOne /\ r.owner = NoOne)
  BY <1>1, <1>2
<1>4. OneOwner'
  BY <1>3 DEF OneOwner
<1>5. UniqueIds'
  <2> SUFFICES ASSUME NEW r \in ledger', NEW s \in ledger', r.id = s.id PROVE r = s
    BY DEF UniqueIds
  <2>1. PICK r0 \in ledger, s0 \in ledger :
           /\ IF r0 \in Claimed(p) THEN r = Left(r0) ELSE r = r0
           /\ IF s0 \in Claimed(p) THEN s = Left(s0) ELSE s = s0
    BY <1>1, <1>2
  <2>2. r0.id = s0.id
    BY <1>2, <2>1
  <2> QED
    BY <2>1, <2>2 DEF UniqueIds
<1>6. InsertedOnce'
  <2>1. Seen' = Seen
    BY DEF Seen
  <2> QED
    BY <1>3, <2>1, InsertedStays DEF InsertedOnce
<1>7. \A q \in Publishers : \A x \in psaw[q] : x \in ledger' => x \in ledger
  <2> SUFFICES ASSUME NEW q \in Publishers, NEW x \in psaw[q], x \in ledger', x \notin ledger
               PROVE  FALSE
    OBVIOUS
  <2>1. PICK s \in ledger : x.id = s.id /\ x.token = s.token /\ s # x
    BY <1>3
  <2>2. s.token > x.token
    BY <2>1 DEF SawOlder
  <2>3. s.token \in Nat
    BY DEF TypeOK, Row
  <2> QED
    BY <2>1, <2>2, <2>3
<1>8. SawOneUnowned'
  BY DEF SawOneUnowned
<1>9. SawOlder'
  <2> SUFFICES ASSUME NEW q \in Publishers, NEW x \in psaw[q], NEW r \in ledger',
                      r.id = x.id
               PROVE  r = x \/ r.token > x.token
    BY DEF SawOlder
  <2>1. PICK s \in ledger : /\ r.id = s.id /\ r.token = s.token
                            /\ r = s \/ (s.owner # NoOne /\ r.owner = NoOne)
    BY <1>3
  <2>2. s = x \/ s.token > x.token
    BY <2>1 DEF SawOlder
  <2>3. x.owner = NoOne
    BY DEF SawOneUnowned
  <2> QED
    BY <2>1, <2>2, <2>3
<1>10. SawAlone'
  BY <1>3, <1>7 DEF SawAlone
<1>11. SawAgree'
  BY <1>7 DEF SawAgree
<1> QED
  BY <1>4, <1>5, <1>6, <1>8, <1>9, <1>10, <1>11

LEMMA ElectionInit == Init => Election
BY DEF Init, Election, OneOwner, InsertedOnce, UniqueIds, Seen, SawOneUnowned,
   SawOlder, SawAlone, SawAgree

\* Every step of a publisher keeps Election.
LEMMA ElectionPublisher ==
  ASSUME TypeOK, [Next]_vars, Election, NEW p \in Publishers,
         PublisherStep(p) \/ PublisherStops(p)
  PROVE  Election'
<1>1. CASE EnsureRow(p)
  <2>1. CASE ledger' = ledger
    BY <1>1, <2>1, ElectionShrinks DEF EnsureRow
  <2>2. CASE ledger' = ledger \cup {FreshRow(p)}
    <3>1. FreshRow(p) \in Row /\ FreshRow(p).owner = NoOne /\ FreshRow(p).id = p
      BY DEF FreshRow, Row, Status, NoGeneration
    <3>2. ~Inserted(p) /\ Inserted(p)'
      BY <1>1, SessionsAssumption DEF EnsureRow, Inserted, PGoto, TypeOK
    <3> QED
      BY <1>1, <2>2, <3>1, <3>2, ElectionInsert DEF EnsureRow
  <2> QED
    BY <1>1, <2>1, <2>2 DEF EnsureRow
<1>2. CASE ClaimSnapshot(p)
  BY <1>2, ElectionSnapshot
<1>3. CASE Claim(p)
  <2>1. psaw' = [psaw EXCEPT ![p] = {}]
    BY <1>3 DEF Claim
  <2>2. PICK matched \in {Claimable, psaw[p]} : ClaimRows(p, matched)
    BY <1>3 DEF Claim
  <2>3. CASE matched = {}
    BY <2>1, <2>2, <2>3, ElectionShrinks DEF ClaimRows, TypeOK
  <2>4. CASE matched # {}
    <3>1. PICK x \in ledger : matched = {x}
      BY <2>2, <2>4 DEF ClaimRows, Claimable, IsRow, Election, SawOneUnowned
    <3>2. ledger' = (ledger \ {x}) \cup {ClaimedRow(p, x)}
      BY <2>2, <3>1 DEF ClaimRows
    <3> QED
      BY <2>1, <3>1, <3>2, ElectionClaim
  <2> QED
    BY <2>3, <2>4
<1>4. CASE CollapseDuplicates(p) \/ ClaimConflict(p)
  BY <1>4, ElectionShrinks DEF CollapseDuplicates, ClaimConflict, tables, TypeOK
<1>5. CASE FinishReady(p) \/ FinishFailed(p)
  BY <1>5, ElectionFinish DEF FinishReady, FinishFailed
<1>6. CASE \/ EnsureRowSnapshot(p) \/ ReadBack(p) \/ TakeFence(p) \/ PrepareCollection(p)
           \/ VerifyBatch(p) \/ WriteBatch(p) \/ VerifyRecord(p) \/ LastBatch(p)
           \/ EnsureIndexes(p) \/ StoreError(p) \/ Confirm(p) \/ ReadBeforeReady(p)
           \/ CheckReady(p) \/ CrashPublisher(p) \/ PublisherStatementFails(p)
  <2>1. ledger' = ledger /\ \A q \in Publishers : psaw'[q] \subseteq psaw[q]
    BY <1>6 DEF TypeOK, EnsureRowSnapshot, ReadBack, TakeFence, PrepareCollection, VerifyBatch,
       WriteBatch, VerifyRecord, LastBatch, EnsureIndexes, StoreError, Confirm,
       ReadBeforeReady, CheckReady, CrashPublisher, PublisherStatementFails,
       PublisherStops, tables
  <2> QED
    BY <2>1, ElectionShrinks
<1> QED
  BY <1>1, <1>2, <1>3, <1>4, <1>5, <1>6 DEF PublisherStep, PublisherStops

\* Every step of a recovery keeps Election.
LEMMA ElectionOperator ==
  ASSUME TypeOK, [Next]_vars, Election, NEW o \in Operators,
         RecoverStep(o) \/ CrashOperator(o)
  PROVE  Election'
<1>1. CASE InsertRecovered(o)
  <2>1. /\ RecoveredRow(o) \in Row
        /\ RecoveredRow(o).owner = NoOne /\ RecoveredRow(o).id = o
    BY DEF RecoveredRow, Row, Status, NoGeneration, TypeOK
  <2>2. ~Inserted(o) /\ Inserted(o)'
    BY <1>1, SessionsAssumption DEF InsertRecovered, Inserted, OGoto, TypeOK
  <2> QED
    BY <1>1, <2>1, <2>2, ElectionInsert DEF InsertRecovered, pubVars
<1>2. CASE ClearLeases(o) \/ ReadMaxFence(o) \/ DropRows(o) \/ CrashOperator(o)
  <2>1. ledger' \subseteq ledger /\ psaw' = psaw
    BY <1>2 DEF ClearLeases, ReadMaxFence, DropRows, CrashOperator, tables, pubVars
  <2> QED
    BY <2>1, ElectionShrinks
<1> QED
  BY <1>1, <1>2 DEF RecoverStep

\* Queries never write the ledger: their steps keep Election.
LEMMA ElectionQuery ==
  ASSUME TypeOK, [Next]_vars, Election, NEW q \in Queriers,
         QueryStep(q) \/ QueryStops(q)
  PROVE  Election'
<1>1. ledger' = ledger /\ psaw' = psaw
  BY DEF QueryStep, ReadForQuery, InsertLeaseSnapshot, InsertLease, CheckHeld,
     ValidateAdmission, InspectCollection, SearchStore, QueryError, ValidateAnswer,
     ReleaseLease, CrashQuery, QueryStatementFails,
     QueryStops, tables, pubVars
<1> QED
  BY <1>1, ElectionShrinks

LEMMA ElectionStep == TypeOK /\ Election /\ [Next]_vars => Election'
<1> SUFFICES ASSUME TypeOK, Election, [Next]_vars PROVE Election'
  OBVIOUS
<1>1. CASE UNCHANGED vars
  BY <1>1, ElectionShrinks DEF vars, tables, pubVars
<1> QED
  BY <1>1, StepCases, ElectionPublisher, ElectionOperator, ElectionQuery

\* OneOwner: at most one row of a scope ever carries a publication_id, so the
\* conditional UPDATE of acquire_publish elects at most one publisher, even when
\* it reads a snapshot and commits later, and even if recover() runs while
\* publishers are alive.
THEOREM ElectionSafe == Spec => []OneOwner
<1>1. Election => OneOwner
  BY DEF Election
<1> QED
  BY ElectionInit, TypeCorrect, ElectionStep, <1>1, PTL DEF Spec

\* The row a publisher claimed survives every step of another publisher.
LEMMA OthersKeepClaim ==
  ASSUME TypeOK, Election, NEW p \in Publishers, NEW w \in Publishers, w # p,
         PublisherStep(w) \/ PublisherStops(w), NEW r \in Claimed(p)
  PROVE  r \in Claimed(p)'
<1> USE DEF Election
<1>1. r \in ledger /\ r.owner = p /\ r.token = ptoken[p] /\ p # NoOne
  BY SessionsAssumption DEF Claimed, NoOne
<1>2. ptoken'[p] = ptoken[p]
  BY DEF PublisherStep, EnsureRowSnapshot, EnsureRow, CollapseDuplicates,
     ClaimSnapshot, Claim, ClaimConflict, ReadBack, TakeFence, PrepareCollection,
     VerifyBatch, WriteBatch, VerifyRecord, LastBatch, EnsureIndexes, StoreError,
     Confirm, ReadBeforeReady, FinishReady, CheckReady, FinishFailed,
     CrashPublisher, PublisherStatementFails,
     PublisherStops, TypeOK
<1>3. r \in ledger'
  <2>1. CASE EnsureRow(w) \/ CollapseDuplicates(w)
    BY <1>1, <2>1 DEF EnsureRow, CollapseDuplicates
  <2>2. CASE Claim(w)
    BY <1>1, <2>2 DEF Claim, ClaimRows, Claimable, SawOneUnowned
  <2>3. CASE FinishReady(w) \/ FinishFailed(w)
    BY <1>1, <2>3 DEF FinishReady, FinishFailed, Finished, Claimed
  <2>4. CASE \/ EnsureRowSnapshot(w) \/ ClaimSnapshot(w) \/ ClaimConflict(w)
             \/ ReadBack(w) \/ TakeFence(w) \/ PrepareCollection(w) \/ VerifyBatch(w)
             \/ WriteBatch(w) \/ VerifyRecord(w) \/ LastBatch(w) \/ EnsureIndexes(w)
             \/ StoreError(w) \/ Confirm(w) \/ ReadBeforeReady(w) \/ CheckReady(w)
             \/ PublisherStops(w)
    BY <1>1, <2>4 DEF EnsureRowSnapshot, ClaimSnapshot, ClaimConflict, ReadBack,
       TakeFence, PrepareCollection, VerifyBatch, WriteBatch, VerifyRecord, LastBatch,
       EnsureIndexes, StoreError, Confirm, ReadBeforeReady, CheckReady,
       CrashPublisher, PublisherStatementFails,
       PublisherStops, tables
  <2> QED
    BY <2>1, <2>2, <2>3, <2>4 DEF PublisherStep
<1> QED
  BY <1>1, <1>2, <1>3 DEF Claimed

\* AuthorityKept: there is no lease stealing.  A claim leaves the ledger only in
\* a step of its own publisher or of an operator's recovery.
THEOREM AuthoritySafe == Spec => AuthorityKept
<1> DEFINE Kept == \A p \in Publishers : Claimed(p) # {} /\ Claimed(p)' = {} =>
                      ppc'[p] # ppc[p] \/ \E o \in Operators : opc'[o] # opc[o]
<1>1. TypeOK /\ Election /\ [Next]_vars => [Kept]_vars
  <2> SUFFICES ASSUME TypeOK, Election, Next, NEW p \in Publishers,
                      NEW r \in Claimed(p), r \notin Claimed(p)'
               PROVE  ppc'[p] # ppc[p] \/ \E o \in Operators : opc'[o] # opc[o]
    OBVIOUS
  <2>1. ASSUME NEW w \in Publishers, PublisherStep(w) \/ PublisherStops(w)
        PROVE  ppc'[p] # ppc[p]
    <3>1. w = p
      BY <2>1, OthersKeepClaim
    <3>2. ppc'[w] # ppc[w]
      BY <2>1 DEF TypeOK, Acquiring, Finishing, PGoto, PublisherStep, EnsureRowSnapshot, EnsureRow,
         CollapseDuplicates, ClaimSnapshot, Claim, ClaimConflict, ReadBack, TakeFence,
         PrepareCollection, VerifyBatch, WriteBatch, VerifyRecord, LastBatch,
         EnsureIndexes, StoreError, Confirm, ReadBeforeReady, FinishReady, CheckReady,
         FinishFailed, CrashPublisher, PublisherStatementFails,
         PublisherStops, PublisherEnds
    <3> QED
      BY <3>1, <3>2
  <2>2. ASSUME NEW q \in Queriers, QueryStep(q) \/ QueryStops(q)
        PROVE  FALSE
    <3>1. ledger' = ledger /\ ptoken' = ptoken
      BY <2>2 DEF QueryStep, ReadForQuery, InsertLeaseSnapshot, InsertLease, CheckHeld,
         ValidateAdmission, InspectCollection, SearchStore, QueryError, ValidateAnswer,
         ReleaseLease, CrashQuery, QueryStatementFails,
         QueryStops, tables, pubVars
    <3> QED
      BY <3>1 DEF Claimed
  <2>3. ASSUME NEW o \in Operators, RecoverStep(o) \/ CrashOperator(o)
        PROVE  opc'[o] # opc[o]
    BY <2>3 DEF RecoverStep, ClearLeases, ReadMaxFence, DropRows, InsertRecovered,
       CrashOperator, OGoto, TypeOK
  <2> QED
    BY <2>1, <2>2, <2>3, StepCases
<1>2. [][Kept]_vars => AuthorityKept
  BY PTL DEF AuthorityKept
<1> QED
  BY TypeOKInit, ElectionInit, TypeCorrect, ElectionStep, <1>1, <1>2, PTL DEF Spec

-----------------------------------------------------------------------------
(* What a step writes.                                                     *)

\* A step leaves the ledger and the greatest token alone, or is one of these.
LEMMA LedgerWrites ==
  ASSUME [Next]_vars
  PROVE  \/ UNCHANGED <<ledger, highWater>>
         \/ \E p \in Publishers : \/ EnsureRow(p) \/ CollapseDuplicates(p) \/ Claim(p)
                                  \/ FinishReady(p) \/ FinishFailed(p)
         \/ \E o \in Operators : DropRows(o) \/ InsertRecovered(o)
<1>1. ASSUME NEW p \in Publishers, PublisherStep(p) \/ PublisherStops(p)
      PROVE  \/ UNCHANGED <<ledger, highWater>>
             \/ EnsureRow(p) \/ CollapseDuplicates(p) \/ Claim(p)
             \/ FinishReady(p) \/ FinishFailed(p)
  BY <1>1 DEF PublisherStep, EnsureRowSnapshot, ClaimSnapshot, ClaimConflict, ReadBack,
     TakeFence, PrepareCollection, VerifyBatch, WriteBatch, VerifyRecord, LastBatch,
     EnsureIndexes, StoreError, Confirm, ReadBeforeReady, CheckReady, CrashPublisher, PublisherStatementFails,
     PublisherStops, tables
<1>2. ASSUME NEW q \in Queriers, QueryStep(q) \/ QueryStops(q)
      PROVE  UNCHANGED <<ledger, highWater>>
  BY <1>2 DEF QueryStep, ReadForQuery, InsertLeaseSnapshot, InsertLease, CheckHeld,
     ValidateAdmission, InspectCollection, SearchStore, QueryError, ValidateAnswer,
     ReleaseLease, CrashQuery, QueryStatementFails,
     QueryStops, tables
<1>3. ASSUME NEW o \in Operators, RecoverStep(o) \/ CrashOperator(o)
      PROVE  UNCHANGED <<ledger, highWater>> \/ DropRows(o) \/ InsertRecovered(o)
  BY <1>3 DEF RecoverStep, ClearLeases, ReadMaxFence, CrashOperator, tables
<1>4. CASE UNCHANGED vars
  BY <1>4 DEF vars, tables
<1> QED
  BY <1>1, <1>2, <1>3, <1>4, StepCases

\* A claim matches nothing, or the one unowned row that x is.
LEMMA ClaimEffect ==
  ASSUME TypeOK, Election, NEW p \in Publishers, Claim(p)
  PROVE  \/ UNCHANGED <<ledger, highWater>>
         \/ \E x \in ledger :
              /\ x \in psaw[p] \/ x \in Claimable
              /\ x.owner = NoOne
              /\ ledger' = (ledger \ {x}) \cup {ClaimedRow(p, x)}
              /\ highWater' = IF x.token + 1 > highWater THEN x.token + 1 ELSE highWater
<1>1. PICK matched \in {Claimable, psaw[p]} : ClaimRows(p, matched)
  BY DEF Claim
<1>2. CASE matched = {}
  BY <1>1, <1>2 DEF ClaimRows
<1>3. CASE matched # {}
  <2>1. PICK x \in ledger : matched = {x} /\ x.owner = NoOne
    BY <1>1, <1>3 DEF ClaimRows, Claimable, IsRow, Election, SawOneUnowned
  <2>2. ledger' = (ledger \ {x}) \cup {ClaimedRow(p, x)}
    BY <1>1, <2>1 DEF ClaimRows
  <2>3. highWater' = IF x.token + 1 > highWater THEN x.token + 1 ELSE highWater
    BY <1>1, <2>1 DEF ClaimRows
  <2> QED
    BY <1>1, <2>1, <2>2, <2>3
<1> QED
  BY <1>2, <1>3

\* The row that _finish leaves for x.
LeftRow(x, status, generation) ==
    [x EXCEPT !.status = status, !.generation = generation, !.owner = NoOne]

\* Where a row of the ledger comes from.
LEMMA RowSource ==
  ASSUME TypeOK, Election, [Next]_vars, NEW r \in ledger', r \notin ledger
  PROVE  \/ \E p \in Publishers :
              \/ EnsureRow(p) /\ r = FreshRow(p)
              \/ Claim(p) /\ \E x \in ledger : x.owner = NoOne /\ r = ClaimedRow(p, x)
              \/ FinishReady(p) /\ \E x \in Claimed(p) : r = LeftRow(x, "ready", pgen[p])
              \/ FinishFailed(p) /\ \E x \in Claimed(p) : r = LeftRow(x, "failed", NoGeneration)
         \/ \E o \in Operators : InsertRecovered(o) /\ r = RecoveredRow(o)
<1>1. ASSUME NEW p \in Publishers, EnsureRow(p) \/ CollapseDuplicates(p)
      PROVE  EnsureRow(p) /\ r = FreshRow(p)
  BY <1>1 DEF EnsureRow, CollapseDuplicates
<1>2. ASSUME NEW p \in Publishers, Claim(p)
      PROVE  \E x \in ledger : x.owner = NoOne /\ r = ClaimedRow(p, x)
  BY <1>2, ClaimEffect
<1>3. ASSUME NEW p \in Publishers, NEW status, NEW generation,
             ledger' = Finished(p, status, generation)
      PROVE  \E x \in Claimed(p) : r = LeftRow(x, status, generation)
  BY <1>3 DEF Finished, LeftRow
<1>4. ASSUME NEW o \in Operators, DropRows(o) \/ InsertRecovered(o)
      PROVE  InsertRecovered(o) /\ r = RecoveredRow(o)
  BY <1>4 DEF DropRows, InsertRecovered
<1>5. \A p \in Publishers :
        /\ FinishReady(p) => ledger' = Finished(p, "ready", pgen[p])
        /\ FinishFailed(p) => ledger' = Finished(p, "failed", NoGeneration)
  BY DEF FinishReady, FinishFailed
<1> QED
  BY <1>1, <1>2, <1>3, <1>4, <1>5, LedgerWrites

\* The fields of the rows that steps write.
LEMMA WrittenRows ==
  ASSUME TypeOK
  PROVE  /\ \A p \in Publishers : FreshRow(p).status = "unpublished" /\ FreshRow(p).owner = NoOne
                                  /\ FreshRow(p).token = 0 /\ FreshRow(p).generation = NoGeneration
         /\ \A p \in Publishers, x \in ledger :
              /\ ClaimedRow(p, x).status = "publishing" /\ ClaimedRow(p, x).owner = p
              /\ ClaimedRow(p, x).config = pconfig[p] /\ ClaimedRow(p, x).token = x.token + 1
              /\ ClaimedRow(p, x).generation = x.generation
         /\ \A x \in ledger : \A status, generation :
              /\ LeftRow(x, status, generation).status = status
              /\ LeftRow(x, status, generation).owner = NoOne
              /\ LeftRow(x, status, generation).generation = generation
              /\ LeftRow(x, status, generation).token = x.token
              /\ LeftRow(x, status, generation).config = x.config
         /\ \A o \in Operators : /\ RecoveredRow(o).status = "failed"
                                 /\ RecoveredRow(o).owner = NoOne
                                 /\ RecoveredRow(o).generation = NoGeneration
BY DEF TypeOK, Row, FreshRow, ClaimedRow, LeftRow, RecoveredRow

-----------------------------------------------------------------------------
(* The fencing token, while no operator recovers the scope.  That a claim  *)
(* exceeds every earlier token needs the row it matched to carry the       *)
(* greatest one: without a recovery a row that was ever claimed is the     *)
(* only one, and a snapshot that still holds saw it.                       *)

Tokens ==
    /\ ledger = {} => highWater = 0
    /\ \A r \in ledger : r.token <= highWater
    /\ ledger # {} => \E r \in ledger : r.token = highWater
    /\ \A r, s \in ledger : r.token > 0 /\ s.token > 0 => r = s
    /\ \A r \in ledger : r.token = 0 <=> r.status = "unpublished"
    /\ \A r \in ledger : r.token = 0 => r.owner = NoOne
    /\ \A p \in Publishers : \A x \in psaw[p] \cap ledger : x.token = highWater

LEMMA TokensInit == Init => Tokens
BY DEF Init, Tokens

\* The row a claim takes carries the greatest token.
LEMMA ClaimsTheGreatest ==
  ASSUME TypeOK, Tokens, NEW p \in Publishers, NEW x \in ledger,
         x \in psaw[p] \/ x \in Claimable
  PROVE  x.token = highWater
BY DEF Tokens, Claimable, IsRow

\* A publisher's snapshot changes when it reads one, or is forgotten.
LEMMA SawChanges ==
  ASSUME TypeOK, [Next]_vars, NEW q \in Publishers, NEW y \in psaw'[q], y \notin psaw[q]
  PROVE  ledger' = ledger /\ highWater' = highWater /\ y \in Claimable
<1>1. ASSUME NEW p \in Publishers, PublisherStep(p) \/ PublisherStops(p)
      PROVE  ClaimSnapshot(p) /\ y \in Claimable
  <2>1. CASE ClaimSnapshot(p)
    BY <2>1 DEF ClaimSnapshot, TypeOK
  <2>2. CASE Claim(p) \/ ClaimConflict(p) \/ PublisherStatementFails(p)
    BY <2>2 DEF Claim, ClaimConflict, PublisherStatementFails, TypeOK
  <2> QED
    BY <1>1, <2>1, <2>2 DEF PublisherStep, EnsureRowSnapshot, EnsureRow, CollapseDuplicates,
       ReadBack, TakeFence, PrepareCollection, VerifyBatch, WriteBatch, VerifyRecord,
       LastBatch, EnsureIndexes, StoreError, Confirm, ReadBeforeReady, FinishReady,
       CheckReady, FinishFailed, CrashPublisher, PublisherStatementFails,
       PublisherStops
<1>2. ASSUME NEW q1 \in Queriers, QueryStep(q1) \/ QueryStops(q1) PROVE FALSE
  BY <1>2 DEF QueryStep, ReadForQuery, InsertLeaseSnapshot, InsertLease, CheckHeld,
     ValidateAdmission, InspectCollection, SearchStore, QueryError, ValidateAnswer,
     ReleaseLease, CrashQuery, QueryStatementFails,
     QueryStops, pubVars
<1>3. ASSUME NEW o \in Operators, RecoverStep(o) \/ CrashOperator(o) PROVE FALSE
  BY <1>3 DEF RecoverStep, ClearLeases, ReadMaxFence, DropRows, InsertRecovered,
     CrashOperator, pubVars
<1>4. CASE UNCHANGED vars
  BY <1>4 DEF vars, pubVars
<1> QED
  BY <1>1, <1>2, <1>3, <1>4, StepCases DEF ClaimSnapshot, tables

\* A row that a snapshot matched does not come back once it has changed.
LEMMA SeenIsGone ==
  ASSUME TypeOK, [Next]_vars, Election, NEW p \in Publishers, Claim(p),
         ledger' # ledger, NEW q \in Publishers, NEW y \in psaw'[q]
  PROVE  y \notin ledger'
<1>1. y \in psaw[q]
  BY SawChanges
<1>2. PICK x \in ledger : /\ x \in psaw[p] \/ x \in Claimable
                          /\ ledger' = (ledger \ {x}) \cup {ClaimedRow(p, x)}
  BY ClaimEffect
<1>3. y.owner = NoOne /\ ClaimedRow(p, x).owner # NoOne /\ x.owner = NoOne /\ ClaimedRow(p, x) # x
  <2>1. y.owner = NoOne /\ x.owner = NoOne
    BY <1>1, <1>2 DEF Election, SawOneUnowned, Claimable
  <2> QED
    BY <2>1, WrittenRows, SessionsAssumption DEF NoOne
<1>4. y \in ledger => y = x
  BY <1>1, <1>2 DEF Election, SawAgree, Claimable, IsRow
<1> QED
  BY <1>2, <1>3, <1>4

\* Every step keeps the tokens in order.
LEMMA TokensStep ==
  ASSUME Operators = {}, TypeOK, [Next]_vars, Election, Tokens
  PROVE  Tokens'
<1> USE DEF Tokens
<1>0. highWater \in Nat /\ \A r \in ledger : r.token \in Nat
  BY DEF TypeOK, Row
<1>1. CASE ledger' = ledger /\ highWater' = highWater
  <2>1. \A q \in Publishers : \A y \in psaw'[q] \cap ledger : y.token = highWater
    BY <1>1, SawChanges DEF Claimable, IsRow
  <2> QED
    BY <1>1, <2>1
<1>2. CASE ledger' # ledger \/ highWater' # highWater
  <2>0. \A q \in Publishers : psaw'[q] \subseteq psaw[q]
    BY <1>2, SawChanges
  <2>1. ASSUME NEW p \in Publishers, EnsureRow(p), ledger' # ledger PROVE Tokens'
    <3>1. /\ ledger' = ledger \cup {FreshRow(p)} /\ highWater' = highWater
          /\ psaw' = psaw
      BY <2>1 DEF EnsureRow
    <3>2. \A q \in Publishers : \A y \in psaw[q] : y # FreshRow(p)
      <4>1. ~Inserted(p) /\ FreshRow(p).id = p
        BY <2>1, SessionsAssumption DEF EnsureRow, Inserted, TypeOK, FreshRow
      <4> QED
        BY <4>1 DEF Election, InsertedOnce, Seen
    <3>3. ledger = {} => highWater = FreshRow(p).token
      BY WrittenRows
    <3> QED
      BY <1>0, <3>1, <3>2, <3>3, WrittenRows
  <2>2. ASSUME NEW p \in Publishers, CollapseDuplicates(p) PROVE Tokens'
    <3>1. /\ ledger' \subseteq ledger /\ highWater' = highWater
          /\ \A r \in ledger : r.status # "unpublished" => r \in ledger'
      BY <2>2 DEF CollapseDuplicates
    <3>2. highWater = 0 \/ \E r \in ledger' : r.token = highWater
      BY <3>1
    <3> QED
      BY <1>0, <2>0, <3>1, <3>2
  <2>3. ASSUME NEW p \in Publishers, Claim(p) PROVE Tokens'
    <3>1. ledger' # ledger
      BY <1>2, <2>3, ClaimEffect, WrittenRows, SessionsAssumption DEF NoOne
    <3>2. PICK x \in ledger :
             /\ x \in psaw[p] \/ x \in Claimable
             /\ ledger' = (ledger \ {x}) \cup {ClaimedRow(p, x)}
             /\ highWater' = IF x.token + 1 > highWater THEN x.token + 1 ELSE highWater
      BY <1>2, <2>3, ClaimEffect
    <3>3. x.token = highWater /\ highWater' = highWater + 1
      BY <1>0, <3>2, ClaimsTheGreatest
    <3>4. \A r \in ledger \ {x} : r.token = 0
      BY <1>0, <3>3
    <3>5. \A q \in Publishers : \A y \in psaw'[q] : y \notin ledger'
      BY <2>3, <3>1, SeenIsGone
    <3> QED
      BY <1>0, <3>2, <3>3, <3>4, <3>5, WrittenRows
  <2>4. ASSUME NEW p \in Publishers, NEW status \in {"ready", "failed"}, NEW generation,
               ledger' = Finished(p, status, generation), highWater' = highWater
        PROVE  Tokens'
    <3>1. /\ ledger' = (ledger \ Claimed(p)) \cup {LeftRow(x, status, generation) : x \in Claimed(p)}
          /\ \A x \in Claimed(p) : x \in ledger /\ x.owner = p /\ p # NoOne
      BY <2>4, SessionsAssumption DEF Finished, LeftRow, Claimed, NoOne
    <3>2. \A x \in Claimed(p) : x.token > 0
      BY <1>0, <3>1
    <3>3. \A r \in ledger' : \E s \in ledger :
             /\ r.token = s.token
             /\ \/ r = s
                \/ s \in Claimed(p) /\ r = LeftRow(s, status, generation)
      BY <3>1, WrittenRows
    <3>4. \A r \in ledger : \E s \in ledger' : s.token = r.token
      BY <3>1, WrittenRows
    <3>5. \A q \in Publishers : \A y \in psaw'[q] \cap ledger' : y \in ledger
      <4> SUFFICES ASSUME NEW q \in Publishers, NEW y \in psaw[q], y \in ledger', y \notin ledger
                   PROVE  FALSE
        BY <2>0
      <4>1. PICK s \in Claimed(p) : y = LeftRow(s, status, generation)
        BY <3>1
      <4>2. y.id = s.id /\ y.token = s.token /\ s \in ledger /\ y # s
        <5>1. s \in Row /\ s \in ledger /\ s.owner # NoOne
          BY <3>1, <4>1 DEF TypeOK
        <5>2. y.id = s.id
          BY <4>1, <5>1 DEF LeftRow, Row
        <5> QED
          BY <4>1, <5>1, <5>2, WrittenRows
      <4> QED
        BY <1>0, <4>2 DEF Election, SawOlder
    <3>6. \A r \in ledger' : r \notin ledger => r.token > 0 /\ r.status = status
      BY <3>1, <3>2, WrittenRows
    <3>7. \A r, s \in ledger' : r.token > 0 /\ s.token > 0 => r = s
      BY <3>1, <3>2, <3>3
    <3> QED
      BY <1>0, <2>0, <2>4, <3>3, <3>4, <3>5, <3>6, <3>7
  <2>5. ASSUME NEW p \in Publishers, FinishReady(p) \/ FinishFailed(p) PROVE Tokens'
    BY <2>4, <2>5 DEF FinishReady, FinishFailed
  <2>6. ASSUME NEW p \in Publishers, EnsureRow(p) PROVE ledger' # ledger
    BY <1>2, <2>6 DEF EnsureRow
  <2> QED
    BY <1>2, <2>1, <2>2, <2>3, <2>5, <2>6, LedgerWrites
<1> QED
  BY <1>1, <1>2

\* FenceIncreases: while no operator recovers the scope, the row a claim writes
\* carries a token greater than any the scope ever had, also when the claim
\* commits long after it read.
THEOREM FencesRise ==
  ASSUME Operators = {}
  PROVE  Spec => FenceIncreases
<1> DEFINE Rises == \A p \in Publishers :
                       \A r \in ledger' \ ledger : r.owner = p => r.token > highWater
<1>1. TypeOK /\ Election /\ Tokens /\ [Next]_vars => Tokens'
  BY TokensStep
<1>2. TypeOK /\ Election /\ Tokens /\ [Next]_vars => [Rises]_vars
  <2> SUFFICES ASSUME TypeOK, Election, Tokens, [Next]_vars, NEW p \in Publishers,
                      NEW r \in ledger' \ ledger, r.owner = p
               PROVE  r.token > highWater
    OBVIOUS
  <2>1. p # NoOne
    BY SessionsAssumption DEF NoOne
  <2>2. PICK w \in Publishers : Claim(w)
    BY <2>1, RowSource, WrittenRows DEF Claimed
  <2>3. PICK x \in ledger : /\ x \in psaw[w] \/ x \in Claimable
                            /\ r = ClaimedRow(w, x)
    BY <2>2, ClaimEffect
  <2>4. x.token = highWater /\ highWater \in Nat
    BY <2>3, ClaimsTheGreatest DEF TypeOK
  <2>5. r.token = highWater + 1
    BY <2>3, <2>4, WrittenRows
  <2> QED
    BY <2>4, <2>5
<1>3. [][Rises]_vars => FenceIncreases
  BY PTL DEF FenceIncreases
<1> QED
  BY TypeOKInit, ElectionInit, TokensInit, TypeCorrect, ElectionStep, <1>1, <1>2, <1>3, PTL DEF Spec

-----------------------------------------------------------------------------
(* Serializing statements: a claim and the insertion of a lease each read  *)
(* and write in one step, so a lease held by an admitted query excludes    *)
(* every publisher, whatever operators do.                                 *)

\* No session is between the read and the commit of a statement.
NothingPending ==
    /\ \A p \in Publishers : ppc[p] \notin {"inserting", "claiming"} /\ psaw[p] = {}
    /\ \A q \in Queriers : qpc[q] # "inserting"

LEMMA NothingPendingInit == Init => NothingPending
BY DEF Init, NothingPending

LEMMA NothingPendingStep ==
  ASSUME ~SnapshotDML, TypeOK, [Next]_vars, NothingPending
  PROVE  NothingPending'
<1> USE DEF NothingPending, TypeOK
<1>1. ASSUME NEW p \in Publishers, PublisherStep(p) \/ PublisherStops(p)
      PROVE  NothingPending'
  <2>1. qpc' = qpc
    BY <1>1 DEF PublisherStep, EnsureRowSnapshot, EnsureRow, CollapseDuplicates,
       ClaimSnapshot, Claim, ClaimConflict, ReadBack, TakeFence, PrepareCollection,
       VerifyBatch, WriteBatch, VerifyRecord, LastBatch, EnsureIndexes, StoreError,
       Confirm, ReadBeforeReady, FinishReady, CheckReady, FinishFailed,
       CrashPublisher, PublisherStatementFails,
       PublisherStops, qryVars
  <2>2. \A q \in Publishers : psaw'[q] = {}
    BY <1>1 DEF PublisherStep, EnsureRowSnapshot, EnsureRow, CollapseDuplicates,
       ClaimSnapshot, Claim, ClaimConflict, ReadBack, TakeFence, PrepareCollection,
       VerifyBatch, WriteBatch, VerifyRecord, LastBatch, EnsureIndexes, StoreError,
       Confirm, ReadBeforeReady, FinishReady, CheckReady, FinishFailed, CrashPublisher, PublisherStatementFails,
       PublisherStops
  <2>3. \E point \in PublisherPoints \ {"inserting", "claiming"} :
          ppc' = [ppc EXCEPT ![p] = point]
    <3>1. CASE \/ EnsureRowSnapshot(p) \/ EnsureRow(p) \/ CollapseDuplicates(p)
               \/ ClaimSnapshot(p) \/ Claim(p) \/ ClaimConflict(p) \/ ReadBack(p)
               \/ TakeFence(p) \/ PrepareCollection(p) \/ VerifyBatch(p)
      BY <3>1 DEF EnsureRowSnapshot, EnsureRow, CollapseDuplicates, ClaimSnapshot,
         Claim, ClaimConflict, ReadBack, TakeFence, PrepareCollection, VerifyBatch, PGoto,
         PublisherPoints
    <3>2. CASE \/ WriteBatch(p) \/ VerifyRecord(p) \/ LastBatch(p) \/ EnsureIndexes(p)
               \/ StoreError(p) \/ Confirm(p) \/ ReadBeforeReady(p) \/ FinishReady(p)
               \/ CheckReady(p) \/ FinishFailed(p) \/ PublisherStops(p)
      BY <3>2 DEF WriteBatch, VerifyRecord, LastBatch, EnsureIndexes, StoreError,
         Confirm, ReadBeforeReady, FinishReady, CheckReady, FinishFailed,
         CrashPublisher, PublisherStatementFails,
         PublisherStops, PGoto, PublisherPoints
    <3> QED
      BY <1>1, <3>1, <3>2 DEF PublisherStep
  <2> QED
    BY <2>1, <2>2, <2>3
<1>2. ASSUME NEW q \in Queriers, QueryStep(q) \/ QueryStops(q)
      PROVE  NothingPending'
  <2>1. ppc' = ppc /\ psaw' = psaw
    BY <1>2 DEF QueryStep, ReadForQuery, InsertLeaseSnapshot, InsertLease, CheckHeld,
       ValidateAdmission, InspectCollection, SearchStore, QueryError, ValidateAnswer,
       ReleaseLease, CrashQuery, QueryStatementFails,
       QueryStops, pubVars
  <2>2. \E point : qpc' = [qpc EXCEPT ![q] = point] /\ point # "inserting"
    BY <1>2 DEF QueryStep, ReadForQuery, InsertLeaseSnapshot, InsertLease, CheckHeld,
       ValidateAdmission, InspectCollection, SearchStore, QueryError, ValidateAnswer,
       ReleaseLease, CrashQuery, QueryStatementFails,
       QueryStops, QGoto
  <2> QED
    BY <2>1, <2>2
<1>3. ASSUME NEW o \in Operators, RecoverStep(o) \/ CrashOperator(o)
      PROVE  NothingPending'
  BY <1>3 DEF RecoverStep, ClearLeases, ReadMaxFence, DropRows, InsertRecovered,
     CrashOperator, pubVars, qryVars
<1>4. CASE UNCHANGED vars
  BY <1>4 DEF vars, pubVars, qryVars
<1> QED
  BY <1>1, <1>2, <1>3, <1>4, StepCases

\* Which leases a step adds.
LEMMA LeaseWrites ==
  ASSUME [Next]_vars
  PROVE  \/ leases' = leases
         \/ \E q \in Queriers : InsertLease(q) \/ ReleaseLease(q)
         \/ \E o \in Operators : ClearLeases(o)
<1>1. ASSUME NEW p \in Publishers, PublisherStep(p) \/ PublisherStops(p)
      PROVE  leases' = leases
  BY <1>1 DEF PublisherStep, EnsureRowSnapshot, EnsureRow, CollapseDuplicates,
     ClaimSnapshot, Claim, ClaimConflict, ReadBack, TakeFence, PrepareCollection,
     VerifyBatch, WriteBatch, VerifyRecord, LastBatch, EnsureIndexes, StoreError,
     Confirm, ReadBeforeReady, FinishReady, CheckReady, FinishFailed, CrashPublisher, PublisherStatementFails,
     PublisherStops, tables
<1>2. ASSUME NEW q \in Queriers, QueryStep(q) \/ QueryStops(q)
      PROVE  leases' = leases \/ InsertLease(q) \/ ReleaseLease(q)
  BY <1>2 DEF QueryStep, ReadForQuery, InsertLeaseSnapshot, CheckHeld, ValidateAdmission,
     InspectCollection, SearchStore, QueryError, ValidateAnswer, CrashQuery, QueryStatementFails,
     QueryStops, tables
<1>3. ASSUME NEW o \in Operators, RecoverStep(o) \/ CrashOperator(o)
      PROVE  leases' = leases \/ ClearLeases(o)
  BY <1>3 DEF RecoverStep, ReadMaxFence, DropRows, InsertRecovered, CrashOperator, tables
<1>4. CASE UNCHANGED vars
  BY <1>4 DEF vars, tables
<1> QED
  BY <1>1, <1>2, <1>3, <1>4, StepCases

\* Where a query stands changes by its own steps only.
LEMMA QueryMoves ==
  ASSUME TypeOK, [Next]_vars, NEW q \in Queriers
  PROVE  qpc'[q] = qpc[q] \/ QueryStep(q) \/ QueryStops(q)
<1>1. ASSUME NEW p \in Publishers, PublisherStep(p) \/ PublisherStops(p)
      PROVE  qpc' = qpc
  BY <1>1 DEF PublisherStep, EnsureRowSnapshot, EnsureRow, CollapseDuplicates,
     ClaimSnapshot, Claim, ClaimConflict, ReadBack, TakeFence, PrepareCollection,
     VerifyBatch, WriteBatch, VerifyRecord, LastBatch, EnsureIndexes, StoreError,
     Confirm, ReadBeforeReady, FinishReady, CheckReady, FinishFailed, CrashPublisher, PublisherStatementFails,
     PublisherStops, qryVars
<1>2. ASSUME NEW w \in Queriers, QueryStep(w) \/ QueryStops(w), w # q
      PROVE  qpc'[q] = qpc[q]
  BY <1>2 DEF QueryStep, ReadForQuery, InsertLeaseSnapshot, InsertLease, CheckHeld,
     ValidateAdmission, InspectCollection, SearchStore, QueryError, ValidateAnswer,
     ReleaseLease, CrashQuery, QueryStatementFails,
     QueryStops, QGoto, TypeOK
<1>3. ASSUME NEW o \in Operators, RecoverStep(o) \/ CrashOperator(o)
      PROVE  qpc' = qpc
  BY <1>3 DEF RecoverStep, ClearLeases, ReadMaxFence, DropRows, InsertRecovered,
     CrashOperator, qryVars
<1>4. CASE UNCHANGED vars
  BY <1>4 DEF vars, qryVars
<1> QED
  BY <1>1, <1>2, <1>3, <1>4, StepCases

LEMMA ExclusionStep ==
  ASSUME TypeOK, [Next]_vars, Election, NothingPending, LeaseExcludesPublisher
  PROVE  LeaseExcludesPublisher'
<1> SUFFICES ASSUME NEW q \in Queriers, LeaseHeld(q)', qpc'[q] \in {"inspect", "search", "recheck"},
                    NEW r \in ledger'
             PROVE  r.owner = NoOne
  BY DEF LeaseExcludesPublisher
<1>1. CASE qpc[q] = "admit"
  <2>1. ValidateAdmission(q)
    BY <1>1, QueryMoves DEF QueryStep, ReadForQuery, InsertLeaseSnapshot, InsertLease,
       CheckHeld, InspectCollection, SearchStore, QueryError, ValidateAnswer, ReleaseLease,
       CrashQuery, QueryStatementFails,
       QueryStops, QGoto, TypeOK
  <2>2. StillValid(q) /\ ledger' = ledger
    BY <2>1 DEF ValidateAdmission, QGoto, TypeOK, tables
  <2> QED
    BY <2>2 DEF StillValid, IsRow, Valid
<1>2. CASE qpc[q] # "admit"
  <2>1. qpc[q] \in {"inspect", "search", "recheck"}
    BY <1>2, QueryMoves DEF QueryStep, ReadForQuery, InsertLeaseSnapshot, InsertLease,
       CheckHeld, ValidateAdmission, InspectCollection, SearchStore, QueryError,
       ValidateAnswer, ReleaseLease, CrashQuery, QueryStatementFails,
       QueryStops, QGoto, TypeOK
  <2>2. LeaseHeld(q)
    <3>1. PICK l \in leases' : l.holder = q
      BY DEF LeaseHeld
    <3>2. ASSUME NEW w \in Queriers, InsertLease(w) PROVE l \in leases
      <4>1. w # q
        BY <2>1, <3>2 DEF InsertLease
      <4>2. l # [holder |-> w, pin |-> qpin[w]]
        BY <3>1, <4>1
      <4> QED
        BY <3>1, <3>2, <4>2 DEF InsertLease
    <3>3. l \in leases
      BY <3>2, LeaseWrites DEF ReleaseLease, ClearLeases
    <3> QED
      BY <3>1, <3>3 DEF LeaseHeld
  <2>3. \A s \in ledger : s.owner = NoOne
    BY <2>1, <2>2 DEF LeaseExcludesPublisher
  <2>4. ASSUME NEW p \in Publishers, Claim(p), NEW x \in ledger, r = ClaimedRow(p, x)
        PROVE  FALSE
    <3>1. leases # {}
      BY <2>2 DEF LeaseHeld
    <3> QED
      BY <2>3, <2>4, <3>1, ClaimEffect, WrittenRows, SessionsAssumption
         DEF NothingPending, Claimable, NoOne
  <2> QED
    BY <2>3, <2>4, RowSource, WrittenRows DEF Claimed
<1> QED
  BY <1>1, <1>2

\* LeaseExcludesPublisher: with serializing statements, while the lease of an
\* admitted query is in the table no row of the scope is claimed, whatever
\* publishers, operators and crashes do.
THEOREM LeasesExclude ==
  ASSUME ~SnapshotDML
  PROVE  Spec => []LeaseExcludesPublisher
<1>1. Init => LeaseExcludesPublisher
  BY DEF Init, LeaseExcludesPublisher
<1>2. TypeOK /\ NothingPending /\ [Next]_vars => NothingPending'
  BY NothingPendingStep
<1>3. TypeOK /\ Election /\ NothingPending /\ LeaseExcludesPublisher /\ [Next]_vars
        => LeaseExcludesPublisher'
  BY ExclusionStep
<1> QED
  BY TypeOKInit, ElectionInit, NothingPendingInit, TypeCorrect, ElectionStep, <1>1, <1>2, <1>3,
     PTL DEF Spec

-----------------------------------------------------------------------------
(* What is ready is stored, and what is answered was ready all along.      *)
(* ReadyIsAnswered is not inductive: a publisher between its verification  *)
(* and its write can still change the store (StoreOK says that nothing is  *)
(* ready or about to be then), and a query between two reads may see two   *)
(* versions (AnswersOK says that it then cannot pass the last validation). *)
(* One combination is excluded: a widening runs unverified, so with        *)
(* widenings to run, no operator may take the claim away.                  *)

FencePoints == {"prepare", "batch", "write", "record", "index"}
Completing == {"confirm", "activate", "ready_write"}
\* From reading its claim back to giving it up.
Authorized == {"fence"} \cup FencePoints \cup Completing

RowsOK ==
    \A r \in ledger :
        /\ r.status = "ready" => r.owner = NoOne
        /\ \A p \in Publishers : r.owner = p => r.config = pconfig[p]
Fenced == \A p \in Publishers : lock = p <=> ppc[p] \in FencePoints
ClaimsKept == \A p \in Publishers : ppc[p] \in Authorized => Claimed(p) # {}

\* A publisher that has indexed and may still make its claim ready.
Standing(p) == ppc[p] \in Completing /\ Claimed(p) # {}
Quiet ==
    /\ \A r \in ledger : r.status # "ready"
    /\ \A p \in Publishers : ~Standing(p)

StoreOK ==
    /\ ~store.indexed => Quiet
    /\ \A p \in Publishers :
         /\ ppc[p] = "write" => Quiet
         /\ Standing(p) => store.version = pgen[p] /\ store.config = pconfig[p]
         /\ ppc[p] \in FencePoints \ {"prepare"} =>
               store.version = NoGeneration \/ store.config = pconfig[p]
         /\ ppc[p] = "index" => store.version # NoGeneration
    /\ \A r \in ledger : r.status = "ready" =>
          store.version = r.generation /\ store.config = r.config

LEMMA ConfigsStay == [Next]_vars => pconfig' = pconfig /\ qconfig' = qconfig
<1>1. ASSUME NEW p \in Publishers, PublisherStep(p) \/ PublisherStops(p)
      PROVE  pconfig' = pconfig /\ qconfig' = qconfig
  BY <1>1 DEF PublisherStep, EnsureRowSnapshot, EnsureRow, CollapseDuplicates,
     ClaimSnapshot, Claim, ClaimConflict, ReadBack, TakeFence, PrepareCollection,
     VerifyBatch, WriteBatch, VerifyRecord, LastBatch, EnsureIndexes, StoreError,
     Confirm, ReadBeforeReady, FinishReady, CheckReady, FinishFailed, CrashPublisher, PublisherStatementFails,
     PublisherStops, qryVars
<1>2. ASSUME NEW q \in Queriers, QueryStep(q) \/ QueryStops(q)
      PROVE  pconfig' = pconfig /\ qconfig' = qconfig
  BY <1>2 DEF QueryStep, ReadForQuery, InsertLeaseSnapshot, InsertLease, CheckHeld,
     ValidateAdmission, InspectCollection, SearchStore, QueryError, ValidateAnswer,
     ReleaseLease, CrashQuery, QueryStatementFails,
     QueryStops, pubVars
<1>3. ASSUME NEW o \in Operators, RecoverStep(o) \/ CrashOperator(o)
      PROVE  pconfig' = pconfig /\ qconfig' = qconfig
  BY <1>3 DEF RecoverStep, ClearLeases, ReadMaxFence, DropRows, InsertRecovered,
     CrashOperator, pubVars, qryVars
<1>4. UNCHANGED vars => pconfig' = pconfig /\ qconfig' = qconfig
  BY DEF vars, pubVars, qryVars
<1> QED
  BY <1>1, <1>2, <1>3, <1>4, StepCases

\* Where a publisher stands, and what it knows, changes by its own steps only.
LEMMA PublisherMoves ==
  ASSUME TypeOK, [Next]_vars, NEW p \in Publishers
  PROVE  \/ ppc'[p] = ppc[p] /\ ptoken'[p] = ptoken[p] /\ pgen'[p] = pgen[p]
         \/ PublisherStep(p) \/ PublisherStops(p)
<1>1. ASSUME NEW w \in Publishers, PublisherStep(w) \/ PublisherStops(w), w # p
      PROVE  ppc'[p] = ppc[p] /\ ptoken'[p] = ptoken[p] /\ pgen'[p] = pgen[p]
  <2>1. CASE \/ EnsureRowSnapshot(w) \/ EnsureRow(w) \/ CollapseDuplicates(w)
             \/ ClaimSnapshot(w) \/ Claim(w) \/ ClaimConflict(w) \/ ReadBack(w)
             \/ TakeFence(w) \/ PrepareCollection(w) \/ VerifyBatch(w)
    BY <1>1, <2>1 DEF EnsureRowSnapshot, EnsureRow, CollapseDuplicates, ClaimSnapshot,
       Claim, ClaimConflict, ReadBack, TakeFence, PrepareCollection, VerifyBatch, PGoto, TypeOK
  <2>2. CASE \/ WriteBatch(w) \/ VerifyRecord(w) \/ LastBatch(w) \/ EnsureIndexes(w)
             \/ StoreError(w) \/ Confirm(w) \/ ReadBeforeReady(w) \/ FinishReady(w)
             \/ CheckReady(w) \/ FinishFailed(w) \/ PublisherStops(w)
    BY <1>1, <2>2 DEF WriteBatch, VerifyRecord, LastBatch, EnsureIndexes, StoreError,
       Confirm, ReadBeforeReady, FinishReady, CheckReady, FinishFailed,
       CrashPublisher, PublisherStatementFails,
       PublisherStops, PGoto, TypeOK
  <2> QED
    BY <1>1, <2>1, <2>2 DEF PublisherStep
<1>2. ASSUME NEW q \in Queriers, QueryStep(q) \/ QueryStops(q)
      PROVE  ppc' = ppc /\ ptoken' = ptoken /\ pgen' = pgen
  BY <1>2 DEF QueryStep, ReadForQuery, InsertLeaseSnapshot, InsertLease, CheckHeld,
     ValidateAdmission, InspectCollection, SearchStore, QueryError, ValidateAnswer,
     ReleaseLease, CrashQuery, QueryStatementFails,
     QueryStops, pubVars
<1>3. ASSUME NEW o \in Operators, RecoverStep(o) \/ CrashOperator(o)
      PROVE  ppc' = ppc /\ ptoken' = ptoken /\ pgen' = pgen
  BY <1>3 DEF RecoverStep, ClearLeases, ReadMaxFence, DropRows, InsertRecovered,
     CrashOperator, pubVars
<1>4. UNCHANGED vars => ppc' = ppc /\ ptoken' = ptoken /\ pgen' = pgen
  BY DEF vars, pubVars
<1> QED
  BY <1>1, <1>2, <1>3, <1>4, StepCases

\* The store and its lock change by the steps of a publisher.
LEMMA StoreWrites ==
  ASSUME [Next]_vars
  PROVE  \/ UNCHANGED storage
         \/ \E p \in Publishers :
              \/ TakeFence(p) \/ PrepareCollection(p) \/ VerifyBatch(p) \/ WriteBatch(p)
              \/ VerifyRecord(p) \/ EnsureIndexes(p) \/ StoreError(p) \/ CrashPublisher(p)
<1>1. ASSUME NEW p \in Publishers, PublisherStep(p) \/ PublisherStops(p)
      PROVE  \/ UNCHANGED storage
             \/ TakeFence(p) \/ PrepareCollection(p) \/ VerifyBatch(p) \/ WriteBatch(p)
             \/ VerifyRecord(p) \/ EnsureIndexes(p) \/ StoreError(p) \/ CrashPublisher(p)
  BY <1>1 DEF PublisherStep, EnsureRowSnapshot, EnsureRow, CollapseDuplicates,
     ClaimSnapshot, Claim, ClaimConflict, ReadBack, LastBatch, Confirm, ReadBeforeReady,
     FinishReady, CheckReady, FinishFailed, PublisherStatementFails, PublisherStops
<1>2. ASSUME NEW q \in Queriers, QueryStep(q) \/ QueryStops(q)
      PROVE  UNCHANGED storage
  BY <1>2 DEF QueryStep, ReadForQuery, InsertLeaseSnapshot, InsertLease, CheckHeld,
     ValidateAdmission, InspectCollection, SearchStore, QueryError, ValidateAnswer,
     ReleaseLease, CrashQuery, QueryStatementFails,
     QueryStops
<1>3. ASSUME NEW o \in Operators, RecoverStep(o) \/ CrashOperator(o)
      PROVE  UNCHANGED storage
  BY <1>3 DEF RecoverStep, ClearLeases, ReadMaxFence, DropRows, InsertRecovered,
     CrashOperator
<1>4. CASE UNCHANGED vars
  BY <1>4 DEF vars
<1> QED
  BY <1>1, <1>2, <1>3, <1>4, StepCases

LEMMA RowsStep ==
  ASSUME TypeOK, [Next]_vars, Election, RowsOK
  PROVE  RowsOK'
<1> SUFFICES ASSUME NEW r \in ledger'
             PROVE  /\ r.status = "ready" => r.owner = NoOne
                    /\ \A p \in Publishers : r.owner = p => r.config = pconfig'[p]
  BY DEF RowsOK
<1>1. CASE r \in ledger
  BY <1>1, ConfigsStay DEF RowsOK
<1>2. CASE r \notin ledger
  <2>1. \/ r.owner = NoOne
        \/ \E p \in Publishers : r.owner = p /\ r.config = pconfig[p] /\ r.status = "publishing"
    BY <1>2, RowSource, WrittenRows DEF Claimed
  <2> QED
    BY <2>1, ConfigsStay, SessionsAssumption DEF NoOne
<1> QED
  BY <1>1, <1>2

LEMMA FencedStep ==
  ASSUME TypeOK, [Next]_vars, Fenced
  PROVE  Fenced'
<1> SUFFICES ASSUME NEW p \in Publishers
             PROVE  lock' = p <=> ppc'[p] \in FencePoints
  BY DEF Fenced
<1>0. (lock = p <=> ppc[p] \in FencePoints) /\ p # NoOne
  BY SessionsAssumption DEF Fenced, NoOne
<1> USE DEF FencePoints, Acquiring, Finishing, storage, PGoto, TypeOK, PublisherEnds
<1>1. CASE PublisherStep(p) \/ PublisherStops(p)
  <2>1. CASE \/ EnsureRowSnapshot(p) \/ EnsureRow(p) \/ CollapseDuplicates(p)
             \/ ClaimSnapshot(p) \/ Claim(p) \/ ClaimConflict(p) \/ ReadBack(p)
             \/ TakeFence(p) \/ PrepareCollection(p) \/ VerifyBatch(p)
    BY <1>0, <2>1 DEF EnsureRowSnapshot, EnsureRow, CollapseDuplicates, ClaimSnapshot,
       Claim, ClaimConflict, ReadBack, TakeFence, PrepareCollection, VerifyBatch
  <2>2. CASE \/ WriteBatch(p) \/ VerifyRecord(p) \/ LastBatch(p) \/ EnsureIndexes(p)
             \/ StoreError(p) \/ Confirm(p) \/ ReadBeforeReady(p) \/ FinishReady(p)
             \/ CheckReady(p) \/ FinishFailed(p) \/ CrashPublisher(p)
    BY <1>0, <2>2 DEF WriteBatch, VerifyRecord, LastBatch, EnsureIndexes, StoreError,
       Confirm, ReadBeforeReady, FinishReady, CheckReady, FinishFailed, CrashPublisher
  <2>3. CASE PublisherStatementFails(p)
    BY <1>0, <2>3 DEF PublisherStatementFails
  <2> QED
    BY <1>1, <2>1, <2>2, <2>3 DEF PublisherStep, PublisherStops
<1>2. CASE ~(PublisherStep(p) \/ PublisherStops(p))
  <2>1. ppc'[p] = ppc[p]
    BY <1>2, PublisherMoves
  <2>2. ASSUME NEW w \in Publishers, w # p,
               \/ TakeFence(w) \/ PrepareCollection(w) \/ VerifyBatch(w) \/ WriteBatch(w)
               \/ VerifyRecord(w) \/ EnsureIndexes(w) \/ StoreError(w) \/ CrashPublisher(w)
        PROVE  lock' = p <=> lock = p
    <3>1. ppc[w] \in FencePoints => lock = w
      BY DEF Fenced
    <3> QED
      BY <1>0, <2>2, <3>1 DEF TakeFence, PrepareCollection, VerifyBatch, WriteBatch, Mutate,
         VerifyRecord, EnsureIndexes, StoreError, CrashPublisher, PublisherStatementFails,
         PublisherStops
  <2>3. UNCHANGED storage \/
        \E w \in Publishers : /\ w # p
                              /\ \/ TakeFence(w) \/ PrepareCollection(w) \/ VerifyBatch(w)
                                 \/ WriteBatch(w) \/ VerifyRecord(w) \/ EnsureIndexes(w)
                                 \/ StoreError(w) \/ CrashPublisher(w)
    BY <1>2, StoreWrites DEF PublisherStep, PublisherStops
  <2> QED
    BY <1>0, <2>1, <2>2, <2>3
<1> QED
  BY <1>1, <1>2

\* Without a recovery, a publisher has its claim from reading it back on.
LEMMA ClaimsKeptStep ==
  ASSUME Operators = {}, TypeOK, [Next]_vars, Election, ClaimsKept
  PROVE  ClaimsKept'
<1> SUFFICES ASSUME NEW p \in Publishers, ppc'[p] \in Authorized
             PROVE  Claimed(p)' # {}
  BY DEF ClaimsKept
<1> USE DEF Authorized, FencePoints, Completing
<1>1. CASE PublisherStep(p) \/ PublisherStops(p)
  <2>1. CASE ReadBack(p)
    <3>1. PICK r \in ledger : r.owner = p /\ ptoken' = [ptoken EXCEPT ![p] = r.token]
      BY <2>1 DEF ReadBack, PGoto, TypeOK
    <3>2. r \in ledger' /\ r.token = ptoken'[p]
      BY <2>1, <3>1 DEF ReadBack, tables, TypeOK
    <3> QED
      BY <3>1, <3>2 DEF Claimed
  <2>2. CASE ~ReadBack(p)
    <3>1. CASE \/ EnsureRowSnapshot(p) \/ EnsureRow(p) \/ CollapseDuplicates(p)
               \/ ClaimSnapshot(p) \/ Claim(p) \/ ClaimConflict(p)
      BY <3>1 DEF EnsureRowSnapshot, EnsureRow, CollapseDuplicates, ClaimSnapshot, Claim,
         ClaimConflict, PGoto, TypeOK
    <3>2. CASE FinishReady(p) \/ FinishFailed(p) \/ CheckReady(p) \/ PublisherStops(p)
      BY <3>2 DEF FinishReady, FinishFailed, CheckReady, CrashPublisher, PublisherStatementFails,
         PublisherStops, PGoto, TypeOK
    <3>3. CASE \/ TakeFence(p) \/ PrepareCollection(p) \/ VerifyBatch(p)
               \/ WriteBatch(p) \/ VerifyRecord(p) \/ LastBatch(p) \/ EnsureIndexes(p)
               \/ StoreError(p) \/ Confirm(p) \/ ReadBeforeReady(p)
      <4>1. ppc[p] \in Authorized /\ ledger' = ledger /\ ptoken' = ptoken
        BY <3>3 DEF TakeFence, PrepareCollection, VerifyBatch, WriteBatch, VerifyRecord,
           LastBatch, EnsureIndexes, StoreError, Confirm, ReadBeforeReady, tables
      <4> QED
        BY <4>1 DEF ClaimsKept, Claimed
    <3> QED
      BY <1>1, <2>2, <3>1, <3>2, <3>3 DEF PublisherStep
  <2> QED
    BY <2>1, <2>2
<1>2. CASE ~(PublisherStep(p) \/ PublisherStops(p))
  <2>1. PICK r \in Claimed(p) : TRUE
    BY <1>2, PublisherMoves DEF ClaimsKept
  <2>2. ASSUME NEW w \in Publishers, PublisherStep(w) \/ PublisherStops(w)
        PROVE  Claimed(p)' # {}
    BY <1>2, <2>1, <2>2, OthersKeepClaim
  <2>3. ASSUME NEW w \in Publishers, \/ EnsureRow(w) \/ CollapseDuplicates(w) \/ Claim(w)
                                     \/ FinishReady(w) \/ FinishFailed(w)
        PROVE  PublisherStep(w)
    BY <2>3 DEF PublisherStep
  <2>4. CASE ledger' = ledger
    <3>1. ptoken'[p] = ptoken[p]
      BY <1>2, PublisherMoves
    <3> QED
      BY <2>1, <2>4, <3>1 DEF Claimed
  <2> QED
    BY <2>2, <2>3, <2>4, LedgerWrites
<1> QED
  BY <1>1, <1>2

\* After it read its claim back, a publisher's claim can only be lost.
LEMMA ClaimedShrinks ==
  ASSUME TypeOK, [Next]_vars, Election, NEW p \in Publishers,
         ppc[p] \notin {"claim", "claiming", "readback"}
  PROVE  Claimed(p)' \subseteq Claimed(p)
<1>1. ptoken'[p] = ptoken[p]
  <2>1. CASE PublisherStep(p) \/ PublisherStops(p)
    BY <2>1 DEF PublisherStep, EnsureRowSnapshot, EnsureRow, CollapseDuplicates,
       ClaimSnapshot, Claim, ClaimConflict, ReadBack, TakeFence, PrepareCollection,
       VerifyBatch, WriteBatch, VerifyRecord, LastBatch, EnsureIndexes, StoreError,
       Confirm, ReadBeforeReady, FinishReady, CheckReady, FinishFailed, CrashPublisher, PublisherStatementFails,
       PublisherStops
  <2> QED
    BY <2>1, PublisherMoves
<1>2. SUFFICES ASSUME NEW r \in ledger', r.owner = p, r \notin ledger PROVE FALSE
  BY <1>1 DEF Claimed
<1>3. r.owner # NoOne
  BY <1>2, SessionsAssumption DEF NoOne
<1>4. PICK w \in Publishers : Claim(w) /\ \E x \in ledger : r = ClaimedRow(w, x)
  BY <1>2, <1>3, RowSource, WrittenRows DEF Claimed
<1>5. Claim(p)
  BY <1>2, <1>4, WrittenRows
<1> QED
  BY <1>5 DEF Claim

\* Only indexing makes a publisher one that may still finish ready.
LEMMA StandingStarts ==
  ASSUME TypeOK, [Next]_vars, Election, NEW p \in Publishers, Standing(p)', ~Standing(p)
  PROVE  EnsureIndexes(p)
<1> USE DEF Standing, Completing
<1>1. CASE ppc[p] \in Completing
  <2>1. Claimed(p)' \subseteq Claimed(p)
    BY <1>1, ClaimedShrinks
  <2> QED
    BY <1>1, <2>1
<1>2. CASE ppc[p] \notin Completing
  <2>1. PublisherStep(p) \/ PublisherStops(p)
    BY <1>2, PublisherMoves
  <2>2. CASE \/ EnsureRowSnapshot(p) \/ EnsureRow(p) \/ CollapseDuplicates(p)
             \/ ClaimSnapshot(p) \/ Claim(p) \/ ClaimConflict(p) \/ ReadBack(p)
             \/ TakeFence(p) \/ PrepareCollection(p) \/ VerifyBatch(p)
    BY <2>2 DEF EnsureRowSnapshot, EnsureRow, CollapseDuplicates, ClaimSnapshot,
       Claim, ClaimConflict, ReadBack, TakeFence, PrepareCollection, VerifyBatch, PGoto, TypeOK
  <2>3. CASE \/ WriteBatch(p) \/ VerifyRecord(p) \/ LastBatch(p)
             \/ StoreError(p) \/ Confirm(p) \/ ReadBeforeReady(p) \/ FinishReady(p)
             \/ CheckReady(p) \/ FinishFailed(p) \/ PublisherStops(p)
    BY <1>2, <2>3 DEF WriteBatch, VerifyRecord, LastBatch, StoreError,
       Confirm, ReadBeforeReady, FinishReady, CheckReady, FinishFailed,
       CrashPublisher, PublisherStatementFails,
       PublisherStops, PGoto, TypeOK
  <2> QED
    BY <2>1, <2>2, <2>3 DEF PublisherStep
<1> QED
  BY <1>1, <1>2

\* A row becomes ready by a publisher that stood, and keeps what it indexed.
LEMMA ReadyStarts ==
  ASSUME TypeOK, [Next]_vars, Election, RowsOK, NEW r \in ledger', r.status = "ready", r \notin ledger
  PROVE  \E p \in Publishers : /\ FinishReady(p) /\ Standing(p)
                               /\ r.generation = pgen[p] /\ r.config = pconfig[p]
<1>1. PICK p \in Publishers : FinishReady(p) /\ \E x \in Claimed(p) : r = LeftRow(x, "ready", pgen[p])
  BY RowSource, WrittenRows DEF Claimed
<1>2. PICK x \in Claimed(p) : r = LeftRow(x, "ready", pgen[p])
  BY <1>1
<1>3. x \in ledger /\ x.config = pconfig[p]
  BY DEF Claimed, RowsOK
<1> QED
  BY <1>1, <1>2, <1>3, WrittenRows DEF Standing, Completing, FinishReady

LEMMA QuietStays ==
  ASSUME TypeOK, [Next]_vars, Election, RowsOK, Quiet, \A p \in Publishers : ~EnsureIndexes(p)
  PROVE  Quiet'
<1>1. \A p \in Publishers : ~Standing(p)'
  BY StandingStarts DEF Quiet
<1>2. \A r \in ledger' : r.status # "ready"
  BY ReadyStarts DEF Quiet
<1> QED
  BY <1>1, <1>2 DEF Quiet

\* The publisher that holds the only claim finds nothing ready, and nobody else
\* about to make something ready.
LEMMA AloneIsQuiet ==
  ASSUME TypeOK, Election, RowsOK, Tokens, NEW p \in Publishers, Claimed(p) # {},
         ppc[p] \notin Completing
  PROVE  Quiet
<1>0. p # NoOne
  BY SessionsAssumption DEF NoOne
<1>1. PICK c \in ledger : c.owner = p
  BY DEF Claimed
<1>2. c.token > 0
  BY <1>0, <1>1 DEF Tokens, TypeOK, Row
<1>3. \A r \in ledger : r.status # "ready"
  <2> SUFFICES ASSUME NEW r \in ledger, r.status = "ready" PROVE FALSE
    OBVIOUS
  <2>1. r.token > 0
    BY DEF Tokens, TypeOK, Row
  <2>2. r = c
    BY <1>2, <2>1 DEF Tokens
  <2> QED
    BY <1>0, <1>1, <2>2 DEF RowsOK
<1>4. ASSUME NEW w \in Publishers, Standing(w) PROVE FALSE
  <2>1. PICK d \in ledger : d.owner = w
    BY <1>4 DEF Standing, Claimed
  <2>2. d = c
    BY <1>0, <1>1, <2>1, SessionsAssumption DEF NoOne, Election, OneOwner
  <2> QED
    BY <1>1, <1>4, <2>1, <2>2 DEF Standing
<1> QED
  BY <1>3, <1>4 DEF Quiet

\* The store changes only while nothing is ready or about to be.
LEMMA MutatesQuiet ==
  ASSUME Operators = {} \/ Widenings = {}, TypeOK, [Next]_vars, Election, RowsOK, StoreOK,
         Operators = {} => Tokens /\ ClaimsKept, store' # store
  PROVE  Quiet
<1>1. ASSUME NEW p \in Publishers, PrepareCollection(p), store' # store PROVE Quiet
  <2>1. ppc[p] = "prepare" /\ Widenings # {}
    BY <1>1 DEF PrepareCollection, storage
  <2>2. Claimed(p) # {} /\ Tokens /\ ppc[p] \notin Completing
    BY <2>1 DEF ClaimsKept, Authorized, FencePoints, Completing
  <2> QED
    BY <2>2, AloneIsQuiet
<1>2. ASSUME NEW p \in Publishers, WriteBatch(p) \/ EnsureIndexes(p) PROVE Quiet
  BY <1>2 DEF WriteBatch, EnsureIndexes, StoreOK
<1>3. ASSUME NEW p \in Publishers, \/ TakeFence(p) \/ VerifyBatch(p) \/ VerifyRecord(p)
                                   \/ StoreError(p) \/ CrashPublisher(p)
      PROVE  FALSE
  BY <1>3 DEF TakeFence, VerifyBatch, VerifyRecord, StoreError, CrashPublisher, PublisherStatementFails,
     PublisherStops
<1> QED
  BY <1>1, <1>2, <1>3, StoreWrites DEF storage

LEMMA StoreStep ==
  ASSUME Operators = {} \/ Widenings = {}, TypeOK, [Next]_vars, Election, RowsOK, Fenced,
         Operators = {} => Tokens /\ ClaimsKept, StoreOK
  PROVE  StoreOK'
<1> USE DEF storage
<1>0. store' # store => Quiet
  BY MutatesQuiet
<1>1. ~store'.indexed => Quiet'
  <2>1. CASE \E p \in Publishers : EnsureIndexes(p)
    BY <2>1 DEF EnsureIndexes, Mutate
  <2>2. CASE \A p \in Publishers : ~EnsureIndexes(p)
    BY <1>0, <2>2, QuietStays DEF StoreOK
  <2> QED
    BY <2>1, <2>2
<1>2. ASSUME NEW p \in Publishers, ppc'[p] = "write" PROVE Quiet'
  <2>1. CASE ppc[p] = "write"
    <3>1. ASSUME NEW w \in Publishers PROVE ~EnsureIndexes(w)
      <4>1. ppc[w] = "index" => w = lock
        BY DEF Fenced, FencePoints
      <4>2. lock = p
        BY <2>1 DEF Fenced, FencePoints
      <4> QED
        BY <2>1, <4>1, <4>2 DEF EnsureIndexes
    <3> QED
      BY <2>1, <3>1, QuietStays DEF StoreOK
  <2>2. CASE ppc[p] # "write"
    <3>1. PublisherStep(p) \/ PublisherStops(p)
      BY <1>2, <2>2, PublisherMoves
    <3>2. CASE \/ EnsureRowSnapshot(p) \/ EnsureRow(p) \/ CollapseDuplicates(p)
               \/ ClaimSnapshot(p) \/ Claim(p) \/ ClaimConflict(p) \/ ReadBack(p)
               \/ TakeFence(p) \/ PrepareCollection(p)
      BY <1>2, <2>2, <3>2 DEF EnsureRowSnapshot, EnsureRow, CollapseDuplicates,
         ClaimSnapshot, Claim, ClaimConflict, ReadBack, TakeFence, PrepareCollection,
         PGoto, TypeOK
    <3>3. CASE \/ WriteBatch(p) \/ VerifyRecord(p) \/ LastBatch(p) \/ EnsureIndexes(p)
               \/ StoreError(p) \/ Confirm(p) \/ ReadBeforeReady(p) \/ FinishReady(p)
               \/ CheckReady(p) \/ FinishFailed(p) \/ PublisherStops(p)
      BY <1>2, <2>2, <3>3 DEF WriteBatch, VerifyRecord, LastBatch, EnsureIndexes,
         StoreError, Confirm, ReadBeforeReady, FinishReady, CheckReady, FinishFailed,
         CrashPublisher, PublisherStatementFails,
         PublisherStops, PGoto, TypeOK
    <3>4. CASE VerifyBatch(p)
      <4>1. Holds(p) /\ ledger' = ledger
        BY <1>2, <3>4 DEF VerifyBatch, PGoto, TypeOK, tables
      <4>2. PICK r : ledger' = {r} /\ r.owner = p
        BY <4>1 DEF Holds, Claimed, IsRow
      <4>3. \A w \in Publishers : ~Standing(w)'
        BY <1>2, <4>2 DEF Standing, Claimed, Completing
      <4>4. p # NoOne /\ r \in ledger
        BY <4>1, <4>2, SessionsAssumption DEF NoOne
      <4> QED
        BY <4>2, <4>3, <4>4 DEF Quiet, RowsOK
    <3> QED
      BY <3>1, <3>2, <3>3, <3>4 DEF PublisherStep
  <2> QED
    BY <2>1, <2>2
<1>3. ASSUME NEW p \in Publishers, Standing(p)'
      PROVE  store'.version = pgen'[p] /\ store'.config = pconfig'[p]
  <2>1. CASE Standing(p)
    <3>1. store' = store
      BY <1>0, <2>1 DEF Quiet
    <3>2. pgen'[p] = pgen[p]
      <4>1. CASE PublisherStep(p) \/ PublisherStops(p)
        BY <2>1, <4>1 DEF Standing, Completing, PublisherStep, EnsureRowSnapshot, EnsureRow,
           CollapseDuplicates, ClaimSnapshot, Claim, ClaimConflict, ReadBack, TakeFence,
           PrepareCollection, VerifyBatch, WriteBatch, VerifyRecord, LastBatch, EnsureIndexes,
           StoreError, Confirm, ReadBeforeReady, FinishReady, CheckReady, FinishFailed,
           CrashPublisher, PublisherStatementFails,
           PublisherStops
      <4> QED
        BY <4>1, PublisherMoves
    <3> QED
      BY <2>1, <3>1, <3>2, ConfigsStay DEF StoreOK
  <2>2. CASE ~Standing(p)
    <3>1. EnsureIndexes(p)
      BY <1>3, <2>2, StandingStarts
    <3>2. store.config = pconfig[p]
      BY <3>1 DEF EnsureIndexes, StoreOK, FencePoints
    <3> QED
      BY <3>1, <3>2, ConfigsStay DEF EnsureIndexes, Mutate, TypeOK
  <2> QED
    BY <2>1, <2>2
<1>4. ASSUME NEW p \in Publishers
      PROVE  /\ ppc'[p] \in FencePoints \ {"prepare"} =>
                   store'.version = NoGeneration \/ store'.config = pconfig'[p]
             /\ ppc'[p] = "index" => store'.version # NoGeneration
  <2>1. CASE PublisherStep(p) \/ PublisherStops(p)
    <3>1. CASE \/ EnsureRowSnapshot(p) \/ EnsureRow(p) \/ CollapseDuplicates(p)
               \/ ClaimSnapshot(p) \/ Claim(p) \/ ClaimConflict(p) \/ ReadBack(p)
               \/ TakeFence(p) \/ PrepareCollection(p) \/ VerifyBatch(p)
      BY <3>1, ConfigsStay DEF EnsureRowSnapshot, EnsureRow, CollapseDuplicates, ClaimSnapshot,
         Claim, ClaimConflict, ReadBack, TakeFence, PrepareCollection, VerifyBatch, PGoto,
         TypeOK, FencePoints, StoreOK, Mutate
    <3>2. CASE \/ WriteBatch(p) \/ VerifyRecord(p) \/ LastBatch(p) \/ EnsureIndexes(p)
               \/ StoreError(p) \/ Confirm(p) \/ ReadBeforeReady(p) \/ FinishReady(p)
               \/ CheckReady(p) \/ FinishFailed(p) \/ PublisherStops(p)
      BY <3>2, ConfigsStay DEF WriteBatch, VerifyRecord, LastBatch, EnsureIndexes, StoreError,
         Confirm, ReadBeforeReady, FinishReady, CheckReady, FinishFailed, CrashPublisher, PublisherStatementFails,
         PublisherStops,
         PGoto, TypeOK, FencePoints, StoreOK, Mutate
    <3> QED
      BY <2>1, <3>1, <3>2 DEF PublisherStep
  <2>2. CASE ~(PublisherStep(p) \/ PublisherStops(p)) /\ ppc'[p] \in FencePoints
    <3>1. ppc'[p] = ppc[p] /\ lock = p
      BY <2>2, PublisherMoves DEF Fenced
    <3>2. ASSUME NEW w \in Publishers, w # p PROVE ppc[w] \notin FencePoints
      BY <3>1, <3>2 DEF Fenced
    <3>3. store' = store
      <4>1. CASE UNCHANGED storage
        BY <4>1 DEF storage
      <4>2. ASSUME NEW w \in Publishers, TakeFence(w) \/ VerifyBatch(w) \/ VerifyRecord(w)
                                          \/ StoreError(w) \/ CrashPublisher(w)
            PROVE  store' = store
        BY <4>2 DEF TakeFence, VerifyBatch, VerifyRecord, StoreError, CrashPublisher, PublisherStatementFails,
           PublisherStops
      <4>3. ASSUME NEW w \in Publishers, PrepareCollection(w) \/ WriteBatch(w) \/ EnsureIndexes(w)
            PROVE  FALSE
        <5>1. ppc[w] \in FencePoints
          BY <4>3 DEF PrepareCollection, WriteBatch, EnsureIndexes, FencePoints
        <5>2. w = p
          BY <3>2, <5>1
        <5> QED
          BY <2>2, <4>3, <5>2 DEF PublisherStep
      <4> QED
        BY <4>1, <4>2, <4>3, StoreWrites
    <3> QED
      BY <3>1, <3>3, ConfigsStay DEF StoreOK
  <2>3. CASE ppc'[p] \notin FencePoints
    BY <2>3 DEF FencePoints
  <2> QED
    BY <2>1, <2>2, <2>3
<1>5. ASSUME NEW r \in ledger', r.status = "ready"
      PROVE  store'.version = r.generation /\ store'.config = r.config
  <2>1. ~Quiet
    BY <1>5, ReadyStarts DEF Quiet
  <2>2. store' = store
    BY <1>0, <2>1
  <2> QED
    BY <1>5, <2>2, ReadyStarts DEF StoreOK
<1> QED
  BY <1>1, <1>2, <1>3, <1>4, <1>5 DEF StoreOK

\* A version is never taken back.
LEMMA VersionsRise == TypeOK /\ [Next]_vars => store'.version >= store.version
<1> SUFFICES ASSUME TypeOK, [Next]_vars PROVE store'.version >= store.version
  OBVIOUS
<1>1. store.version \in Nat
  BY DEF TypeOK
<1>2. ASSUME NEW p \in Publishers, PrepareCollection(p) \/ WriteBatch(p) \/ EnsureIndexes(p)
      PROVE  store'.version >= store.version
  BY <1>1, <1>2 DEF PrepareCollection, WriteBatch, EnsureIndexes, Mutate, storage
<1>3. ASSUME NEW p \in Publishers, \/ TakeFence(p) \/ VerifyBatch(p) \/ VerifyRecord(p)
                                   \/ StoreError(p) \/ CrashPublisher(p)
      PROVE  store' = store
  BY <1>3 DEF TakeFence, VerifyBatch, VerifyRecord, StoreError, CrashPublisher, PublisherStatementFails,
     PublisherStops
<1> QED
  BY <1>1, <1>2, <1>3, StoreWrites DEF storage

\* What a query has read lies between the version it pinned and the present one,
\* and an answer was read at the version it pinned.
AnswersOK ==
    \A q \in Queriers :
        /\ qpc[q] \in {"start", "insert", "inserting", "held", "admit", "inspect"} => qseen[q] = {}
        /\ qpc[q] \in {"search", "recheck"} =>
              /\ qpin[q].config = qconfig[q]
              /\ qpin[q].generation <= store.version
              /\ \A v \in qseen[q] : qpin[q].generation <= v /\ v <= store.version
        /\ qpc[q] = "recheck" => qseen[q] # {}
        /\ qpc[q] \in {"answering", "answered"} =>
              /\ qseen[q] = {qpin[q].generation}
              /\ qpin[q].config = qconfig[q]

\* A query's step leaves the store and the other queries as they are.
LEMMA OthersAnswer ==
  ASSUME TypeOK, [Next]_vars, NEW q \in Queriers, ~(QueryStep(q) \/ QueryStops(q))
  PROVE  qpc'[q] = qpc[q] /\ qpin'[q] = qpin[q] /\ qseen'[q] = qseen[q]
<1>1. ASSUME NEW p \in Publishers, PublisherStep(p) \/ PublisherStops(p)
      PROVE  qpc' = qpc /\ qpin' = qpin /\ qseen' = qseen
  BY <1>1 DEF PublisherStep, EnsureRowSnapshot, EnsureRow, CollapseDuplicates,
     ClaimSnapshot, Claim, ClaimConflict, ReadBack, TakeFence, PrepareCollection,
     VerifyBatch, WriteBatch, VerifyRecord, LastBatch, EnsureIndexes, StoreError,
     Confirm, ReadBeforeReady, FinishReady, CheckReady, FinishFailed, CrashPublisher, PublisherStatementFails,
     PublisherStops, qryVars
<1>2. ASSUME NEW w \in Queriers, QueryStep(w) \/ QueryStops(w), w # q
      PROVE  qpc'[q] = qpc[q] /\ qpin'[q] = qpin[q] /\ qseen'[q] = qseen[q]
  BY <1>2 DEF QueryStep, ReadForQuery, InsertLeaseSnapshot, InsertLease, CheckHeld,
     ValidateAdmission, InspectCollection, SearchStore, QueryError, ValidateAnswer,
     ReleaseLease, CrashQuery, QueryStatementFails,
     QueryStops, QGoto, TypeOK
<1>3. ASSUME NEW o \in Operators, RecoverStep(o) \/ CrashOperator(o)
      PROVE  qpc' = qpc /\ qpin' = qpin /\ qseen' = qseen
  BY <1>3 DEF RecoverStep, ClearLeases, ReadMaxFence, DropRows, InsertRecovered,
     CrashOperator, qryVars
<1>4. UNCHANGED vars => qpc' = qpc /\ qpin' = qpin /\ qseen' = qseen
  BY DEF vars, qryVars
<1> QED
  BY <1>1, <1>2, <1>3, <1>4, StepCases

LEMMA AnswersStep ==
  ASSUME TypeOK, [Next]_vars, StoreOK, AnswersOK
  PROVE  AnswersOK'
<1> SUFFICES ASSUME NEW q \in Queriers
    PROVE  /\ qpc'[q] \in {"start", "insert", "inserting", "held", "admit", "inspect"} => qseen'[q] = {}
           /\ qpc'[q] \in {"search", "recheck"} =>
                 /\ qpin'[q].config = qconfig'[q]
                 /\ qpin'[q].generation <= store'.version
                 /\ \A v \in qseen'[q] : qpin'[q].generation <= v /\ v <= store'.version
           /\ qpc'[q] = "recheck" => qseen'[q] # {}
           /\ qpc'[q] \in {"answering", "answered"} =>
                 /\ qseen'[q] = {qpin'[q].generation}
                 /\ qpin'[q].config = qconfig'[q]
  BY DEF AnswersOK
<1>0. /\ store.version \in Nat /\ qpin[q].generation \in Nat
      /\ \A v \in qseen[q] : v \in Nat
  BY DEF TypeOK, Pin
<1>1. CASE ~(QueryStep(q) \/ QueryStops(q))
  <2>1. qpc'[q] = qpc[q] /\ qpin'[q] = qpin[q] /\ qseen'[q] = qseen[q]
    BY <1>1, OthersAnswer
  <2>2. store'.version >= store.version /\ store'.version \in Nat
    <3>1. TypeOK'
      BY StepCases, TypeOKPublisher, TypeOKQuery, TypeOKOperator, TypeOKStutter
    <3> QED
      BY <3>1, VersionsRise DEF TypeOK
  <2> QED
    BY <1>0, <2>1, <2>2, ConfigsStay DEF AnswersOK
<1>2. CASE QueryStep(q) \/ QueryStops(q)
  <2> USE DEF AnswersOK
  <2>0. store' = store /\ qconfig' = qconfig /\ ledger' = ledger
    BY <1>2 DEF QueryStep, ReadForQuery, InsertLeaseSnapshot, InsertLease, CheckHeld,
       ValidateAdmission, InspectCollection, SearchStore, QueryError, ValidateAnswer,
       ReleaseLease, CrashQuery, QueryStatementFails,
       QueryStops, storage, tables
  <2>1. CASE ReadForQuery(q) \/ InsertLeaseSnapshot(q) \/ InsertLease(q) \/ CheckHeld(q)
    BY <2>1 DEF ReadForQuery, InsertLeaseSnapshot, InsertLease, CheckHeld, QGoto, TypeOK
  <2>2. CASE ValidateAdmission(q) \/ QueryError(q) \/ QueryStops(q)
    BY <2>2 DEF ValidateAdmission, QueryError, CrashQuery, QueryStatementFails,
       QueryStops, QueryEnds, QGoto, TypeOK
  <2>3. CASE InspectCollection(q)
    BY <1>0, <2>0, <2>3 DEF InspectCollection, ExpectedCollection, QGoto, TypeOK
  <2>4. CASE SearchStore(q)
    BY <1>0, <2>0, <2>4 DEF SearchStore, QGoto, TypeOK
  <2>5. CASE ValidateAnswer(q)
    <3>1. StillValid(q) => store.version = qpin[q].generation
      BY DEF StillValid, IsRow, Valid, StoreOK
    <3>2. /\ qpc[q] = "recheck" /\ qpin' = qpin /\ qseen' = qseen
          /\ qpc'[q] = IF StillValid(q) THEN "answering" ELSE "refusing"
      BY <2>5 DEF ValidateAnswer, QGoto, TypeOK
    <3>3. StillValid(q) => \A v \in qseen[q] : v = qpin[q].generation
      BY <1>0, <3>1, <3>2
    <3> QED
      BY <2>0, <3>2, <3>3
  <2>6. CASE ReleaseLease(q)
    BY <2>0, <2>6 DEF ReleaseLease, QGoto, TypeOK
  <2> QED
    BY <1>2, <2>1, <2>2, <2>3, <2>4, <2>5, <2>6 DEF QueryStep
<1> QED
  BY <1>1, <1>2

LEMMA ServingInit ==
  Init => RowsOK /\ Fenced /\ ClaimsKept /\ StoreOK /\ AnswersOK
<1> SUFFICES ASSUME Init PROVE RowsOK /\ Fenced /\ ClaimsKept /\ StoreOK /\ AnswersOK
  OBVIOUS
<1>1. \A p \in Publishers : ppc[p] = "start" /\ lock # p
  BY SessionsAssumption DEF Init, NoOne
<1>2. \A p \in Publishers : ~Standing(p)
  BY <1>1 DEF Standing, Completing
<1> QED
  BY <1>1, <1>2 DEF Init, RowsOK, Fenced, ClaimsKept, StoreOK, AnswersOK, Quiet, Authorized,
     FencePoints, Completing

\* ReadyIsAnswered: what the ledger calls ready is what the store holds, and an
\* answer was read wholly from the generation its query pinned.  It holds with
\* serializing and with snapshot statements, with crashes, and with recoveries at
\* any moment, unless a widening may meet a recovery.
THEOREM AnswersAreReady ==
  ASSUME Operators = {} \/ Widenings = {}
  PROVE  Spec => []ReadyIsAnswered
<1>1. TypeOK /\ Election /\ [Next]_vars /\ Tokens /\ Operators = {} => Tokens'
  BY TokensStep
<1>2. TypeOK /\ Election /\ [Next]_vars /\ ClaimsKept /\ Operators = {} => ClaimsKept'
  BY ClaimsKeptStep
<1> DEFINE Kept == Operators = {} => Tokens /\ ClaimsKept
           Inv == RowsOK /\ Fenced /\ Kept /\ StoreOK /\ AnswersOK
<1>3. Init => Inv
  BY TokensInit, ServingInit
<1>4. TypeOK /\ Election /\ Inv /\ [Next]_vars => Inv'
  <2> SUFFICES ASSUME TypeOK, Election, Inv, [Next]_vars PROVE Inv'
    OBVIOUS
  <2>1. RowsOK' /\ Fenced'
    BY RowsStep, FencedStep
  <2>2. Kept'
    BY <1>1, <1>2
  <2>3. StoreOK'
    BY StoreStep
  <2>4. AnswersOK'
    BY AnswersStep
  <2> QED
    BY <2>1, <2>2, <2>3, <2>4
<1>5. Inv => ReadyIsAnswered
  BY DEF StoreOK, AnswersOK, ReadyIsAnswered, ReadyIsStored, AnswersPinned
<1> QED
  BY TypeOKInit, ElectionInit, TypeCorrect, ElectionStep, <1>3, <1>4, <1>5, PTL DEF Spec

-----------------------------------------------------------------------------
(* With serializing statements the ledger and the leases implement the     *)
(* readers-writer lock of ServingScope, step by step.  The mapping names   *)
(* the owner and the served generation by a choice among rows, so it needs *)
(* that at most one row is owned or ready.                                 *)

Live(r) == r.owner # NoOne \/ r.status = "ready"
OneLive == \A r, s \in ledger : Live(r) /\ Live(s) => r = s

\* What a reader of the store can name is a version it may have.
Versions ==
    /\ store.version \in 0..MaxVersion
    /\ \A p \in Publishers : pgen[p] \in 0..MaxVersion
    /\ \A r \in ledger : r.generation \in 0..MaxVersion
\* A query that asks for a lease has read a ready row.
PinsNamed == \A q \in Queriers : qpc[q] = "insert" => qpin[q].generation # NoGeneration

LEMMA OneLiveStep ==
  ASSUME TypeOK, [Next]_vars, Election, RowsOK, NothingPending, OneLive
  PROVE  OneLive'
<1> USE DEF Live
<1>1. ASSUME NEW p \in Publishers, Claim(p) PROVE OneLive'
  BY <1>1, ClaimEffect DEF NothingPending, OneLive, Claimable, IsRow
<1>2. ASSUME NEW p \in Publishers, NEW status, NEW generation,
             ledger' = Finished(p, status, generation)
      PROVE  OneLive'
  <2>1. ledger' = (ledger \ Claimed(p)) \cup {LeftRow(x, status, generation) : x \in Claimed(p)}
    BY <1>2 DEF Finished, LeftRow
  <2>2. \A x \in Claimed(p) : x \in ledger /\ x.owner # NoOne
    BY SessionsAssumption DEF Claimed, NoOne
  <2>3. \A x, y \in Claimed(p) : x = y
    BY <2>2 DEF OneLive
  <2>4. \A r \in ledger : \A x \in Claimed(p) : Live(r) => r = x
    BY <2>2 DEF OneLive
  <2> QED
    BY <2>1, <2>2, <2>3, <2>4 DEF OneLive
<1>3. ASSUME NEW p \in Publishers, FinishReady(p) \/ FinishFailed(p) PROVE OneLive'
  BY <1>2, <1>3 DEF FinishReady, FinishFailed
<1>4. ASSUME \A r \in ledger' : r \in ledger \/ ~Live(r) PROVE OneLive'
  BY <1>4 DEF OneLive
<1>5. ASSUME NEW p \in Publishers, EnsureRow(p) \/ CollapseDuplicates(p) PROVE OneLive'
  <2>1. ~Live(FreshRow(p))
    BY WrittenRows
  <2> QED
    BY <1>4, <1>5, <2>1 DEF EnsureRow, CollapseDuplicates
<1>6. ASSUME NEW o \in Operators, DropRows(o) \/ InsertRecovered(o) PROVE OneLive'
  <2>1. ~Live(RecoveredRow(o))
    BY WrittenRows
  <2> QED
    BY <1>4, <1>6, <2>1 DEF DropRows, InsertRecovered
<1> QED
  BY <1>1, <1>3, <1>4, <1>5, <1>6, LedgerWrites

LEMMA VersionsStep ==
  ASSUME TypeOK, [Next]_vars, Election, Versions
  PROVE  Versions'
<1>0. MaxVersion \in Nat /\ store.version \in Nat
  BY BoundAssumption DEF TypeOK
<1>1. store'.version \in 0..MaxVersion
  <2>1. ASSUME NEW p \in Publishers, PrepareCollection(p) \/ WriteBatch(p) \/ EnsureIndexes(p)
        PROVE  store'.version \in 0..MaxVersion
    BY <1>0, <2>1 DEF PrepareCollection, WriteBatch, EnsureIndexes, Mutate, storage, Versions
  <2>2. ASSUME NEW p \in Publishers, \/ TakeFence(p) \/ VerifyBatch(p) \/ VerifyRecord(p)
                                     \/ StoreError(p) \/ CrashPublisher(p)
        PROVE  store' = store
    BY <2>2 DEF TakeFence, VerifyBatch, VerifyRecord, StoreError, CrashPublisher, PublisherStatementFails,
       PublisherStops
  <2> QED
    BY <2>1, <2>2, StoreWrites DEF storage, Versions
<1>2. ASSUME NEW p \in Publishers PROVE pgen'[p] \in 0..MaxVersion
  <2>1. CASE PublisherStep(p) \/ PublisherStops(p)
    <3>1. CASE EnsureIndexes(p)
      BY <1>1, <3>1 DEF EnsureIndexes, TypeOK
    <3>2. CASE ~EnsureIndexes(p)
      BY <2>1, <3>2 DEF PublisherStep, EnsureRowSnapshot, EnsureRow,
         CollapseDuplicates, ClaimSnapshot, Claim, ClaimConflict, ReadBack, TakeFence,
         PrepareCollection, VerifyBatch, WriteBatch, VerifyRecord, LastBatch,
         StoreError, Confirm, ReadBeforeReady, FinishReady, CheckReady, FinishFailed,
         CrashPublisher, PublisherStatementFails,
         PublisherStops, Versions
    <3> QED
      BY <3>1, <3>2
  <2> QED
    BY <2>1, PublisherMoves DEF Versions
<1>3. ASSUME NEW r \in ledger' PROVE r.generation \in 0..MaxVersion
  <2>1. CASE r \in ledger
    BY <2>1 DEF Versions
  <2>2. CASE r \notin ledger
    <3>1. \/ r.generation = NoGeneration
          \/ \E p \in Publishers : r.generation = pgen[p]
          \/ \E x \in ledger : r.generation = x.generation
      BY <2>2, RowSource, WrittenRows DEF Claimed
    <3> QED
      BY <1>0, <3>1 DEF Versions, NoGeneration
  <2> QED
    BY <2>1, <2>2
<1> QED
  BY <1>1, <1>2, <1>3 DEF Versions

LEMMA PinsNamedStep ==
  ASSUME TypeOK, [Next]_vars, PinsNamed
  PROVE  PinsNamed'
<1> SUFFICES ASSUME NEW q \in Queriers, qpc'[q] = "insert"
             PROVE  qpin'[q].generation # NoGeneration
  BY DEF PinsNamed
<1>1. CASE QueryStep(q) \/ QueryStops(q)
  <2>1. ReadForQuery(q)
    BY <1>1 DEF QueryStep, ReadForQuery, InsertLeaseSnapshot, InsertLease, CheckHeld,
       ValidateAdmission, InspectCollection, SearchStore, QueryError, ValidateAnswer,
       ReleaseLease, CrashQuery, QueryStatementFails,
       QueryStops, QGoto, TypeOK
  <2> QED
    BY <2>1 DEF ReadForQuery, QGoto, TypeOK
<1>2. CASE ~(QueryStep(q) \/ QueryStops(q))
  BY <1>2, OthersAnswer DEF PinsNamed
<1> QED
  BY <1>1, <1>2

\* The refinement mapping reads the one live row.
LEMMA OwnerOfLive ==
  ASSUME NEW rows
  PROVE  /\ (\A r \in rows : r.owner = NoOne) => OwnerOf(rows) = NoOne
         /\ \A r \in rows : (r.owner # NoOne /\ \A s \in rows : Live(s) => s = r)
                               => OwnerOf(rows) = r.owner
BY DEF OwnerOf, Live

LEMMA ServedFromLive ==
  ASSUME NEW rows
  PROVE  /\ (\A r \in rows : r.status # "ready") => ServedFrom(rows) = NoGeneration
         /\ \A r \in rows : (r.owner # NoOne /\ \A s \in rows : Live(s) => s = r)
                               => ServedFrom(rows) = NoGeneration
         /\ \A r \in rows :
               (r.status = "ready" /\ r.owner = NoOne /\ \A s \in rows : Live(s) => s = r)
                  => ServedFrom(rows) = r.generation
BY DEF ServedFrom, Live

\* A step that keeps the live row keeps what the mapping reads.
LEMMA SameViews ==
  ASSUME NEW rows, NEW others, \A r : Live(r) => (r \in rows <=> r \in others),
         \A r, s \in rows : Live(r) /\ Live(s) => r = s,
         \A r \in rows : r.status = "ready" => r.owner = NoOne
  PROVE  OwnerOf(others) = OwnerOf(rows) /\ ServedFrom(others) = ServedFrom(rows)
<1>1. CASE \E r \in rows : Live(r)
  <2>1. PICK r \in rows : Live(r)
    BY <1>1
  <2>2. r \in others /\ \A s \in rows \cup others : Live(s) => s = r
    BY <2>1
  <2>3. CASE r.owner # NoOne
    BY <2>1, <2>2, <2>3, OwnerOfLive, ServedFromLive
  <2>4. CASE r.owner = NoOne
    <3>1. r.status = "ready"
      BY <2>1, <2>4 DEF Live
    <3>2. \A s \in rows \cup others : s.owner = NoOne
      BY <2>2, <2>4 DEF Live
    <3> QED
      BY <2>1, <2>2, <2>4, <3>1, <3>2, OwnerOfLive, ServedFromLive
  <2> QED
    BY <2>3, <2>4
<1>2. CASE \A r \in rows : ~Live(r)
  <2>1. \A r \in rows \cup others : r.owner = NoOne /\ r.status # "ready"
    BY <1>2 DEF Live
  <2> QED
    BY <2>1, OwnerOfLive, ServedFromLive
<1> QED
  BY <1>1, <1>2


\* A step that writes the ledger claims, finishes or resets the scope, or is not
\* seen.
LEMMA LedgerRefines ==
  ASSUME TypeOK, [Next]_vars, Election, RowsOK, NothingPending, OneLive, OneLive', Versions',
         ledger' # ledger
  PROVE  Scope!Next \/ UNCHANGED Scope!vars
<1> USE DEF Scope!Next, Scope!vars, Scope!NoWriter, Scope!Unavailable, NoOne, NoGeneration
<1>1. ASSUME leases' = leases, \A r : Live(r) => (r \in ledger <=> r \in ledger')
      PROVE  UNCHANGED Scope!vars
  BY <1>1, SameViews DEF RowsOK, OneLive
<1>2. ASSUME NEW p \in Publishers, EnsureRow(p) PROVE UNCHANGED Scope!vars
  <2>1. ~Live(FreshRow(p))
    BY WrittenRows DEF Live
  <2> QED
    BY <1>1, <1>2, <2>1 DEF EnsureRow
<1>3. ASSUME NEW p \in Publishers, CollapseDuplicates(p) PROVE UNCHANGED Scope!vars
  BY <1>1, <1>3 DEF CollapseDuplicates, Live
<1>4. ASSUME NEW p \in Publishers, Claim(p) PROVE Scope!Next
  <2>1. PICK x \in Claimable : ledger' = (ledger \ {x}) \cup {ClaimedRow(p, x)}
    BY <1>4, ClaimEffect DEF NothingPending
  <2>2. ledger = {x} /\ x.owner = NoOne /\ leases = {} /\ leases' = leases
    BY <1>4, <2>1 DEF Claimable, IsRow, Claim
  <2>3. ledger' = {ClaimedRow(p, x)} /\ ClaimedRow(p, x).owner = p /\ p # NoOne
    BY <2>1, <2>2, WrittenRows, SessionsAssumption
  <2>4. OwnerOf(ledger) = NoOne
    BY <2>2, OwnerOfLive
  <2>5. OwnerOf(ledger') = p /\ ServedFrom(ledger') = NoGeneration
    BY <2>3, OwnerOfLive, ServedFromLive
  <2>6. Scope!Claim(p)
    BY <2>2, <2>4, <2>5 DEF Scope!Claim
  <2> QED
    BY <2>6
<1>5. ASSUME NEW p \in Publishers, NEW status, NEW generation, leases' = leases,
             ledger' = Finished(p, status, generation)
      PROVE  Scope!Next
  <2>1. ledger' = (ledger \ Claimed(p)) \cup {LeftRow(x, status, generation) : x \in Claimed(p)}
    BY <1>5 DEF Finished, LeftRow
  <2>2. PICK c \in ledger : c \in Claimed(p) /\ c.owner = p /\ p # NoOne
    BY <2>1, SessionsAssumption DEF Claimed
  <2>3. OwnerOf(ledger) = p
    BY <2>2, OwnerOfLive DEF OneLive, Live
  <2>4. \A r \in ledger' : r.owner = NoOne
    BY <2>1, <2>2, WrittenRows DEF Election, OneOwner, Claimed
  <2>5. OwnerOf(ledger') = NoOne
    BY <2>4, OwnerOfLive
  <2>6. ServedFrom(ledger') \in 0..MaxVersion
    <3>1. CASE \A r \in ledger' : r.status # "ready"
      BY <3>1, ServedFromLive, BoundAssumption
    <3>2. CASE \E r \in ledger' : r.status = "ready"
      BY <2>4, <3>2, ServedFromLive DEF OneLive, Live, Versions
    <3> QED
      BY <3>1, <3>2
  <2>7. Scope!Finish(p, ServedFrom(ledger'))
    BY <1>5, <2>3, <2>5 DEF Scope!Finish
  <2> QED
    BY <2>6, <2>7
<1>6. ASSUME NEW p \in Publishers, FinishReady(p) \/ FinishFailed(p) PROVE Scope!Next
  BY <1>5, <1>6 DEF FinishReady, FinishFailed
<1>7. ASSUME NEW o \in Operators, DropRows(o) PROVE Scope!Next
  <2>1. OwnerOf(ledger') = NoOne /\ ServedFrom(ledger') = NoGeneration /\ leases' = leases
    BY <1>7, OwnerOfLive, ServedFromLive DEF DropRows
  <2> QED
    BY <2>1 DEF Scope!Reset
<1>8. ASSUME NEW o \in Operators, InsertRecovered(o) PROVE UNCHANGED Scope!vars
  <2>1. ~Live(RecoveredRow(o))
    BY WrittenRows DEF Live
  <2> QED
    BY <1>1, <1>8, <2>1 DEF InsertRecovered
<1> QED
  BY <1>2, <1>3, <1>4, <1>6, <1>7, <1>8, LedgerWrites

\* A step that does not write the ledger admits or dismisses queries, or is not
\* seen.
LEMMA LeasesRefine ==
  ASSUME TypeOK, [Next]_vars, RowsOK, NothingPending, OneLive, PinsNamed, ledger' = ledger
  PROVE  Scope!Next \/ UNCHANGED Scope!vars
<1> USE DEF Scope!Next, Scope!vars, Scope!NoWriter, Scope!Unavailable, NoOne, NoGeneration
<1>1. ASSUME NEW q \in Queriers, InsertLease(q) PROVE Scope!Next \/ UNCHANGED Scope!vars
  <2>1. CASE leases' = leases
    BY <2>1
  <2>2. CASE leases' # leases
    <3>1. /\ leases' = leases \cup {[holder |-> q, pin |-> qpin[q]]}
          /\ qpc[q] = "insert" /\ LeaseAllowed(q)
      BY <1>1, <2>2 DEF InsertLease, NothingPending, TypeOK
    <3>2. PICK r \in ledger : Valid(r, qpin[q])
      BY <3>1 DEF LeaseAllowed
    <3>3. \A s \in ledger : Live(s) => s = r
      BY <3>2 DEF OneLive, Valid, Live
    <3>4. \A s \in ledger : s.owner = NoOne
      BY <3>2, <3>3 DEF Valid, Live
    <3>5. OwnerOf(ledger) = NoOne
      BY <3>4, OwnerOfLive
    <3>6. ServedFrom(ledger) = qpin[q].generation /\ qpin[q].generation # 0
      BY <3>1, <3>2, <3>3, ServedFromLive DEF Valid, PinsNamed
    <3>7. {l.holder : l \in leases'} = {l.holder : l \in leases} \cup {q}
      <4> DEFINE new == [holder |-> q, pin |-> qpin[q]]
      <4>1. new.holder = q
        OBVIOUS
      <4> HIDE DEF new
      <4>2. leases' = leases \cup {new}
        BY <3>1 DEF new
      <4> QED
        BY <4>1, <4>2
    <3>8. Scope!Admit(q)
      BY <3>5, <3>6, <3>7 DEF Scope!Admit
    <3> QED
      BY <3>8
  <2> QED
    BY <2>1, <2>2
<1>2. ASSUME NEW q \in Queriers, ReleaseLease(q) PROVE Scope!Next
  <2>1. {l.holder : l \in leases'} = {l.holder : l \in leases} \ {q}
    BY <1>2 DEF ReleaseLease
  <2> QED
    BY <2>1 DEF Scope!Leave
<1>3. ASSUME NEW o \in Operators, ClearLeases(o) PROVE Scope!Next
  <2>1. {l.holder : l \in leases'} = {}
    BY <1>3 DEF ClearLeases
  <2> QED
    BY <2>1 DEF Scope!Dismiss
<1> QED
  BY <1>1, <1>2, <1>3, LeaseWrites

\* ImplementsScope: with serializing statements, whatever publishers, queries,
\* operators and crashes do, the tables behave as a readers-writer lock that only
\* a finishing publisher opens for queries.
THEOREM TablesAreALock ==
  ASSUME ~SnapshotDML
  PROVE  Spec => ImplementsScope
<1> DEFINE Inv == RowsOK /\ NothingPending /\ OneLive /\ Versions /\ PinsNamed
<1>1. Init => Inv
  BY BoundAssumption, NothingPendingInit
     DEF Init, RowsOK, OneLive, Versions, PinsNamed, NoGeneration
<1>2. TypeOK /\ Election /\ Inv /\ [Next]_vars => Inv'
  BY RowsStep, NothingPendingStep, OneLiveStep, VersionsStep, PinsNamedStep
<1>3. Init => Scope!Init
  <2> SUFFICES ASSUME Init PROVE Scope!Init
    OBVIOUS
  <2>1. OwnerOf({}) = NoOne /\ ServedFrom({}) = NoGeneration
    BY OwnerOfLive, ServedFromLive
  <2> QED
    BY <2>1 DEF Init, Scope!Init, Scope!NoWriter, Scope!Unavailable, NoOne, NoGeneration
<1>4. TypeOK /\ Election /\ Inv /\ Inv' /\ [Next]_vars => [Scope!Next]_(Scope!vars)
  BY LedgerRefines, LeasesRefine
<1> QED
  BY TypeOKInit, ElectionInit, TypeCorrect, ElectionStep, <1>1, <1>2, <1>3, <1>4, PTL
     DEF Spec, ImplementsScope, Scope!Spec
==============================================================================
