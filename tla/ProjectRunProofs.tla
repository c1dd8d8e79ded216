-------------------------- MODULE ProjectRunProofs --------------------------
(***************************************************************************)
(* Theorems about ProjectRun for every graph of models, every number of    *)
(* worker threads and every budget: type correctness, how far spending can *)
(* pass a cap, that parents come first, that tables are written whole, that*)
(* a failure blocks what is below it, that no more bytes are sent than the *)
(* cap allows, and that the ledgers agree with what the provider billed.   *)
(***************************************************************************)
EXTENDS ProjectRun, FiniteSetTheorems, TLAPS

Uses == Usages \cup {NoUse}
Charges == {"calls", "tokens"}

\* Documents are numbered, have sizes, and ledgers are those of models and run.
LEMMA ConstantFacts ==
  /\ \A m \in Models : m \in Nat /\ m # Run /\ m \in Ledgers
  /\ Run \in Ledgers
  /\ \A w \in Workers : Owner[w] \in Models
  /\ \A m \in Models : \A d \in DOMAIN Sizes[m] : d \in Nat /\ Sizes[m][d] \in Nat
  /\ \A u \in Uses, f \in Charges : u[f] \in Nat /\ MaxUse[f] \in Nat /\ u[f] <= MaxUse[f]
  /\ \A l \in Ledgers, f \in Charges : Cap[l][f] = NoCap \/ Cap[l][f] \in Nat \ {0}
<1>1. \A m \in Models : \A d \in DOMAIN Sizes[m] : d \in Nat /\ Sizes[m][d] \in Nat
  BY SizesAssumption
<1>2. ASSUME NEW u \in Uses, NEW f \in Charges
      PROVE  u[f] \in Nat /\ MaxUse[f] \in Nat /\ u[f] <= MaxUse[f]
  BY <1>2, UsageAssumption DEF Uses, Charges, NoUse
<1>3. \A l \in Ledgers, f \in Charges : Cap[l][f] = NoCap \/ Cap[l][f] \in Nat \ {0}
  BY CapAssumption DEF Charges, Fields
<1> QED
  BY <1>1, <1>2, <1>3, ModelsAssumption, WorkersAssumption DEF Ledgers, Run

-----------------------------------------------------------------------------
(* Types.                                                                  *)

LEMMA TypeInit == Init => TypeOK
<1> SUFFICES ASSUME Init PROVE TypeOK
  OBVIOUS
<1>1. BudgetTypeOK
  <2> USE ConstantFacts DEF Init, BudgetInit, BudgetTypeOK
  <2>1. worker \in [Workers -> [stage : Stages, doc : Nat, use : Usages \cup {NoUse}]]
    BY DEF Idle, Stages
  <2>2. spent \in [Ledgers -> [Fields -> Nat]]
    BY DEF Zero
  <2>3. \A w \in Workers : worker[w].stage = "idle"
    BY DEF Idle
  <2>4. \A m \in Models : docs[m] \in [DOMAIN Sizes[m] -> DocStates]
    BY DEF DocStates
  <2> QED
    BY <2>1, <2>2, <2>3, <2>4
<1> QED
  BY <1>1, ModesAssumption DEF Init, TypeOK, Active, Ended, Outcomes, Exceptions, Ledgers

\* The last document of a thread gets an outcome.
LEMMA FinishType ==
  ASSUME BudgetTypeOK, NEW w \in Workers, worker[w].stage # "idle",
         NEW outcome \in DocStates, Finish(w, outcome)
  PROVE  /\ \A m \in Models : docs'[m] \in [DOMAIN Sizes[m] -> DocStates]
         /\ DOMAIN docs' = Models
         /\ worker' \in [Workers -> [stage : Stages, doc : Nat, use : Usages \cup {NoUse}]]
         /\ \A x \in Workers :
             worker'[x].stage # "idle" => worker'[x].doc \in DOMAIN Sizes[Owner[x]]
<1> USE ConstantFacts DEF BudgetTypeOK, Finish
<1>1. Idle \in [stage : Stages, doc : Nat, use : Usages \cup {NoUse}] /\ Idle.stage = "idle"
  BY DEF Idle, Stages
<1> QED
  BY <1>1

\* A thread goes on with its document.
LEMMA GotoType ==
  ASSUME BudgetTypeOK, NEW w \in Workers, worker[w].stage # "idle",
         NEW stage \in Stages, Goto(w, stage)
  PROVE  /\ worker' \in [Workers -> [stage : Stages, doc : Nat, use : Usages \cup {NoUse}]]
         /\ \A x \in Workers :
             worker'[x].stage # "idle" => worker'[x].doc \in DOMAIN Sizes[Owner[x]]
<1>1. worker' = [worker EXCEPT ![w].stage = stage]
  BY DEF Goto
<1>2. worker \in [Workers -> [stage : Stages, doc : Nat, use : Usages \cup {NoUse}]]
  BY DEF BudgetTypeOK
<1>3. worker' \in [Workers -> [stage : Stages, doc : Nat, use : Usages \cup {NoUse}]]
  BY ONLY <1>1, <1>2, stage \in Stages, w \in Workers
<1>4. \A x \in Workers : x # w => worker'[x] = worker[x]
  BY <1>1, <1>2
<1>5. worker'[w].doc = worker[w].doc
  BY ONLY <1>1, <1>2, w \in Workers
<1> QED
  BY <1>3, <1>4, <1>5 DEF BudgetTypeOK

\* Counters stay numbers.
LEMMA CountType ==
  ASSUME BudgetTypeOK, NEW l \in Ledgers, NEW field \in Fields, NEW n \in Nat
  PROVE  Count(l, field, n) \in [Ledgers -> [Fields -> Nat]]
BY DEF BudgetTypeOK, Count

LEMMA ChargedType ==
  ASSUME BudgetTypeOK, NEW l \in Ledgers, NEW use \in Uses
  PROVE  Charged(l, use) \in [Ledgers -> [Fields -> Nat]]
<1>1. use["calls"] \in Nat /\ use["tokens"] \in Nat
  BY ConstantFacts DEF Charges
<1> QED
  BY <1>1 DEF BudgetTypeOK, Charged, Fields

LEMMA TakeType ==
  ASSUME BudgetTypeOK, NEW w \in Workers, Take(w)
  PROVE  BudgetTypeOK'
<1> USE ConstantFacts DEF BudgetTypeOK
<1>1. PICK d \in Queued(Owner[w]) :
        /\ docs' = [docs EXCEPT ![Owner[w]][d] = "taken"]
        /\ worker' = [worker EXCEPT ![w] = [stage |-> "gate", doc |-> d, use |-> NoUse]]
  BY DEF Take
<1>2. d \in DOMAIN Sizes[Owner[w]] /\ d \in Nat /\ "taken" \in DocStates /\ "gate" \in Stages
  BY DEF Queued, DocStates, Stages
<1> QED
  BY <1>1, <1>2 DEF Take

\* What is sent is counted for the model and for the run.
LEMMA SendType ==
  ASSUME BudgetTypeOK, NEW m \in Models, NEW n \in Nat, Send(m, n)
  PROVE  billed' \in [Ledgers -> [{"bytes", "calls", "tokens"} -> Nat]]
<1> SUFFICES ASSUME NEW l \in Ledgers
             PROVE  billed'[l] \in [{"bytes", "calls", "tokens"} -> Nat]
  BY DEF Send
<1>1. billed[l] \in [{"bytes", "calls", "tokens"} -> Nat]
  BY DEF BudgetTypeOK
<1>2. billed'[l] = [billed[l] EXCEPT !["bytes"] = @ + n] \/ billed'[l] = billed[l]
  BY DEF Send
<1>3. billed[l]["bytes"] + n \in Nat
  BY <1>1
<1> QED
  BY <1>1, <1>2, <1>3

\* What is billed is counted for the model and for the run.
LEMMA BillType ==
  ASSUME BudgetTypeOK, NEW m \in Models, NEW use, Bill(m, use),
         use["calls"] \in Nat, use["tokens"] \in Nat
  PROVE  billed' \in [Ledgers -> [{"bytes", "calls", "tokens"} -> Nat]]
<1> SUFFICES ASSUME NEW l \in Ledgers
             PROVE  billed'[l] \in [{"bytes", "calls", "tokens"} -> Nat]
  BY DEF Bill
<1>1. billed[l] \in [{"bytes", "calls", "tokens"} -> Nat]
  BY DEF BudgetTypeOK
<1>2. \/ billed'[l] = [billed[l] EXCEPT !["calls"] = @ + use["calls"],
                                        !["tokens"] = @ + use["tokens"]]
      \/ billed'[l] = billed[l]
  BY DEF Bill
<1>3. billed[l]["calls"] + use["calls"] \in Nat /\ billed[l]["tokens"] + use["tokens"] \in Nat
  BY <1>1
<1> QED
  BY <1>1, <1>2, <1>3

\* Each step of a thread keeps the types of the ledgers and the documents.
LEMMA WorkType ==
  ASSUME BudgetTypeOK, NEW w \in Workers, Work(w)
  PROVE  BudgetTypeOK'
<1> DEFINE m == Owner[w]
<1>0. /\ m \in Models /\ m \in Ledgers /\ Run \in Ledgers
      /\ {"refused", "failed", "raised", "done"} \subseteq DocStates
      /\ {"gate_run", "bytes", "bytes_run", "call", "charge", "charge_run"} \subseteq Stages
      /\ Failure(w) \in DocStates
  BY ConstantFacts DEF DocStates, Stages, Failure
<1>1. ASSUME NEW stage \in {"gate", "gate_run"}, NEW l \in Ledgers, NEW next \in Stages,
             Gate(w, stage, l, next)
      PROVE  BudgetTypeOK'
  BY <1>0, <1>1, FinishType, GotoType DEF Gate, At, BudgetTypeOK
<1>2. CASE GateModel(w)
  BY <1>0, <1>1, <1>2 DEF GateModel
<1>3. CASE GateRun(w)
  BY <1>0, <1>1, <1>3 DEF GateRun
<1>4. ASSUME worker[w].stage # "idle" PROVE Size(w) \in Nat
  BY <1>4, <1>0, ConstantFacts DEF Size, BudgetTypeOK
<1>5. CASE BytesModel(w)
  <2>1. spent' \in [Ledgers -> [Fields -> Nat]]
    BY <1>0, <1>4, <1>5, CountType DEF BytesModel, At, Fields, BudgetTypeOK
  <2> QED
    BY <1>0, <1>5, <2>1, FinishType, GotoType DEF BytesModel, At, BudgetTypeOK
<1>6. CASE BytesRun(w)
  <2>1. spent' \in [Ledgers -> [Fields -> Nat]]
    BY <1>0, <1>4, <1>6, CountType DEF BytesRun, At, Fields
  <2>2. billed' \in [Ledgers -> [{"bytes", "calls", "tokens"} -> Nat]]
    <3>1. CASE Send(m, Size(w))
      BY <1>0, <1>4, <1>6, <3>1, SendType DEF BytesRun, At
    <3>2. CASE UNCHANGED billed
      BY <3>2 DEF BudgetTypeOK
    <3> QED
      BY <1>6, <3>1, <3>2 DEF BytesRun
  <2> QED
    BY <1>0, <1>6, <2>1, <2>2, FinishType, GotoType DEF BytesRun, At, BudgetTypeOK
<1>7. CASE Answer(w)
  <2>1. PICK use \in Usages :
          /\ Bill(m, use)
          /\ \/ /\ worker' = [worker EXCEPT ![w].stage = "charge", ![w].use = use]
                /\ UNCHANGED docs
             \/ Finish(w, Failure(w))
    BY <1>7 DEF Answer
  <2>2. use["calls"] \in Nat /\ use["tokens"] \in Nat
    BY UsageAssumption
  <2>3. billed' \in [Ledgers -> [{"bytes", "calls", "tokens"} -> Nat]]
    BY <1>0, <2>1, <2>2, BillType
  <2>4. worker[w].stage = "call" /\ UNCHANGED spent
    BY <1>7 DEF Answer, At
  <2>5. CASE worker' = [worker EXCEPT ![w].stage = "charge", ![w].use = use] /\ UNCHANGED docs
    <3> DEFINE charged == [worker[w] EXCEPT !.stage = "charge", !.use = use]
    <3>a. worker[w] \in [stage : Stages, doc : Nat, use : Usages \cup {NoUse}]
      BY DEF BudgetTypeOK
    <3>b. /\ charged \in [stage : Stages, doc : Nat, use : Usages \cup {NoUse}]
          /\ charged.doc = worker[w].doc
      BY <1>0, <3>a
    <3>c. worker' = [worker EXCEPT ![w] = charged]
      BY <2>5
    <3> HIDE DEF charged
    <3>1. /\ worker' \in [Workers -> [stage : Stages, doc : Nat, use : Usages \cup {NoUse}]]
          /\ \A x \in Workers : worker'[x].doc = worker[x].doc
          /\ \A x \in Workers : worker'[x].stage # "idle" => worker[x].stage # "idle"
      BY <2>4, <3>b, <3>c DEF BudgetTypeOK
    <3>2. \A x \in Workers :
            worker'[x].stage # "idle" => worker'[x].doc \in DOMAIN Sizes[Owner[x]]
      BY <3>1 DEF BudgetTypeOK
    <3>3. docs' = docs /\ spent' = spent
      BY <2>4, <2>5
    <3> QED
      BY <2>3, <3>1, <3>2, <3>3 DEF BudgetTypeOK
  <2>6. CASE Finish(w, Failure(w))
    BY <1>0, <2>3, <2>4, <2>6, FinishType DEF BudgetTypeOK
  <2> QED
    BY <2>1, <2>5, <2>6
<1>8. CASE Fail(w)
  BY <1>0, <1>8, FinishType DEF Fail, BudgetTypeOK
<1>9. worker[w].use \in Uses
  BY DEF BudgetTypeOK, Uses
<1>10. CASE ChargeModel(w)
  BY <1>0, <1>9, <1>10, ChargedType, GotoType DEF ChargeModel, At, BudgetTypeOK
<1>11. CASE ChargeRun(w)
  BY <1>0, <1>9, <1>11, ChargedType, FinishType DEF ChargeRun, At, BudgetTypeOK
<1> QED
  BY <1>2, <1>3, <1>5, <1>6, <1>7, <1>8, <1>10, <1>11 DEF Work

\* The end of a model keeps the types of what the run remembers.
LEMMA EndType ==
  ASSUME TypeOK, NEW m \in Models, NEW outcome \in Outcomes, End(m, outcome)
  PROVE  /\ pc' \in [Models -> {"waiting"} \cup Active \cup Ended]
         /\ lock' \in Ledgers /\ blocked' \subseteq Models /\ aborted' \in BOOLEAN
         /\ mode' \in {"run", "threaded", "build"}
         /\ selected' \subseteq Models /\ batch' \subseteq selected'
         /\ selected' = selected
<1> USE DEF TypeOK, End, Ended
<1>1. lock' \in Ledgers
  BY ConstantFacts DEF Release
<1>2. blocked' \subseteq Models
  BY DEF Descendants
<1> QED
  BY <1>1, <1>2

LEMMA TypeStep == TypeOK /\ [Next]_vars => TypeOK'
<1> SUFFICES ASSUME TypeOK, [Next]_vars PROVE TypeOK'
  OBVIOUS
<1> USE DEF TypeOK
<1>1. CASE UNCHANGED vars
  BY <1>1 DEF vars, runVars, budgetVars, BudgetTypeOK
<1>2. CASE NextBatch
  BY <1>2 DEF NextBatch, budgetVars, BudgetTypeOK, Ready, Waiting
<1>3. ASSUME NEW m \in selected, Model(m) PROVE TypeOK'
  <2>0. m \in Models /\ m \in Ledgers /\ Run \in Ledgers
    BY ConstantFacts
  <2>1. CASE Start(m)
    BY <2>0, <2>1 DEF Start, budgetVars, BudgetTypeOK, Active
  <2>2. CASE Skip(m)
    BY <2>0, <2>2 DEF Skip, budgetVars, BudgetTypeOK, Ended
  <2>3. CASE Read(m)
    <3>1. BudgetTypeOK' /\ UNCHANGED published
      BY <2>3 DEF Read, budgetVars, BudgetTypeOK
    <3>2. CASE \E exception \in Exceptions : End(m, exception)
      BY <2>0, <3>1, <3>2, EndType DEF Outcomes, Exceptions
    <3> QED
      BY <2>0, <2>3, <3>1, <3>2 DEF Read, Hold, Active
  <2>4. CASE CountDocuments(m)
    <3> DEFINE n == Cardinality(DOMAIN Sizes[m])
    <3>1. n \in Nat
      BY <2>0, SizesAssumption, FS_CardinalityType, FS_Interval
    <3>2. spent' \in [Ledgers -> [Fields -> Nat]]
      <4> HIDE DEF n
      <4>1. "documents" \in Fields
        BY DEF Fields
      <4>2. Count(m, "documents", n) \in [Ledgers -> [Fields -> Nat]]
        BY <2>0, <3>1, <4>1, CountType
      <4>3. \/ spent' = Count(m, "documents", n)
            \/ spent' = [spent EXCEPT ![m]["documents"] = spent[m]["documents"] + n,
                                      ![Run]["documents"] = spent[Run]["documents"] + n]
        BY <2>4 DEF CountDocuments, n
      <4>4. spent[Run]["documents"] + n \in Nat /\ spent[m]["documents"] + n \in Nat
        BY <2>0, <3>1, <4>1 DEF BudgetTypeOK
      <4>5. [spent EXCEPT ![m]["documents"] = spent[m]["documents"] + n,
                          ![Run]["documents"] = spent[Run]["documents"] + n]
              \in [Ledgers -> [Fields -> Nat]]
        BY <2>0, <4>1, <4>4 DEF BudgetTypeOK
      <4> QED
        BY <4>2, <4>3, <4>5
    <3>3. BudgetTypeOK' /\ UNCHANGED published
      BY <2>4, <3>2 DEF CountDocuments, BudgetTypeOK
    <3>4. CASE End(m, "errors")
      BY <2>0, <3>3, <3>4, EndType DEF Outcomes, Exceptions
    <3>5. CASE /\ pc' = [pc EXCEPT ![m] = IF Kind[m] = "full" THEN "stage" ELSE "work"]
               /\ UNCHANGED <<mode, selected, batch, lock, blocked, aborted>>
      BY <2>0, <3>3, <3>5 DEF Active
    <3> QED
      BY <2>4, <3>4, <3>5 DEF CountDocuments
  <2>5. CASE Stage(m)
    BY <2>0, <2>5 DEF Stage, Hold, budgetVars, BudgetTypeOK, Active
  <2>6. CASE Drain(m)
    <3>1. BudgetTypeOK'
      BY <2>0, <2>6 DEF Drain, BudgetTypeOK, DocStates
    <3> QED
      BY <2>0, <2>6, <3>1 DEF Drain, Active
  <2>7. CASE GiveUp(m)
    BY <2>0, <2>7, EndType DEF GiveUp, budgetVars, BudgetTypeOK, Outcomes, Exceptions
  <2>8. CASE Publish(m)
    <3>1. BudgetTypeOK' /\ published' \subseteq selected
      BY <2>8 DEF Publish, budgetVars, BudgetTypeOK, Written
    <3>2. \E outcome \in Outcomes : End(m, outcome)
      BY <2>8 DEF Publish, Outcomes, Exceptions
    <3> QED
      BY <2>0, <3>1, <3>2, EndType
  <2>9. CASE PublishIndex(m)
    BY <2>0, <2>9, EndType DEF PublishIndex, budgetVars, BudgetTypeOK, Outcomes, Exceptions
  <2> QED
    BY <1>3, <2>1, <2>2, <2>3, <2>4, <2>5, <2>6, <2>7, <2>8, <2>9 DEF Model
<1>4. ASSUME NEW w \in Workers, Worker(w) PROVE TypeOK'
  BY <1>4, TakeType, WorkType DEF Worker, runVars
<1> QED
  BY <1>1, <1>2, <1>3, <1>4 DEF Next

\* TypeOK: documents, ledgers, the states of models and the lock keep their
\* types in every step of runner.py, budget.py and the models it runs.
THEOREM RunTypeCorrect == Spec => []TypeOK
<1> QED
  BY TypeInit, TypeStep, PTL DEF Spec

-----------------------------------------------------------------------------
(* Spending.                                                               *)

\* The threads that were let through by ledger l and not charged to it yet.
PastGate(l) ==
  IF l = Run THEN {"bytes", "bytes_run", "call", "charge", "charge_run"}
             ELSE {"gate_run", "bytes", "bytes_run", "call", "charge"}
Through(l) == {w \in Payers(l) : worker[w].stage \in PastGate(l)}

\* Below the cap there is room for an answer of every thread that was let
\* through; SpendBounded alone forgets what is under way.
Reserved(l, f) ==
  Cap[l][f] # NoCap =>
    spent[l][f] + MaxUse[f] * Cardinality(Through(l))
      <= Cap[l][f] - 1 + MaxUse[f] * Cardinality(Payers(l))
Spending == \A l \in Ledgers, f \in Charges : Reserved(l, f)

\* What a step may do to a ledger.
Kept(l, f) == spent'[l][f] = spent[l][f] /\ Through(l)' \subseteq Through(l)
Admitted(l, f) == spent'[l][f] = spent[l][f] /\ Headroom(l)
Paid(l, f) ==
  /\ Through(l)' \subseteq Through(l)
  /\ \E w \in Through(l) : w \notin Through(l)'
  /\ spent'[l][f] <= spent[l][f] + MaxUse[f]

\* Products of natural numbers.
LEMMA Product ==
  ASSUME NEW c \in Nat, NEW a \in Nat, NEW b \in Nat
  PROVE  /\ c * a \in Nat
         /\ a <= b => c * a <= c * b
         /\ c * (a + 1) = c * a + c
OBVIOUS

\* The threads of a ledger are finitely many.
LEMMA ThreadFacts ==
  ASSUME NEW l \in Ledgers
  PROVE  /\ IsFiniteSet(Payers(l)) /\ IsFiniteSet(Through(l)) /\ IsFiniteSet(Through(l)')
         /\ Cardinality(Payers(l)) \in Nat
         /\ Cardinality(Through(l)) \in Nat /\ Cardinality(Through(l)') \in Nat
         /\ Cardinality(Through(l)) <= Cardinality(Payers(l))
         /\ Cardinality(Through(l)') <= Cardinality(Payers(l))
<1>1. Payers(l) \subseteq Workers /\ IsFiniteSet(Workers)
  BY WorkersAssumption DEF Payers
<1>2. IsFiniteSet(Payers(l))
  BY <1>1, FS_Subset
<1>3. Through(l) \subseteq Payers(l) /\ Through(l)' \subseteq Payers(l)
  BY DEF Through, Payers
<1> QED
  BY <1>2, <1>3, FS_Subset, FS_CardinalityType

\* The three kinds of steps keep the reservation.
LEMMA ReservedStep ==
  ASSUME NEW l \in Ledgers, NEW f \in Charges, BudgetTypeOK, BudgetTypeOK',
         Reserved(l, f), Kept(l, f) \/ Admitted(l, f) \/ Paid(l, f)
  PROVE  Reserved(l, f)'
<1> DEFINE c == MaxUse[f]
           a == Cardinality(Through(l))
           b == Cardinality(Through(l)')
           n == Cardinality(Payers(l))
<1>0. SUFFICES ASSUME Cap[l][f] # NoCap
               PROVE  spent'[l][f] + c * b <= Cap[l][f] - 1 + c * n
  BY DEF Reserved, Payers
<1>1. /\ c \in Nat /\ a \in Nat /\ b \in Nat /\ n \in Nat
      /\ a <= n /\ b <= n /\ Cap[l][f] \in Nat \ {0}
  BY <1>0, ConstantFacts, ThreadFacts, UsageAssumption DEF Charges
<1>2. spent[l][f] \in Nat /\ spent'[l][f] \in Nat
  BY DEF BudgetTypeOK, Charges, Fields
<1>3. spent[l][f] + c * a <= Cap[l][f] - 1 + c * n
  BY <1>0 DEF Reserved
<1>4. CASE Kept(l, f)
  <2>1. b <= a
    BY <1>4, ThreadFacts, FS_Subset DEF Kept
  <2>2. c * b <= c * a /\ c * b \in Nat /\ c * a \in Nat /\ c * n \in Nat
    BY <1>1, <2>1, Product
  <2> HIDE DEF a, b, c, n
  <2> QED
    BY <1>1, <1>2, <1>3, <1>4, <2>2 DEF Kept
<1>5. CASE Admitted(l, f)
  <2>1. spent[l][f] <= Cap[l][f] - 1
    BY <1>0, <1>1, <1>2, <1>5 DEF Admitted, Headroom, Within, Charges
  <2>2. c * b <= c * n /\ c * b \in Nat /\ c * n \in Nat
    BY <1>1, Product
  <2> HIDE DEF a, b, c, n
  <2> QED
    BY <1>1, <1>2, <1>5, <2>1, <2>2 DEF Admitted
<1>6. CASE Paid(l, f)
  <2>1. PICK w \in Through(l) : w \notin Through(l)'
    BY <1>6 DEF Paid
  <2>2. IsFiniteSet(Through(l) \ {w}) /\ Cardinality(Through(l) \ {w}) = a - 1
    BY <2>1, ThreadFacts, FS_RemoveElement
  <2>3. Through(l)' \subseteq Through(l) \ {w}
    BY <1>6, <2>1 DEF Paid
  <2>4. b <= a - 1
    BY <2>2, <2>3, FS_Subset
  <2> HIDE DEF a, b, c, n
  <2>5. c * (b + 1) <= c * a /\ c * (b + 1) = c * b + c
    BY <1>1, <2>4, Product
  <2>6. c * b \in Nat /\ c * a \in Nat /\ c * n \in Nat
    BY <1>1, Product
  <2> QED
    BY <1>1, <1>2, <1>3, <1>6, <2>5, <2>6 DEF Paid, c
<1> QED
  BY <1>4, <1>5, <1>6

\* A thread that moves while the others stand still enters the reservation of a
\* ledger or leaves it alone.
LEMMA OnlyOneMoves ==
  ASSUME NEW w \in Workers, \A x \in Workers \ {w} : worker'[x].stage = worker[x].stage,
         NEW l \in Ledgers
  PROVE  /\ (w \in Through(l)' => w \in Through(l)) => Through(l)' \subseteq Through(l)
         /\ w \in Through(l) <=> l \in {Owner[w], Run} /\ worker[w].stage \in PastGate(l)
         /\ w \in Through(l)' <=> l \in {Owner[w], Run} /\ worker'[w].stage \in PastGate(l)
BY DEF Through, Payers, PastGate

\* What Goto and Finish do to the stages of the threads.
LEMMA MovedStages ==
  ASSUME BudgetTypeOK, NEW w \in Workers
  PROVE  /\ \A stage \in Stages : Goto(w, stage) =>
             /\ worker'[w].stage = stage
             /\ \A x \in Workers \ {w} : worker'[x].stage = worker[x].stage
         /\ \A outcome : Finish(w, outcome) =>
             /\ worker'[w].stage = "idle"
             /\ \A x \in Workers \ {w} : worker'[x].stage = worker[x].stage
BY DEF BudgetTypeOK, Goto, Finish, Idle

LEMMA WorkSpending ==
  ASSUME BudgetTypeOK, NEW w \in Workers, Take(w) \/ Work(w),
         NEW l \in Ledgers, NEW f \in Charges
  PROVE  Kept(l, f) \/ Admitted(l, f) \/ Paid(l, f)
<1> DEFINE m == Owner[w]
<1>0. /\ m \in Models /\ m # Run /\ m \in Ledgers /\ Run \in Ledgers
      /\ {"idle", "gate", "gate_run", "bytes", "bytes_run", "call", "charge", "charge_run"}
           \subseteq Stages
      /\ {"bytes", "calls", "tokens"} \subseteq Fields
      /\ f \in {"calls", "tokens"}
  BY ConstantFacts DEF Stages, Fields, Charges
<1>1. CASE Take(w)
  <2>1. /\ worker'[w].stage = "gate"
        /\ \A x \in Workers \ {w} : worker'[x].stage = worker[x].stage
        /\ UNCHANGED spent
    BY <1>1 DEF Take, BudgetTypeOK
  <2> QED
    BY <2>1, OnlyOneMoves DEF Kept, PastGate
<1>2. ASSUME NEW k \in {m, Run}, NEW stage \in Stages, NEW next \in Stages,
             Gate(w, stage, k, next),
             \A j \in {m, Run} \ {k} : next \in PastGate(j) => stage \in PastGate(j)
      PROVE  Kept(l, f) \/ Admitted(l, f)
  <2>1. /\ worker[w].stage = stage /\ UNCHANGED spent
        /\ \A x \in Workers \ {w} : worker'[x].stage = worker[x].stage
        /\ worker'[w].stage = "idle" \/ (worker'[w].stage = next /\ Headroom(k))
    BY <1>0, <1>2, MovedStages DEF Gate, At
  <2>2. CASE worker'[w].stage = "idle"
    BY <2>1, <2>2, OnlyOneMoves DEF Kept, PastGate
  <2>3. CASE worker'[w].stage = next /\ Headroom(k) /\ l = k
    BY <2>1, <2>3 DEF Admitted
  <2>4. CASE worker'[w].stage = next /\ l # k
    BY <1>2, <2>1, <2>4, OnlyOneMoves DEF Kept
  <2> QED
    BY <2>1, <2>2, <2>3, <2>4
<1>3. CASE GateModel(w)
  BY <1>0, <1>2, <1>3 DEF GateModel, PastGate
<1>4. CASE GateRun(w)
  BY <1>0, <1>2, <1>4 DEF GateRun, PastGate
<1>5. ASSUME NEW k \in Ledgers, NEW n \in Nat
      PROVE  Count(k, "bytes", n)[l][f] = spent[l][f]
  BY <1>0, <1>5 DEF Count, BudgetTypeOK
<1>6. worker[w].stage # "idle" => Size(w) \in Nat
  BY <1>0, ConstantFacts DEF Size, BudgetTypeOK
<1>7. CASE BytesModel(w) \/ BytesRun(w)
  <2>1. spent'[l][f] = spent[l][f]
    BY <1>0, <1>5, <1>6, <1>7 DEF BytesModel, BytesRun, At
  <2>2. /\ worker[w].stage \in {"bytes", "bytes_run"}
        /\ worker'[w].stage \in {"bytes_run", "call", "idle"}
        /\ \A x \in Workers \ {w} : worker'[x].stage = worker[x].stage
    BY <1>0, <1>7, MovedStages DEF BytesModel, BytesRun, At
  <2> QED
    BY <2>1, <2>2, OnlyOneMoves DEF Kept, PastGate
<1>8. CASE Answer(w) \/ Fail(w)
  <2>1. /\ worker[w].stage \in {"bytes", "call"} /\ UNCHANGED spent
        /\ worker'[w].stage \in {"charge", "idle"}
        /\ worker'[w].stage = "charge" => worker[w].stage = "call"
        /\ \A x \in Workers \ {w} : worker'[x].stage = worker[x].stage
    BY <1>0, <1>8, MovedStages DEF Answer, Fail, At, BudgetTypeOK
  <2> QED
    BY <2>1, OnlyOneMoves DEF Kept, PastGate
<1>9. /\ worker[w].use["calls"] \in Nat /\ worker[w].use["tokens"] \in Nat
      /\ worker[w].use[f] <= MaxUse[f] /\ MaxUse[f] \in Nat /\ spent[l][f] \in Nat
  BY <1>0, ConstantFacts DEF BudgetTypeOK, Uses, Charges
<1>10. ASSUME NEW k \in Ledgers
       PROVE  Charged(k, worker[w].use)[l][f]
                = IF l = k THEN spent[l][f] + worker[w].use[f] ELSE spent[l][f]
  BY <1>0, <1>9 DEF Charged, BudgetTypeOK
<1>11. ASSUME NEW k \in {m, Run}, spent' = Charged(k, worker[w].use),
              \A x \in Workers \ {w} : worker'[x].stage = worker[x].stage,
              worker[w].stage \in PastGate(k), worker'[w].stage \notin PastGate(k),
              \A j \in {m, Run} : worker'[w].stage \in PastGate(j) => worker[w].stage \in PastGate(j)
       PROVE  Kept(l, f) \/ Paid(l, f)
  <2>1. Through(l)' \subseteq Through(l)
    BY <1>11, OnlyOneMoves
  <2>2. CASE l = k
    <3>1. w \in Through(l) /\ w \notin Through(l)'
      BY <1>11, <2>2, OnlyOneMoves
    <3>2. spent'[l][f] <= spent[l][f] + MaxUse[f]
      BY <1>0, <1>9, <1>10, <1>11, <2>2
    <3> QED
      BY <2>1, <3>1, <3>2 DEF Paid
  <2>3. CASE l # k
    BY <1>0, <1>10, <1>11, <2>1, <2>3 DEF Kept
  <2> QED
    BY <2>2, <2>3
<1>12. CASE ChargeModel(w)
  BY <1>0, <1>11, <1>12, MovedStages DEF ChargeModel, At, PastGate
<1>13. CASE ChargeRun(w)
  BY <1>0, <1>11, <1>13, MovedStages DEF ChargeRun, At, PastGate
<1> QED
  BY <1>1, <1>3, <1>4, <1>7, <1>8, <1>12, <1>13 DEF Work

\* The steps of a run only count documents in the ledgers.
LEMMA RunSpending ==
  ASSUME BudgetTypeOK, NextBatch \/ (\E m \in selected : Model(m)) \/ UNCHANGED vars,
         selected \subseteq Models, NEW l \in Ledgers, NEW f \in Charges
  PROVE  Kept(l, f)
<1>1. worker' = worker => Through(l)' = Through(l)
  BY DEF Through, Payers
<1>2. CASE UNCHANGED vars \/ NextBatch
  BY <1>1, <1>2 DEF Kept, vars, budgetVars, NextBatch
<1>3. ASSUME NEW m \in selected, Model(m) PROVE Kept(l, f)
  <2>1. UNCHANGED worker
    BY <1>3 DEF Model, Start, Skip, Read, CountDocuments, Stage, Drain, GiveUp, Publish,
                PublishIndex, budgetVars
  <2>2. CASE CountDocuments(m)
    <3>1. spent'[l][f] = spent[l][f]
      BY <2>2 DEF CountDocuments, Count, BudgetTypeOK, Charges, Fields
    <3> QED
      BY <1>1, <2>1, <3>1 DEF Kept
  <2>3. CASE ~CountDocuments(m)
    <3>1. UNCHANGED spent
      BY <1>3, <2>3 DEF Model, Start, Skip, Read, Stage, Drain, GiveUp, Publish,
                        PublishIndex, budgetVars
    <3> QED
      BY <1>1, <2>1, <3>1 DEF Kept
  <2> QED
    BY <2>2, <2>3
<1> QED
  BY <1>2, <1>3

LEMMA SpendingInit == Init => Spending
<1> SUFFICES ASSUME Init, NEW l \in Ledgers, NEW f \in Charges PROVE Reserved(l, f)
  BY DEF Spending
<1>1. Through(l) = {}
  BY DEF Init, BudgetInit, Idle, Through, PastGate, Payers
<1>2. spent[l][f] = 0
  BY DEF Init, BudgetInit, Zero, Charges, Fields
<1>3. Cardinality(Through(l)) = 0
  BY <1>1, FS_EmptySet
<1>4. MaxUse[f] \in Nat /\ Cardinality(Payers(l)) \in Nat
  BY ThreadFacts, UsageAssumption DEF Charges
<1>5. MaxUse[f] * Cardinality(Payers(l)) \in Nat /\ MaxUse[f] * Cardinality(Through(l)) = 0
  BY <1>3, <1>4, Product
<1>6. Cap[l][f] # NoCap => Cap[l][f] \in Nat \ {0}
  BY ConstantFacts
<1> QED
  BY <1>2, <1>5, <1>6 DEF Reserved

LEMMA SpendingStep == TypeOK /\ TypeOK' /\ Spending /\ [Next]_vars => Spending'
<1> SUFFICES ASSUME TypeOK, TypeOK', Spending, [Next]_vars,
                    NEW l \in Ledgers, NEW f \in Charges
             PROVE  Reserved(l, f)'
  BY DEF Spending
<1>1. Kept(l, f) \/ Admitted(l, f) \/ Paid(l, f)
  BY WorkSpending, RunSpending DEF TypeOK, Next, Worker
<1> QED
  BY <1>1, ReservedStep DEF TypeOK, Spending

LEMMA SpendingSuffices == TypeOK /\ Spending => SpendBounded
<1> SUFFICES ASSUME TypeOK, Spending, NEW l \in Ledgers, NEW f \in Charges, Cap[l][f] # NoCap
             PROVE  spent[l][f] <= Cap[l][f] - 1 + MaxUse[f] * Cardinality(Payers(l))
  BY DEF SpendBounded, Charges
<1>1. MaxUse[f] \in Nat /\ Cap[l][f] \in Nat /\ spent[l][f] \in Nat
  BY ConstantFacts, UsageAssumption DEF Charges, TypeOK, BudgetTypeOK, Fields
<1>2. MaxUse[f] * Cardinality(Through(l)) \in Nat /\ MaxUse[f] * Cardinality(Payers(l)) \in Nat
  BY <1>1, ThreadFacts, Product
<1> QED
  BY <1>1, <1>2 DEF Spending, Reserved

\* SpendBounded: with any number of threads, any caps and any answers, what
\* BudgetTracker counts for a model or a run passes a cap on calls or tokens by
\* less than one answer for each of its threads.
THEOREM SpendingIsBounded == Spec => []SpendBounded
<1> QED
  BY TypeInit, TypeStep, SpendingInit, SpendingStep, SpendingSuffices, PTL DEF Spec

-----------------------------------------------------------------------------
(* The order of the models.                                                *)

\* Whose parents have to be done: every model that was started, and a whole
\* generation before any of it is; ParentsFirst alone does not know that what
\* runs with threads belongs to the generation.
ParentsEnded(m) == \A p \in Parents[m] \cap selected : pc[p] \in Ended
Order ==
  /\ \A m \in selected : pc[m] # "waiting" => ParentsEnded(m)
  /\ mode = "threaded" => \A m \in batch : ParentsEnded(m)
  /\ mode = "threaded" => Running \subseteq batch

\* A model waits until it may start, and never leaves its outcome.
LEMMA PcStep ==
  ASSUME TypeOK, NEW m \in selected, Model(m)
  PROVE  /\ UNCHANGED <<mode, selected, batch>>
         /\ \A p \in Models \ {m} : pc'[p] = pc[p]
         /\ \/ MayStart(m) /\ pc[m] = "waiting" /\ pc'[m] \in {"read", "skipped"}
            \/ pc[m] \in Active /\ pc'[m] \in Active \cup Ended
<1> USE DEF TypeOK
<1>0. m \in Models
  OBVIOUS
<1>1. ASSUME NEW outcome \in Outcomes, End(m, outcome), pc[m] \in Active
      PROVE  /\ UNCHANGED <<mode, selected, batch>>
             /\ \A p \in Models \ {m} : pc'[p] = pc[p]
             /\ pc'[m] \in Ended
  BY <1>0, <1>1 DEF End, Ended
<1>2. CASE Start(m) \/ Skip(m)
  BY <1>0, <1>2 DEF Start, Skip, MayStart, First, Waiting
<1>3. CASE Read(m) \/ CountDocuments(m)
  <2>1. pc[m] \in Active
    BY <1>3 DEF Read, CountDocuments, Active
  <2>2. CASE \E outcome \in Outcomes : End(m, outcome)
    BY <1>1, <2>1, <2>2
  <2>3. CASE ~\E outcome \in Outcomes : End(m, outcome)
    <3>1. /\ UNCHANGED <<mode, selected, batch>>
          /\ \E point \in Active : pc' = [pc EXCEPT ![m] = point]
      BY <1>3, <2>3 DEF Read, CountDocuments, Active, Outcomes, Exceptions
    <3> QED
      BY <1>0, <2>1, <3>1
  <2> QED
    BY <2>2, <2>3
<1>4. CASE Stage(m) \/ Drain(m)
  BY <1>0, <1>4 DEF Stage, Drain, Active
<1>5. CASE GiveUp(m) \/ Publish(m) \/ PublishIndex(m)
  <2>1. pc[m] \in Active /\ \E outcome \in Outcomes : End(m, outcome)
    BY <1>5 DEF GiveUp, Publish, PublishIndex, Active, Outcomes, Exceptions
  <2> QED
    BY <1>1, <2>1
<1> QED
  BY <1>2, <1>3, <1>4, <1>5 DEF Model

LEMMA OrderInit == Init => Order
BY DEF Init, Order, Running, Active

LEMMA OrderStep == TypeOK /\ Order /\ [Next]_vars => Order'
<1> SUFFICES ASSUME TypeOK, Order, [Next]_vars PROVE Order'
  OBVIOUS
<1>0. selected \subseteq Models /\ Active \cap Ended = {} /\ "waiting" \notin Active \cup Ended
  BY DEF TypeOK, Active, Ended, Outcomes, Exceptions
<1>1. CASE UNCHANGED <<mode, selected, pc, batch>>
  BY <1>1 DEF Order, ParentsEnded, Running
<1>2. CASE NextBatch
  <2>1. UNCHANGED <<mode, selected, pc>> /\ mode = "threaded" /\ (batch' = batch \/ batch' = Ready)
    BY <1>2 DEF NextBatch
  <2>2. Running = {}
    BY <1>0, <1>2 DEF NextBatch, Order, Running
  <2>3. ASSUME NEW m \in Ready, NEW p \in Parents[m] \cap selected PROVE pc[p] \in Ended
    <3>1. p \notin Waiting /\ p \notin Running
      BY <2>2, <2>3 DEF Ready
    <3> QED
      BY <3>1 DEF Waiting, Running, TypeOK
  <2> QED
    BY <2>1, <2>2, <2>3 DEF Order, ParentsEnded, Running
<1>3. ASSUME NEW m \in selected, Model(m) PROVE Order'
  <2>1. \A p \in selected : pc[p] \in Ended => pc'[p] \in Ended
    BY <1>0, <1>3, PcStep DEF Active, Ended, Outcomes, Exceptions
  <2>2. UNCHANGED <<mode, selected, batch>>
    BY <1>3, PcStep
  <2>3. \A x \in selected : ParentsEnded(x) => ParentsEnded(x)'
    BY <2>1, <2>2 DEF ParentsEnded
  <2>4. CASE pc[m] \in Active
    <3>1. \A x \in selected : pc'[x] # "waiting" => pc[x] # "waiting"
      BY <1>0, <1>3, <2>4, PcStep
    <3>2. Running' \subseteq Running
      BY <1>0, <1>3, <2>2, <2>4, PcStep DEF Running
    <3> QED
      BY <2>2, <2>3, <3>1, <3>2 DEF Order, TypeOK
  <2>5. CASE MayStart(m) /\ pc[m] = "waiting" /\ pc'[m] \in {"read", "skipped"}
    <3>1. ParentsEnded(m)
      <4>1. CASE mode = "threaded"
        BY <2>5, <4>1 DEF MayStart, First, Order
      <4>2. CASE mode # "threaded"
        <5>1. First(Waiting, m) /\ Running = {}
          BY <2>5, <4>2 DEF MayStart
        <5>2. ASSUME NEW p \in Parents[m] \cap selected PROVE p \notin Waiting
          <6>1. p \in Nat /\ m \in Nat /\ p < m
            BY <1>0, <5>2, GraphAssumption, ConstantFacts
          <6> QED
            BY <5>1, <6>1 DEF First
        <5> QED
          BY <5>1, <5>2 DEF ParentsEnded, Waiting, Running, TypeOK
      <4> QED
        BY <4>1, <4>2
    <3>2. \A x \in selected : pc'[x] # "waiting" => x = m \/ pc[x] # "waiting"
      BY <1>0, <1>3, PcStep
    <3>3. mode = "threaded" => Running' \subseteq batch
      <4>1. mode = "threaded" => m \in batch
        BY <2>5 DEF MayStart, First
      <4>2. Running' \subseteq Running \cup {m}
        BY <1>0, <1>3, <2>2, PcStep DEF Running
      <4> QED
        BY <4>1, <4>2 DEF Order
    <3> QED
      BY <2>2, <2>3, <3>1, <3>2, <3>3 DEF Order, TypeOK
  <2> QED
    BY <1>3, <2>4, <2>5, PcStep
<1>4. ASSUME NEW w \in Workers, Worker(w) PROVE Order'
  BY <1>1, <1>4 DEF Worker, runVars
<1> QED
  BY <1>1, <1>2, <1>3, <1>4 DEF Next, vars, runVars

\* ParentsFirst: for every graph, in a run, a build and with any number of
\* threads, no model reads before the models it depends on have ended.
THEOREM ParentsComeFirst == Spec => []ParentsFirst
<1>1. TypeOK /\ Order => ParentsFirst
  BY DEF Order, ParentsEnded, ParentsFirst, Running, Active
<1> QED
  BY <1>1, TypeInit, TypeStep, OrderInit, OrderStep, PTL DEF Spec

-----------------------------------------------------------------------------
(* What is published.                                                      *)

\* A document in the hands of a thread is in the hands of no other, and its
\* model waits for the thread; what has been published is never touched again.
Working(w) == worker[w].stage # "idle"
Complete(m) == \A d \in DOMAIN Sizes[m] : docs[m][d] = "done"
Hands ==
  /\ \A w \in Workers : Working(w) =>
       /\ pc[Owner[w]] \in {"work", "drain"}
       /\ docs[Owner[w]][worker[w].doc] = "taken"
  /\ \A v, w \in Workers :
       Working(v) /\ Working(w) /\ Owner[v] = Owner[w] /\ worker[v].doc = worker[w].doc => v = w
Wholeness ==
  /\ Hands
  /\ \A m \in Models : Kind[m] = "llm" => Failures(m) = {}
  /\ \A m \in Models : pc[m] = "inside" => Kind[m] = "search"
  /\ \A m \in published : pc[m] \in Ended /\ (Kind[m] \in {"full", "llm"} => Complete(m))

\* What a step of a thread does to its document.
LEMMA WorkDocs ==
  ASSUME BudgetTypeOK, NEW w \in Workers, Working(w), Work(w)
  PROVE  \/ /\ UNCHANGED docs
            /\ \A x \in Workers : worker'[x].doc = worker[x].doc
            /\ \A x \in Workers : Working(x)' <=> Working(x)
         \/ /\ \E outcome \in DocStates \ {"taken"} :
                /\ Finish(w, outcome)
                /\ outcome = "failed" => Kind[Owner[w]] # "llm"
<1>0. /\ Failure(w) \in DocStates \ {"taken"}
      /\ Failure(w) = "failed" => Kind[Owner[w]] # "llm"
      /\ {"refused", "done"} \subseteq DocStates \ {"taken"}
  BY DEF Failure, DocStates
<1>1. ASSUME NEW stage \in Stages \ {"idle"}, Goto(w, stage)
      PROVE  /\ \A x \in Workers : worker'[x].doc = worker[x].doc
             /\ \A x \in Workers : Working(x)' <=> Working(x)
  BY <1>1 DEF Goto, Working, BudgetTypeOK
<1>2. {"gate_run", "bytes", "bytes_run", "call", "charge_run"} \subseteq Stages \ {"idle"}
  BY DEF Stages
<1>3. CASE GateModel(w) \/ GateRun(w)
  BY <1>0, <1>1, <1>2, <1>3 DEF GateModel, GateRun, Gate
<1>4. CASE BytesModel(w) \/ BytesRun(w)
  BY <1>0, <1>1, <1>2, <1>4 DEF BytesModel, BytesRun
<1>5. CASE Answer(w)
  <2>1. CASE \E use \in Usages :
               /\ worker' = [worker EXCEPT ![w].stage = "charge", ![w].use = use]
               /\ UNCHANGED docs
    BY <2>1 DEF Working, BudgetTypeOK
  <2> QED
    BY <1>0, <1>5, <2>1 DEF Answer
<1>6. CASE Fail(w)
  BY <1>0, <1>6 DEF Fail
<1>7. CASE ChargeModel(w)
  BY <1>1, <1>2, <1>7 DEF ChargeModel
<1>8. CASE ChargeRun(w)
  BY <1>0, <1>8 DEF ChargeRun
<1> QED
  BY <1>3, <1>4, <1>5, <1>6, <1>7, <1>8 DEF Work

LEMMA WholenessInit == Init => Wholeness
<1> SUFFICES ASSUME Init PROVE Wholeness
  OBVIOUS
<1>1. \A w \in Workers : ~Working(w)
  BY DEF Init, BudgetInit, Idle, Working
<1>2. \A m \in Models : Failures(m) = {}
  BY DEF Init, BudgetInit, Failures
<1> QED
  BY <1>1, <1>2 DEF Init, Wholeness, Hands

\* Steps of the threads.
LEMMA WholenessWorker ==
  ASSUME TypeOK, Wholeness, NEW w \in Workers, Worker(w)
  PROVE  Wholeness'
<1> DEFINE m == Owner[w]
<1> USE DEF TypeOK
<1>0. /\ m \in Models /\ pc[m] \in {"work", "drain"} /\ m \notin published
      /\ UNCHANGED <<pc, published>>
  BY ConstantFacts DEF Worker, Wholeness, Ended, Outcomes, Exceptions, runVars
<1>1. CASE Take(w)
  <2>1. PICK d \in DOMAIN Sizes[m] :
          /\ docs[m][d] = "queued"
          /\ docs' = [docs EXCEPT ![m][d] = "taken"]
          /\ worker' = [worker EXCEPT ![w] = [stage |-> "gate", doc |-> d, use |-> NoUse]]
    BY <1>1 DEF Take, Queued
  <2>2. /\ worker'[w].doc = d /\ Working(w)'
        /\ \A x \in Workers \ {w} : worker'[x] = worker[x]
    BY <2>1 DEF BudgetTypeOK, Working
  <2>3. /\ docs'[m][d] = "taken"
        /\ \A e \in DOMAIN Sizes[m] \ {d} : docs'[m][e] = docs[m][e]
        /\ \A k \in Models \ {m} : docs'[k] = docs[k]
    BY <1>0, <2>1 DEF BudgetTypeOK
  <2>4. \A x \in Workers \ {w} : Working(x) => Owner[x] # m \/ worker[x].doc # d
    BY <2>1 DEF Wholeness, Hands
  <2>5. \A x \in Workers : Working(x) =>
          Owner[x] \in Models /\ worker[x].doc \in DOMAIN Sizes[Owner[x]]
    BY ConstantFacts DEF BudgetTypeOK, Working
  <2>6. Hands'
    <3>1. \A x \in Workers \ {w} : Working(x)' <=> Working(x)
      BY <2>2 DEF Working
    <3>2. \A x \in Workers \ {w} : Working(x) =>
            docs'[Owner[x]][worker[x].doc] = docs[Owner[x]][worker[x].doc]
      BY <2>3, <2>4, <2>5
    <3> QED
      BY <1>0, <2>2, <2>3, <2>4, <3>1, <3>2 DEF Wholeness, Hands
  <2>7. \A k \in Models : Failures(k)' \subseteq Failures(k)
    BY <2>3 DEF Failures
  <2> QED
    BY <1>0, <2>3, <2>6, <2>7 DEF Wholeness, Complete
<1>2. CASE Work(w) /\ Working(w)
  <2>1. CASE /\ UNCHANGED docs
             /\ \A x \in Workers : worker'[x].doc = worker[x].doc
             /\ \A x \in Workers : Working(x)' <=> Working(x)
    <3>1. Hands'
      BY <1>0, <2>1 DEF Wholeness, Hands
    <3> QED
      BY <1>0, <2>1, <3>1 DEF Wholeness, Failures, Complete
  <2>2. ASSUME NEW outcome \in DocStates \ {"taken"}, Finish(w, outcome),
               outcome = "failed" => Kind[m] # "llm"
        PROVE  Wholeness'
    <3>1. /\ ~Working(w)'
          /\ \A x \in Workers \ {w} : worker'[x] = worker[x]
      BY <2>2 DEF Finish, BudgetTypeOK, Working, Idle
    <3> DEFINE d == worker[w].doc
    <3>2. d \in DOMAIN Sizes[m]
      BY <1>2 DEF BudgetTypeOK, Working
    <3>3. /\ docs'[m][d] = outcome
          /\ \A e \in DOMAIN Sizes[m] \ {d} : docs'[m][e] = docs[m][e]
          /\ \A k \in Models \ {m} : docs'[k] = docs[k]
      BY <1>0, <2>2, <3>2 DEF BudgetTypeOK, Finish
    <3>4. \A x \in Workers \ {w} : Working(x) => Owner[x] # m \/ worker[x].doc # d
      BY <1>2 DEF Wholeness, Hands
    <3>5. \A x \in Workers : Working(x) =>
            Owner[x] \in Models /\ worker[x].doc \in DOMAIN Sizes[Owner[x]]
      BY ConstantFacts DEF BudgetTypeOK, Working
    <3>6. Hands'
      <4>1. \A x \in Workers \ {w} : Working(x)' <=> Working(x)
        BY <3>1 DEF Working
      <4>2. \A x \in Workers \ {w} : Working(x) =>
              docs'[Owner[x]][worker[x].doc] = docs[Owner[x]][worker[x].doc]
        BY <3>3, <3>4, <3>5
      <4> QED
        BY <1>0, <3>1, <4>1, <4>2 DEF Wholeness, Hands
    <3>7. \A k \in Models : Kind[k] = "llm" => Failures(k)' = {}
      <4>1. \A k \in Models \ {m} : Failures(k)' = Failures(k)
        BY <3>3 DEF Failures
      <4>2. Kind[m] = "llm" => Failures(m)' = {}
        BY <1>0, <2>2, <3>2, <3>3 DEF Failures, Wholeness
      <4> QED
        BY <4>1, <4>2 DEF Wholeness
    <3> QED
      BY <1>0, <3>3, <3>6, <3>7 DEF Wholeness, Complete
  <2> QED
    BY <1>2, <2>1, <2>2, WorkDocs
<1>3. Work(w) => Working(w)
  BY DEF Work, GateModel, GateRun, Gate, BytesModel, BytesRun, Answer, Fail, ChargeModel,
         ChargeRun, At, Working
<1> QED
  BY <1>1, <1>2, <1>3 DEF Worker

\* A model whose documents are all done or failed has no thread at work.
LEMMA ExtractedIdle ==
  ASSUME TypeOK, Hands, NEW m \in Models, Extracted(m)
  PROVE  Busy(m) = {}
<1> SUFFICES ASSUME NEW w \in Workers, Owner[w] = m, Working(w) PROVE FALSE
  BY DEF Busy, Working
<1>1. worker[w].doc \in DOMAIN Sizes[m]
  BY DEF TypeOK, BudgetTypeOK, Working
<1>2. docs[m][worker[w].doc] \in {"done", "failed"}
  BY <1>1 DEF Extracted
<1>3. docs[m][worker[w].doc] = "taken"
  BY DEF Hands
<1> QED
  BY <1>2, <1>3

\* Steps of the models.
LEMMA WholenessModel ==
  ASSUME TypeOK, Wholeness, NEW m \in selected, Model(m)
  PROVE  Wholeness'
<1> USE DEF TypeOK
<1>0. m \in Models /\ selected \subseteq Models
  OBVIOUS
<1>1. \A p \in Models \ {m} : pc'[p] = pc[p]
  BY PcStep
\* Where threads may be at work, they stay with their documents.
<1>2. ASSUME UNCHANGED <<docs, worker>>, Busy(m) = {} \/ pc'[m] \in {"work", "drain"}
      PROVE  Hands'
  <2>1. \A w \in Workers : Working(w) => pc'[Owner[w]] \in {"work", "drain"}
    BY <1>1, <1>2, ConstantFacts DEF Wholeness, Hands, Busy, Working
  <2>2. \A w \in Workers : Working(w)' <=> Working(w)
    BY <1>2 DEF Working
  <2> QED
    BY <1>2, <2>1, <2>2 DEF Wholeness, Hands
<1>3. pc[m] \notin {"work", "drain"} => Busy(m) = {}
  BY DEF Wholeness, Hands, Busy, Working
\* What was published has ended and stays as it is.
<1>4. ASSUME Hands', UNCHANGED docs,
             pc'[m] = "inside" => Kind[m] = "search",
             published' \subseteq published \cup {m},
             m \in published' => pc'[m] \in Ended,
             m \in published' \ published => (Kind[m] \in {"full", "llm"} => Complete(m))
      PROVE  Wholeness'
  BY <1>0, <1>1, <1>4 DEF Wholeness, Failures, Complete
<1>5. pc[m] \notin Ended => m \notin published
  BY DEF Wholeness
<1>6. Active \cap Ended = {} /\ "waiting" \notin Active \cup Ended /\ "inside" \notin Ended
  BY DEF Active, Ended, Outcomes, Exceptions
<1>7. ASSUME NEW outcome \in Outcomes, End(m, outcome)
      PROVE  pc'[m] \in Ended
  BY <1>0, <1>7 DEF End, Ended
<1>8. CASE Start(m) \/ Skip(m)
  <2>1. /\ UNCHANGED <<docs, worker, published>> /\ pc[m] = "waiting"
        /\ pc'[m] \in {"read", "skipped"}
    BY <1>0, <1>8 DEF Start, Skip, MayStart, First, Waiting, budgetVars
  <2> QED
    BY <1>2, <1>3, <1>4, <1>5, <1>6, <2>1
<1>9. CASE Read(m) \/ CountDocuments(m) \/ Stage(m)
  <2>1. /\ UNCHANGED <<docs, worker, published>> /\ pc[m] \in Active \ {"work", "drain"}
        /\ pc'[m] = "inside" => Kind[m] = "search"
    BY <1>0, <1>7, <1>9, <1>6
       DEF Read, CountDocuments, Stage, budgetVars, Active, Outcomes, Exceptions
  <2> QED
    BY <1>2, <1>3, <1>4, <1>5, <1>6, <2>1
<1>10. CASE GiveUp(m)
  <2>1. /\ UNCHANGED <<docs, worker, published>> /\ pc[m] \in Active /\ Busy(m) = {}
        /\ pc'[m] \in Ended
    BY <1>7, <1>10 DEF GiveUp, budgetVars, Active, Outcomes, Exceptions
  <2> QED
    BY <1>2, <1>4, <1>5, <1>6, <2>1
<1>11. CASE Publish(m)
  <2>1. /\ UNCHANGED <<docs, worker>> /\ pc[m] \in Active /\ Extracted(m)
        /\ pc'[m] \in Ended /\ published' \subseteq published \cup {m}
        /\ m \in published' \ published /\ Kind[m] = "full" => Failures(m) = {}
    BY <1>7, <1>11 DEF Publish, budgetVars, Active, Outcomes, Exceptions, Written
  <2>2. Busy(m) = {}
    BY <1>0, <2>1, ExtractedIdle DEF Wholeness
  <2>3. Failures(m) = {} => Complete(m)
    BY <2>1 DEF Extracted, Failures, Complete
  <2>4. m \in published' \ published => (Kind[m] \in {"full", "llm"} => Complete(m))
    BY <1>0, <2>1, <2>3 DEF Wholeness
  <2> QED
    BY <1>2, <1>4, <1>6, <2>1, <2>2, <2>4
<1>12. CASE PublishIndex(m)
  <2>1. /\ UNCHANGED <<docs, worker>> /\ pc[m] = "inside" /\ Kind[m] = "search"
        /\ pc'[m] \in Ended /\ published' \subseteq published \cup {m}
    BY <1>0, <1>7, <1>12 DEF PublishIndex, budgetVars, Outcomes, Exceptions, Wholeness
  <2> QED
    BY <1>2, <1>3, <1>4, <1>6, <2>1
<1>13. CASE Drain(m)
  <2>1. /\ UNCHANGED <<worker, published>> /\ pc[m] = "work" /\ pc'[m] = "drain"
        /\ m \notin published
    BY <1>0, <1>5, <1>13 DEF Drain, Ended, Outcomes, Exceptions
  <2>2. /\ \A k \in Models \ {m} : docs'[k] = docs[k]
        /\ \A d \in DOMAIN Sizes[m] :
             docs'[m][d] = IF docs[m][d] = "queued" THEN "cancelled" ELSE docs[m][d]
    BY <1>0, <1>13 DEF Drain, BudgetTypeOK
  <2>3. \A w \in Workers : Working(w) =>
          Owner[w] \in Models /\ worker[w].doc \in DOMAIN Sizes[Owner[w]]
    BY ConstantFacts DEF BudgetTypeOK, Working
  <2>4. Hands'
    <3>1. \A w \in Workers : Working(w)' <=> Working(w)
      BY <2>1 DEF Working
    <3>2. \A w \in Workers : Working(w) => docs'[Owner[w]][worker[w].doc] = "taken"
      BY <2>2, <2>3 DEF Wholeness, Hands
    <3>3. \A w \in Workers : Working(w) => pc'[Owner[w]] \in {"work", "drain"}
      BY <1>1, <2>1, <2>3 DEF Wholeness, Hands
    <3> QED
      BY <2>1, <3>1, <3>2, <3>3 DEF Wholeness, Hands
  <2>5. \A k \in Models : Failures(k)' \subseteq Failures(k)
    BY <2>2 DEF Failures
  <2>6. \A k \in published : Complete(k) => Complete(k)'
    BY <2>1, <2>2 DEF Complete
  <2> QED
    BY <1>1, <2>1, <2>4, <2>5, <2>6 DEF Wholeness
<1> QED
  BY <1>8, <1>9, <1>10, <1>11, <1>12, <1>13 DEF Model

LEMMA WholenessStep == TypeOK /\ Wholeness /\ [Next]_vars => Wholeness'
<1> SUFFICES ASSUME TypeOK, Wholeness, [Next]_vars PROVE Wholeness'
  OBVIOUS
<1>1. CASE UNCHANGED <<docs, worker, pc, published>>
  BY <1>1 DEF Wholeness, Hands, Working, Failures, Complete
<1>2. CASE NextBatch
  BY <1>1, <1>2 DEF NextBatch, budgetVars
<1> QED
  BY <1>1, <1>2, WholenessWorker, WholenessModel DEF Next, vars, runVars, budgetVars

\* AllOrNothing: a table that is replaced whole, of a full extraction model or
\* an llm model, is published with every document done, whatever failed, was
\* refused or cancelled on the way, and no thread outlives the publication.
THEOREM PublishedWhole == Spec => []AllOrNothing
<1>1. TypeOK /\ Wholeness => AllOrNothing
  BY DEF TypeOK, Wholeness, Hands, Working, Complete, AllOrNothing, Busy, Ended, Outcomes, Exceptions
<1> QED
  BY <1>1, TypeInit, TypeStep, WholenessInit, WholenessStep, PTL DEF Spec

-----------------------------------------------------------------------------
(* Descendants of a failure.                                               *)

\* The models below another in number: proper subsets of each other, so that
\* a set of models has a least one.
Lower(set, x) == {y \in set : y < x}
LEMMA LeastModel ==
  ASSUME NEW set \in SUBSET Models, set # {}
  PROVE  \E x \in set : \A y \in set : x <= y
<1> DEFINE Lowers == {Lower(set, x) : x \in set}
<1>0. \A x \in set : x \in Nat /\ Lower(set, x) \in SUBSET Models
  BY ModelsAssumption DEF Lower
<1>1. Lowers \subseteq FiniteSubsetsOf(Models) /\ Lowers # {}
  <2>1. \A S \in SUBSET Models : IsFiniteSet(S)
    BY ModelsAssumption, FS_Subset
  <2> QED
    BY <1>0, <2>1 DEF FiniteSubsetsOf
<1>2. PICK b \in Lowers : \A c \in Lowers : <<c, b>> \notin StrictSubsetOrdering(Models)
  <2> HIDE DEF Lowers
  <2> QED
    BY <1>1, ModelsAssumption, FS_StrictSubsetOrderingWellFounded, WFMin
<1>3. PICK x \in set : b = Lower(set, x)
  BY <1>2
<1>4. ASSUME NEW y \in set, y < x PROVE FALSE
  <2>1. Lower(set, y) \subseteq Lower(set, x) /\ y \in Lower(set, x) /\ y \notin Lower(set, y)
    BY <1>0, <1>4 DEF Lower
  <2> QED
    BY <1>0, <1>2, <1>3, <2>1 DEF StrictSubsetOrdering
<1> QED
  BY <1>0, <1>4

\* What is reached from a model along Parents satisfies the equation that
\* defines Ancestors, so that there is a function to choose.
Closed(set) == \A x \in set : Parents[x] \subseteq set
Reach(m) ==
  {a \in Models : \A C \in SUBSET Models : Parents[m] \subseteq C /\ Closed(C) => a \in C}
Unfolds(g) == g = [m \in Models |-> Parents[m] \cup UNION {g[p] : p \in Parents[m]}]

LEMMA ReachUnfolds == Unfolds([m \in Models |-> Reach(m)])
<1>0. \A x \in Models : Parents[x] \subseteq Models /\ Parents[x] \subseteq Reach(x)
  BY GraphAssumption DEF Reach
<1>1. ASSUME NEW x \in Models PROVE Closed(Reach(x))
  <2>1. ASSUME NEW a \in Reach(x), NEW b \in Parents[a], NEW C \in SUBSET Models,
               Parents[x] \subseteq C, Closed(C)
        PROVE  b \in C
    BY <2>1 DEF Reach, Closed
  <2>2. \A a \in Reach(x) : a \in Models
    BY DEF Reach
  <2> QED
    BY <1>0, <2>1, <2>2 DEF Closed, Reach
<1>2. ASSUME NEW m \in Models
      PROVE  Reach(m) = Parents[m] \cup UNION {Reach(p) : p \in Parents[m]}
  <2> DEFINE D == Parents[m] \cup UNION {Reach(p) : p \in Parents[m]}
  <2>1. D \in SUBSET Models
    BY <1>0 DEF Reach
  <2>2. Closed(D)
    <3>1. \A p \in Parents[m] : p \in Models
      BY <1>0
    <3> QED
      BY <1>0, <1>1, <3>1 DEF Closed
  <2>3. Reach(m) \subseteq D
    BY <2>1, <2>2 DEF Reach
  <2>4. ASSUME NEW p \in Parents[m], NEW a \in Reach(p), NEW C \in SUBSET Models,
               Parents[m] \subseteq C, Closed(C)
        PROVE  a \in C
    BY <2>4 DEF Reach, Closed
  <2>5. D \subseteq Reach(m)
    BY <1>0, <2>1, <2>4 DEF Reach
  <2> QED
    BY <2>3, <2>5
<1>3. \A m \in Models :
        {[x \in Models |-> Reach(x)][p] : p \in Parents[m]} = {Reach(p) : p \in Parents[m]}
  BY <1>0
<1> QED
  BY <1>2, <1>3 DEF Unfolds

LEMMA AncestorsUnfold ==
  \A m \in Models : Ancestors[m] = Parents[m] \cup UNION {Ancestors[p] : p \in Parents[m]}
<1>1. Ancestors = CHOOSE g : Unfolds(g)
  BY DEF Ancestors, Unfolds
<1>2. Unfolds(Ancestors)
  BY <1>1, ReachUnfolds
<1> QED
  BY <1>2 DEF Unfolds

\* An ancestor has a smaller number; by the least model of which it is false.
LEMMA AncestorsBefore == \A m \in Models : \A a \in Ancestors[m] : a \in Models /\ a < m
<1> DEFINE Good(m) == \A a \in Ancestors[m] : a \in Models /\ a < m
           Bad == {m \in Models : ~Good(m)}
<1>1. SUFFICES ASSUME Bad # {} PROVE FALSE
  OBVIOUS
<1>2. PICK m \in Bad : \A x \in Bad : m <= x
  BY <1>1, LeastModel
<1>3. ASSUME NEW p \in Parents[m] PROVE p \in Models /\ p < m /\ Good(p)
  <2>1. p \in Models /\ p < m /\ p \in Nat /\ m \in Nat
    BY GraphAssumption, ModelsAssumption
  <2>2. p \notin Bad
    BY <1>2, <2>1
  <2> QED
    BY <2>1, <2>2
<1>4. ASSUME NEW a \in Ancestors[m] PROVE a \in Models /\ a < m
  <2>1. CASE a \in Parents[m]
    BY <1>3, <2>1
  <2>2. CASE \E p \in Parents[m] : a \in Ancestors[p]
    <3>1. PICK p \in Parents[m] : a \in Ancestors[p]
      BY <2>2
    <3>2. a \in Models /\ a < p /\ p < m /\ p \in Models /\ m \in Models
      BY <1>3, <3>1
    <3>3. a \in Nat /\ p \in Nat /\ m \in Nat
      BY <3>2, ModelsAssumption
    <3> QED
      BY <3>2, <3>3
  <2> QED
    BY <2>1, <2>2, AncestorsUnfold
<1> QED
  BY <1>4

\* A build goes through its models in order, and what it blocks is what lies
\* below a failure; BlocksDescendants alone does not know that nothing below a
\* model has started when the model fails.
Failed == {a \in selected : pc[a] \in Outcomes \ {"ok"}}
InOrder ==
  \A x, y \in selected : pc[x] # "waiting" /\ pc[y] \in {"waiting"} \cup Active => x <= y
Blocking ==
  mode = "build" =>
    /\ InOrder
    /\ blocked = {x \in Models : Ancestors[x] \cap Failed # {}}
    /\ \A m \in selected :
         /\ pc[m] = "skipped" => m \in blocked
         /\ pc[m] \in Active \cup Outcomes => m \notin blocked

LEMMA BlockingInit == Init => Blocking
<1> SUFFICES ASSUME Init PROVE Blocking
  OBVIOUS
<1>1. \A m \in selected : pc[m] = "waiting"
  BY DEF Init
<1>2. Failed = {} /\ blocked = {}
  BY <1>1 DEF Init, Failed, Outcomes, Exceptions
<1> QED
  BY <1>1, <1>2 DEF Blocking, InOrder, Active, Outcomes, Exceptions

\* How a step of a model changes what is blocked.
LEMMA BlockedStep ==
  ASSUME TypeOK, NEW m \in selected, Model(m)
  PROVE  \/ /\ UNCHANGED blocked
            /\ \/ pc'[m] \in Active
               \/ pc[m] = "waiting" /\ m \in blocked /\ pc'[m] = "skipped"
         \/ \E outcome \in Outcomes : End(m, outcome)
<1>0. m \in Models /\ pc[m] \in {"waiting"} \cup Active \cup Ended /\ DOMAIN pc = Models
  BY DEF TypeOK
<1>1. CASE Start(m) \/ Skip(m)
  BY <1>0, <1>1 DEF Start, Skip, Active, MayStart, First, Waiting
<1>2. CASE Read(m) \/ CountDocuments(m)
  BY <1>0, <1>2 DEF Read, CountDocuments, Active, Outcomes, Exceptions
<1>3. CASE Stage(m) \/ Drain(m)
  BY <1>0, <1>3 DEF Stage, Drain, Active
<1>4. CASE GiveUp(m) \/ Publish(m) \/ PublishIndex(m)
  BY <1>4 DEF GiveUp, Publish, PublishIndex, Outcomes, Exceptions
<1> QED
  BY <1>1, <1>2, <1>3, <1>4 DEF Model

\* A model that starts or is skipped blocks nothing.
LEMMA BlockingGoesOn ==
  ASSUME TypeOK, Blocking, mode = "build", NEW m \in selected, Model(m), UNCHANGED blocked,
         pc'[m] \in Active \/ (pc[m] = "waiting" /\ m \in blocked /\ pc'[m] = "skipped")
  PROVE  Blocking'
<1>0. /\ \A x \in selected : x \in Nat /\ x \in Models
      /\ Active \cap Ended = {} /\ "waiting" \notin Active \cup Ended
      /\ "skipped" \notin Outcomes /\ Outcomes \subseteq Ended /\ "skipped" \in Ended
  BY ModelsAssumption DEF TypeOK, Active, Ended, Outcomes, Exceptions
<1>1. /\ UNCHANGED <<mode, selected>>
      /\ \A p \in selected \ {m} : pc'[p] = pc[p]
      /\ \/ MayStart(m) /\ pc[m] = "waiting"
         \/ pc[m] \in Active
  BY <1>0, PcStep
<1>2. Failed' = Failed
  BY <1>0, <1>1 DEF Failed
<1>3. InOrder'
  <2> SUFFICES ASSUME NEW x \in selected, NEW y \in selected, pc'[x] # "waiting",
                      pc'[y] \in {"waiting"} \cup Active
               PROVE  x <= y
    BY <1>1 DEF InOrder
  <2>1. CASE pc[m] \in Active
    <3>1. pc[x] # "waiting" /\ pc[y] \in {"waiting"} \cup Active
      BY <1>0, <1>1, <2>1
    <3> QED
      BY <3>1 DEF Blocking, InOrder
  <2>2. CASE MayStart(m) /\ pc[m] = "waiting"
    <3>1. First(Waiting, m) /\ Running = {}
      BY <2>2 DEF MayStart
    <3>2. y = m \/ y \in Waiting
      BY <1>1, <3>1 DEF Running, Waiting
    <3>3. CASE x = m
      BY <1>0, <3>1, <3>2, <3>3 DEF First
    <3>4. CASE x # m
      <4>1. pc[x] # "waiting" /\ pc[y] = "waiting"
        BY <1>1, <2>2, <3>2, <3>4 DEF Waiting
      <4> QED
        BY <4>1 DEF Blocking, InOrder
    <3> QED
      BY <3>3, <3>4
  <2> QED
    BY <1>1, <2>1, <2>2
<1>4. blocked' = {x \in Models : Ancestors[x] \cap Failed' # {}}
  BY <1>2 DEF Blocking
<1>5. pc'[m] \in Active => m \notin blocked
  <2>1. CASE pc[m] \in Active
    BY <2>1 DEF Blocking
  <2>2. CASE pc[m] = "waiting" /\ pc'[m] \in Active
    <3>1. Start(m)
      BY <1>0, <2>2 DEF Model, Skip, Read, CountDocuments, Stage, Drain, GiveUp, Publish,
                        PublishIndex, TypeOK
    <3> QED
      BY <3>1 DEF Start
  <2> QED
    BY <1>1, <2>1, <2>2
<1>6. \A x \in selected' :
        /\ pc'[x] = "skipped" => x \in blocked'
        /\ pc'[x] \in Active \cup Outcomes => x \notin blocked'
  BY <1>0, <1>1, <1>5 DEF Blocking
<1> QED
  BY <1>3, <1>4, <1>6 DEF Blocking

\* A failure blocks models that have not been reached.
LEMMA BlockingEnds ==
  ASSUME TypeOK, Blocking, mode = "build", NEW m \in selected, Model(m),
         NEW outcome \in Outcomes, End(m, outcome)
  PROVE  Blocking'
<1>0. /\ \A x \in selected : x \in Nat /\ x \in Models
      /\ Active \cap Ended = {} /\ "waiting" \notin Active \cup Ended
      /\ "skipped" \notin Outcomes /\ Outcomes \subseteq Ended
  BY ModelsAssumption DEF TypeOK, Active, Ended, Outcomes, Exceptions
<1>1. /\ UNCHANGED <<mode, selected>> /\ pc'[m] = outcome
      /\ \A p \in selected \ {m} : pc'[p] = pc[p]
  BY <1>0 DEF End, TypeOK
<1>2. pc[m] \in Active
  BY <1>0, <1>1, PcStep DEF Outcomes, Exceptions
<1>3. InOrder'
  <2>1. \A x \in selected :
          /\ pc'[x] # "waiting" => pc[x] # "waiting"
          /\ pc'[x] \in {"waiting"} \cup Active => pc[x] \in {"waiting"} \cup Active
    BY <1>0, <1>1, <1>2
  <2> QED
    BY <1>1, <2>1 DEF Blocking, InOrder
<1>4. /\ Failed' = IF outcome = "ok" THEN Failed ELSE Failed \cup {m}
      /\ blocked' = IF outcome = "ok" THEN blocked ELSE blocked \cup Descendants(m)
  BY <1>0, <1>1, <1>2 DEF Failed, End
<1>5. blocked' = {x \in Models : Ancestors[x] \cap Failed' # {}}
  BY <1>4 DEF Blocking, Descendants
<1>6. ASSUME NEW x \in selected, pc'[x] \in Active \cup Outcomes
      PROVE  x \notin blocked'
  <2>1. pc[x] \in Active \cup Outcomes /\ pc[x] # "waiting"
    BY <1>0, <1>1, <1>2, <1>6
  <2>2. x \notin blocked /\ x <= m
    BY <1>2, <2>1 DEF Blocking, InOrder
  <2>3. m \notin Ancestors[x]
    <3>1. SUFFICES ASSUME m < x PROVE FALSE
      BY <1>0, AncestorsBefore
    <3> QED
      BY <1>0, <2>2, <3>1
  <2> QED
    BY <1>4, <2>2, <2>3 DEF Descendants
<1>7. ASSUME NEW x \in selected, pc'[x] = "skipped" PROVE x \in blocked'
  BY <1>0, <1>1, <1>4, <1>7 DEF Blocking
<1> QED
  BY <1>1, <1>3, <1>5, <1>6, <1>7 DEF Blocking

LEMMA BlockingStep == TypeOK /\ Blocking /\ [Next]_vars => Blocking'
<1> SUFFICES ASSUME TypeOK, Blocking, [Next]_vars PROVE Blocking'
  OBVIOUS
<1>1. CASE UNCHANGED <<mode, selected, pc, blocked>>
  BY <1>1 DEF Blocking, InOrder, Failed
<1>2. CASE NextBatch
  BY <1>1, <1>2 DEF NextBatch
<1>3. ASSUME NEW m \in selected, Model(m) PROVE Blocking'
  <2>1. CASE mode # "build"
    BY <1>3, <2>1, PcStep DEF Blocking
  <2>2. CASE mode = "build"
    BY <1>3, <2>2, BlockedStep, BlockingGoesOn, BlockingEnds
  <2> QED
    BY <2>1, <2>2
<1>4. ASSUME NEW w \in Workers, Worker(w) PROVE Blocking'
  BY <1>1, <1>4 DEF Worker, runVars
<1> QED
  BY <1>1, <1>2, <1>3, <1>4 DEF Next, vars, runVars

\* BlocksDescendants: in a build of any graph nothing runs below a model that
\* raised, had errors or whose tests failed, however far below, and nothing
\* else is skipped.
THEOREM FailuresBlock == Spec => []BlocksDescendants
<1>1. TypeOK /\ Blocking => BlocksDescendants
  <2> SUFFICES ASSUME TypeOK, Blocking, mode = "build", NEW m \in selected
               PROVE  /\ pc[m] \in Active \cup Outcomes => Ancestors[m] \cap Failed = {}
                      /\ pc[m] = "skipped" => Ancestors[m] \cap Failed # {}
    BY DEF BlocksDescendants, Failed
  <2> QED
    BY DEF Blocking, TypeOK
<1> QED
  BY <1>1, TypeInit, TypeStep, BlockingInit, BlockingStep, PTL DEF Spec

-----------------------------------------------------------------------------
(* What is sent and what is paid.                                          *)

\* n is the sum of g over all threads: the last value of a function that sums g
\* over every set of them, written without recursion.
Sums(S, g) ==
  /\ S \in [SUBSET Workers -> Nat]
  /\ \A W \in SUBSET Workers : \A w \in W : S[W] = S[W \ {w}] + g[w]
  /\ \A W \in SUBSET Workers : (\A w \in W : g[w] = 0) => S[W] = 0
Total(g, n) == \E S : Sums(S, g) /\ n = S[Workers]

LEMMA TotalZero ==
  ASSUME NEW g \in [Workers -> Nat], \A w \in Workers : g[w] = 0
  PROVE  /\ Total(g, 0)
         /\ \A n : Total(g, n) => n = 0
<1>1. Sums([W \in SUBSET Workers |-> 0], g)
  BY DEF Sums
<1>2. Workers \in SUBSET Workers
  OBVIOUS
<1> QED
  BY <1>1, <1>2 DEF Total, Sums

\* The sum when one thread changes its part.
LEMMA TotalStep ==
  ASSUME NEW g \in [Workers -> Nat], NEW h \in [Workers -> Nat], NEW n, Total(g, n),
         NEW w \in Workers, \A x \in Workers \ {w} : h[x] = g[x]
  PROVE  \E k \in Nat : Total(h, k) /\ n \in Nat /\ k + g[w] = n + h[w] /\ g[w] <= n
<1>1. PICK S : Sums(S, g) /\ n = S[Workers]
  BY DEF Total
<1> DEFINE T == [W \in SUBSET Workers |-> IF w \in W THEN S[W \ {w}] + h[w] ELSE S[W]]
<1>2. \A W \in SUBSET Workers : S[W] \in Nat /\ S[W \ {w}] \in Nat /\ T[W] \in Nat
  BY <1>1 DEF Sums
<1>3. ASSUME NEW W \in SUBSET Workers, NEW x \in W PROVE T[W] = T[W \ {x}] + h[x]
  <2>1. CASE x = w
    <3>1. w \notin W \ {x} /\ W \ {x} \in SUBSET Workers
      BY <2>1
    <3> QED
      BY <2>1, <3>1
  <2>2. CASE x # w /\ w \in W
    <3> DEFINE V == (W \ {x}) \ {w}
    <3>1. /\ V = (W \ {w}) \ {x} /\ w \in W \ {x} /\ x \in W \ {w}
          /\ W \ {x} \in SUBSET Workers /\ W \ {w} \in SUBSET Workers /\ V \in SUBSET Workers
          /\ h[x] = g[x] /\ x \in Workers
      BY <2>2
    <3>2. T[W] = S[W \ {w}] + h[w] /\ T[W \ {x}] = S[V] + h[w]
      BY <2>2, <3>1
    <3>3. S[W \ {w}] = S[V] + g[x]
      BY <1>1, <3>1 DEF Sums
    <3>4. S[V] \in Nat /\ g[x] \in Nat /\ h[w] \in Nat
      BY <1>2, <3>1
    <3> HIDE DEF T, V
    <3> QED
      BY <3>1, <3>2, <3>3, <3>4
  <2>3. CASE w \notin W
    <3>1. w \notin W \ {x} /\ W \ {x} \in SUBSET Workers /\ h[x] = g[x]
      BY <2>3
    <3> QED
      BY <1>1, <2>3, <3>1 DEF Sums
  <2> QED
    BY <2>1, <2>2, <2>3
<1>4. ASSUME NEW W \in SUBSET Workers, \A x \in W : h[x] = 0 PROVE T[W] = 0
  <2>1. \A x \in W \ {w} : g[x] = 0
    BY <1>4
  <2>2. W \ {w} \in SUBSET Workers /\ S[W \ {w}] = 0
    BY <1>1, <2>1 DEF Sums
  <2>3. w \notin W => W \ {w} = W
    OBVIOUS
  <2> QED
    BY <1>4, <2>2, <2>3
<1>5. Sums(T, h)
  BY <1>2, <1>3, <1>4 DEF Sums
<1>6. /\ Workers \in SUBSET Workers /\ Workers \ {w} \in SUBSET Workers
      /\ T[Workers] = S[Workers \ {w}] + h[w]
      /\ S[Workers] = S[Workers \ {w}] + g[w]
  BY <1>1 DEF Sums
<1>7. g[w] \in Nat /\ h[w] \in Nat /\ S[Workers \ {w}] \in Nat /\ T[Workers] \in Nat
  BY <1>2, <1>6
<1> HIDE DEF T
<1> QED
  BY <1>1, <1>5, <1>6, <1>7 DEF Total

\* The bytes a model has counted for a document that is not sent yet, and the
\* usage of an answer that a ledger has not been charged.
Transit(w, l) ==
  IF l # Run /\ Owner[w] = l /\ worker[w].stage = "bytes_run" THEN Size(w) ELSE 0
Unpaid(l) == IF l = Run THEN {"charge", "charge_run"} ELSE {"charge"}
Owed(w, l, f) ==
  IF w \in Payers(l) /\ worker[w].stage \in Unpaid(l) THEN worker[w].use[f] ELSE 0

\* What was counted covers what was sent and what is about to be; SentBounded
\* alone forgets that several threads of a model are between the two counts.
Sent ==
  \A l \in Ledgers : \E n \in Nat :
    /\ Total([w \in Workers |-> Transit(w, l)], n)
    /\ billed[l]["bytes"] + n <= spent[l]["bytes"]
    /\ Within(l, "bytes", billed[l]["bytes"] + n)
\* What was billed and is not counted is in the hands of threads.
Balanced ==
  \A l \in Ledgers, f \in Charges : \E n \in Nat :
    /\ Total([w \in Workers |-> Owed(w, l, f)], n)
    /\ billed[l][f] = spent[l][f] + n

LEMMA PartTypes ==
  ASSUME BudgetTypeOK, NEW w \in Workers, NEW l \in Ledgers
  PROVE  Transit(w, l) \in Nat /\ \A f \in Charges : Owed(w, l, f) \in Nat
<1>1. worker[w].stage = "bytes_run" => Size(w) \in Nat
  BY ConstantFacts DEF Size, BudgetTypeOK
<1>2. \A f \in Charges : worker[w].use[f] \in Nat
  BY ConstantFacts DEF BudgetTypeOK, Uses
<1> QED
  BY <1>1, <1>2 DEF Transit, Owed

LEMMA AccountsInit == Init => Sent /\ Balanced
<1> SUFFICES ASSUME Init PROVE Sent /\ Balanced
  OBVIOUS
<1>0. \A w \in Workers : worker[w].stage = "idle"
  BY DEF Init, BudgetInit, Idle
<1>1. ASSUME NEW l \in Ledgers
      PROVE  /\ billed[l]["bytes"] = 0 /\ spent[l]["bytes"] = 0 /\ Within(l, "bytes", 0)
             /\ \A f \in Charges : billed[l][f] = 0 /\ spent[l][f] = 0
  <2>1. "bytes" \in Fields /\ Charges \subseteq Fields
    BY DEF Fields, Charges
  <2>2. Within(l, "bytes", 0)
    BY <2>1, CapAssumption DEF Within
  <2> QED
    BY <2>1, <2>2 DEF Init, BudgetInit, Zero, Charges
<1>2. ASSUME NEW l \in Ledgers
      PROVE  /\ Total([w \in Workers |-> Transit(w, l)], 0)
             /\ \A f \in Charges : Total([w \in Workers |-> Owed(w, l, f)], 0)
  <2>1. \A w \in Workers : Transit(w, l) = 0
    BY <1>0 DEF Transit
  <2>2. \A f \in Charges : \A w \in Workers : Owed(w, l, f) = 0
    BY <1>0 DEF Owed, Unpaid
  <2>3. Total([w \in Workers |-> Transit(w, l)], 0)
    BY <2>1, TotalZero
  <2>4. ASSUME NEW f \in Charges PROVE Total([w \in Workers |-> Owed(w, l, f)], 0)
    <3>1. \A w \in Workers : Owed(w, l, f) = 0
      BY <2>2
    <3> QED
      BY <3>1, TotalZero
  <2> QED
    BY <2>3, <2>4
<1>3. Sent
  BY <1>1, <1>2 DEF Sent
<1>4. Balanced
  <2> SUFFICES ASSUME NEW l \in Ledgers, NEW f \in Charges
               PROVE  \E n \in Nat : /\ Total([w \in Workers |-> Owed(w, l, f)], n)
                                     /\ billed[l][f] = spent[l][f] + n
    BY DEF Balanced
  <2>1. Total([w \in Workers |-> Owed(w, l, f)], 0)
    BY <1>2
  <2>2. billed[l][f] = spent[l][f] + 0
    BY <1>1
  <2> QED
    BY <2>1, <2>2
<1> QED
  BY <1>3, <1>4

\* A thread moves alone.
LEMMA Alone ==
  ASSUME BudgetTypeOK, NEW w \in Workers, Take(w) \/ Work(w)
  PROVE  \A x \in Workers \ {w} : worker'[x] = worker[x]
<1> USE DEF BudgetTypeOK
<1>1. CASE Take(w)
  BY <1>1 DEF Take
<1>2. CASE Work(w)
  BY <1>2 DEF Work, GateModel, GateRun, Gate, BytesModel, BytesRun, Answer, Fail, ChargeModel,
              ChargeRun, Goto, Finish
<1> QED
  BY <1>1, <1>2

\* What a step of a thread does to the bytes of a ledger: nothing of what was
\* sent or counted is taken back, and what comes is counted and within the cap.
SentStep(w, l) ==
  \/ /\ billed'[l]["bytes"] + Transit(w, l)' <= billed[l]["bytes"] + Transit(w, l)
     /\ spent[l]["bytes"] <= spent'[l]["bytes"]
  \/ \E k \in Nat :
      /\ billed'[l]["bytes"] + Transit(w, l)' = billed[l]["bytes"] + Transit(w, l) + k
      /\ spent'[l]["bytes"] = spent[l]["bytes"] + k
      /\ Within(l, "bytes", spent'[l]["bytes"])

LEMMA WorkSent ==
  ASSUME BudgetTypeOK, NEW w \in Workers, Take(w) \/ Work(w), NEW l \in Ledgers
  PROVE  SentStep(w, l)
<1> DEFINE m == Owner[w]
<1>0. /\ m \in Models /\ m # Run /\ m \in Ledgers /\ Run \in Ledgers
      /\ {"bytes", "calls", "tokens"} \subseteq Fields
      /\ {"idle", "gate_run", "bytes", "bytes_run", "call", "charge_run"} \subseteq Stages
      /\ worker[w] \in [stage : Stages, doc : Nat, use : Usages \cup {NoUse}]
  BY ConstantFacts DEF Fields, Stages, BudgetTypeOK
<1>1. /\ billed[l]["bytes"] \in Nat /\ spent[l]["bytes"] \in Nat /\ Transit(w, l) \in Nat
      /\ \A f \in Charges : worker[w].use[f] \in Nat
      /\ worker[w].stage # "idle" => Size(w) \in Nat
  BY <1>0, ConstantFacts, PartTypes, SMTT(30) DEF BudgetTypeOK, Size, Uses
\* What leaves the ledgers' bytes alone and does not prepare to send.
<1>2. ASSUME billed'[l]["bytes"] = billed[l]["bytes"],
             \/ spent'[l]["bytes"] = spent[l]["bytes"]
             \/ \E k \in Nat : spent'[l]["bytes"] = spent[l]["bytes"] + k,
             l # m \/ worker'[w].stage # "bytes_run"
      PROVE  SentStep(w, l)
  <2>1. Transit(w, l)' = 0
    BY <1>2 DEF Transit
  <2> QED
    BY <1>1, <1>2, <2>1 DEF SentStep
<1>3. CASE Take(w)
  BY <1>2, <1>3 DEF Take, BudgetTypeOK
<1>4. CASE GateModel(w) \/ GateRun(w)
  <2>1. worker'[w].stage # "bytes_run" /\ UNCHANGED <<billed, spent>>
    BY <1>0, <1>4, MovedStages DEF GateModel, GateRun, Gate
  <2> QED
    BY <1>2, <2>1
<1>5. ASSUME NEW k \in Ledgers, NEW n \in Nat
      PROVE  Count(k, "bytes", n)[l]["bytes"]
               = IF l = k THEN spent[l]["bytes"] + n ELSE spent[l]["bytes"]
  BY <1>0, <1>5 DEF Count, BudgetTypeOK
<1>6. CASE BytesModel(w)
  <2>1. CASE worker'[w].stage # "bytes_run"
    BY <1>0, <1>1, <1>2, <1>5, <1>6, <2>1 DEF BytesModel, At
  <2>2. CASE worker'[w].stage = "bytes_run"
    <3>1. /\ spent' = Count(m, "bytes", Size(w)) /\ Within(m, "bytes", spent'[m]["bytes"])
          /\ Goto(w, "bytes_run") /\ UNCHANGED billed /\ worker[w].stage = "bytes"
      BY <1>0, <1>6, <2>2, MovedStages DEF BytesModel, At
    <3>2. worker'[w].doc = worker[w].doc
      BY <3>1 DEF Goto, BudgetTypeOK
    <3>3. CASE l = m
      <4>1. Transit(w, l) = 0 /\ Transit(w, l)' = Size(w)
        BY <1>0, <2>2, <3>1, <3>2, <3>3 DEF Transit, Size
      <4>2. spent'[l]["bytes"] = spent[l]["bytes"] + Size(w)
        BY <1>0, <1>1, <1>5, <3>1, <3>3
      <4>3. Size(w) \in Nat
        BY <1>1, <3>1
      <4> QED
        BY <1>1, <3>1, <3>3, <4>1, <4>2, <4>3 DEF SentStep
    <3>4. CASE l # m
      BY <1>0, <1>1, <1>2, <1>5, <3>1, <3>4
    <3> QED
      BY <3>3, <3>4
  <2> QED
    BY <2>1, <2>2
<1>7. CASE BytesRun(w)
  <2>1. /\ spent' = Count(Run, "bytes", Size(w)) /\ worker[w].stage = "bytes_run"
        /\ worker'[w].stage \in {"call", "idle"} /\ Size(w) \in Nat
        /\ \/ /\ Within(Run, "bytes", spent'[Run]["bytes"]) /\ Send(m, Size(w))
           \/ UNCHANGED billed
    BY <1>0, <1>1, <1>7, MovedStages DEF BytesRun, At
  <2>2. /\ Transit(w, l)' = 0
        /\ Transit(w, l) = IF l = m THEN Size(w) ELSE 0
    BY <1>0, <2>1 DEF Transit
  <2>3. CASE UNCHANGED billed
    BY <1>0, <1>2, <1>5, <2>1, <2>3
  <2>4. CASE Within(Run, "bytes", spent'[Run]["bytes"]) /\ Send(m, Size(w))
    <3>1. billed'[l]["bytes"]
            = IF l \in {m, Run} THEN billed[l]["bytes"] + Size(w) ELSE billed[l]["bytes"]
      BY <2>4 DEF Send, BudgetTypeOK
    <3>2. CASE l = Run
      BY <1>0, <1>1, <1>5, <2>1, <2>2, <2>4, <3>1, <3>2 DEF SentStep
    <3>3. CASE l # Run
      <4>1. spent'[l]["bytes"] = spent[l]["bytes"]
        BY <1>0, <1>5, <2>1, <3>3
      <4> QED
        BY <1>1, <2>1, <2>2, <3>1, <3>3, <4>1 DEF SentStep
    <3> QED
      BY <3>2, <3>3
  <2> QED
    BY <2>1, <2>3, <2>4
<1>8. ASSUME NEW use, Bill(m, use)
      PROVE  billed'[l]["bytes"] = billed[l]["bytes"]
  BY <1>8 DEF Bill, BudgetTypeOK
<1>9. CASE Answer(w) \/ Fail(w)
  <2>1. UNCHANGED spent /\ worker'[w].stage \in {"charge", "idle"}
    BY <1>0, <1>9, MovedStages DEF Answer, Fail, BudgetTypeOK
  <2>2. billed'[l]["bytes"] = billed[l]["bytes"]
    BY <1>8, <1>9 DEF Answer, Fail
  <2> QED
    BY <1>2, <2>1, <2>2
<1>10. ASSUME NEW k \in Ledgers
       PROVE  Charged(k, worker[w].use)[l]["bytes"] = spent[l]["bytes"]
  BY <1>0, <1>10 DEF Charged, BudgetTypeOK
<1>11. CASE ChargeModel(w) \/ ChargeRun(w)
  <2>1. /\ UNCHANGED billed /\ worker'[w].stage \in {"charge_run", "idle"}
        /\ \E k \in Ledgers : spent' = Charged(k, worker[w].use)
    BY <1>0, <1>11, MovedStages DEF ChargeModel, ChargeRun
  <2> QED
    BY <1>2, <1>10, <2>1
<1> QED
  BY <1>3, <1>4, <1>6, <1>7, <1>9, <1>11 DEF Work

\* What a thread adds to the bill it counts, or owes.
LEMMA WorkBalanced ==
  ASSUME ~AnswersRejected, BudgetTypeOK, NEW w \in Workers, Take(w) \/ Work(w),
         NEW l \in Ledgers, NEW f \in Charges
  PROVE  billed'[l][f] + spent[l][f] + Owed(w, l, f)
           = billed[l][f] + spent'[l][f] + Owed(w, l, f)'
<1> DEFINE m == Owner[w]
<1>0. /\ m \in Models /\ m # Run /\ m \in Ledgers /\ Run \in Ledgers
      /\ {"bytes", "calls", "tokens"} \subseteq Fields /\ f \in {"calls", "tokens"}
      /\ {"idle", "gate_run", "bytes", "bytes_run", "call", "charge", "charge_run"} \subseteq Stages
      /\ worker[w] \in [stage : Stages, doc : Nat, use : Usages \cup {NoUse}]
      /\ w \in Payers(l) <=> l \in {m, Run}
  BY ConstantFacts DEF Fields, Charges, Stages, BudgetTypeOK, Payers
<1>1. /\ billed[l][f] \in Nat /\ spent[l][f] \in Nat /\ Owed(w, l, f) \in Nat
      /\ worker[w].use["calls"] \in Nat /\ worker[w].use["tokens"] \in Nat
      /\ worker[w].use[f] \in Nat
      /\ worker[w].stage # "idle" => Size(w) \in Nat
  <2>1. worker[w].use \in Uses /\ "calls" \in Charges /\ "tokens" \in Charges
    BY <1>0 DEF Uses, Charges
  <2>2. \A u \in Uses, g \in Charges : u[g] \in Nat
    BY ConstantFacts
  <2>3. billed[l][f] \in Nat /\ spent[l][f] \in Nat
    BY <1>0 DEF BudgetTypeOK
  <2>4. worker[w].stage # "idle" => Size(w) \in Nat
    BY <1>0, ConstantFacts DEF BudgetTypeOK, Size
  <2> QED
    BY <2>1, <2>2, <2>3, <2>4, PartTypes
<1>2. /\ worker[w].stage \notin {"charge", "charge_run"} => Owed(w, l, f) = 0
      /\ worker'[w].stage \notin {"charge", "charge_run"} => Owed(w, l, f)' = 0
  BY DEF Owed, Unpaid
<1>3. ASSUME worker[w].stage \notin {"charge", "charge_run"},
             worker'[w].stage \notin {"charge", "charge_run"},
             billed'[l][f] = billed[l][f], spent'[l][f] = spent[l][f]
      PROVE  billed'[l][f] + spent[l][f] + Owed(w, l, f)
               = billed[l][f] + spent'[l][f] + Owed(w, l, f)'
  BY <1>1, <1>2, <1>3
<1>4. CASE Take(w)
  BY <1>3, <1>4 DEF Take, BudgetTypeOK, At
<1>5. CASE GateModel(w) \/ GateRun(w) \/ Fail(w)
  <2>1. /\ UNCHANGED <<billed, spent>>
        /\ worker[w].stage \in {"gate", "gate_run", "bytes", "call"}
        /\ worker'[w].stage \in {"gate_run", "bytes", "call", "idle"}
    BY <1>0, <1>5, MovedStages DEF GateModel, GateRun, Gate, Fail, At
  <2> QED
    BY <1>3, <2>1
<1>6. ASSUME NEW k \in Ledgers, NEW n \in Nat
      PROVE  Count(k, "bytes", n)[l][f] = spent[l][f]
  BY <1>0, <1>6 DEF Count, BudgetTypeOK
<1>7. CASE BytesModel(w) \/ BytesRun(w)
  <2>1. spent'[l][f] = spent[l][f]
    BY <1>0, <1>1, <1>6, <1>7 DEF BytesModel, BytesRun, At
  <2>2. /\ worker[w].stage \in {"bytes", "bytes_run"}
        /\ worker'[w].stage \in {"bytes_run", "call", "idle"}
    BY <1>0, <1>7, MovedStages DEF BytesModel, BytesRun, At
  <2>3. billed'[l][f] = billed[l][f]
    BY <1>0, <1>7 DEF BytesModel, BytesRun, Send, BudgetTypeOK
  <2> QED
    BY <1>3, <2>1, <2>2, <2>3
<1>8. CASE Answer(w)
  <2>1. PICK use \in Usages :
          /\ Bill(m, use)
          /\ worker' = [worker EXCEPT ![w].stage = "charge", ![w].use = use]
    BY <1>8 DEF Answer
  <2>2. UNCHANGED spent /\ worker[w].stage = "call"
    BY <1>8 DEF Answer, At
  <2>3. worker'[w].stage = "charge" /\ worker'[w].use = use
    BY <1>0, <2>1 DEF BudgetTypeOK
  <2>4. billed'[l][f]
          = IF l \in {m, Run} THEN billed[l][f] + use[f] ELSE billed[l][f]
    BY <1>0, <2>1 DEF Bill, BudgetTypeOK
  <2>5. Owed(w, l, f)' = IF l \in {m, Run} THEN use[f] ELSE 0
    BY <1>0, <2>3 DEF Owed, Unpaid, Payers
  <2>6. use[f] \in Nat
    BY <1>0, UsageAssumption
  <2> QED
    BY <1>1, <1>2, <2>2, <2>4, <2>5, <2>6
<1>9. ASSUME NEW k \in Ledgers
      PROVE  Charged(k, worker[w].use)[l][f]
               = IF l = k THEN spent[l][f] + worker[w].use[f] ELSE spent[l][f]
  BY <1>0, <1>1, <1>9 DEF Charged, BudgetTypeOK
<1>10. CASE ChargeModel(w)
  <2>1. /\ UNCHANGED billed /\ spent' = Charged(m, worker[w].use)
        /\ worker[w].stage = "charge" /\ worker'[w].stage = "charge_run"
        /\ worker'[w].use = worker[w].use
    BY <1>0, <1>10 DEF ChargeModel, Goto, At, BudgetTypeOK
  <2>2. /\ Owed(w, l, f) = IF l \in {m, Run} THEN worker[w].use[f] ELSE 0
        /\ Owed(w, l, f)' = IF l = Run THEN worker[w].use[f] ELSE 0
    BY <1>0, <2>1 DEF Owed, Unpaid, Payers
  <2>3. spent'[l][f] = IF l = m THEN spent[l][f] + worker[w].use[f] ELSE spent[l][f]
    BY <1>0, <1>9, <2>1
  <2> QED
    BY <1>0, <1>1, <2>1, <2>2, <2>3
<1>11. CASE ChargeRun(w)
  <2>1. /\ UNCHANGED billed /\ spent' = Charged(Run, worker[w].use)
        /\ worker[w].stage = "charge_run" /\ worker'[w].stage = "idle"
    BY <1>0, <1>11, MovedStages DEF ChargeRun, At
  <2>2. /\ Owed(w, l, f) = IF l = Run THEN worker[w].use[f] ELSE 0
        /\ Owed(w, l, f)' = 0
    BY <1>0, <1>2, <2>1 DEF Owed, Unpaid
  <2>3. spent'[l][f] = IF l = Run THEN spent[l][f] + worker[w].use[f] ELSE spent[l][f]
    BY <1>0, <1>9, <2>1
  <2> QED
    BY <1>0, <1>1, <2>1, <2>2, <2>3
<1> QED
  BY <1>4, <1>5, <1>7, <1>8, <1>10, <1>11 DEF Work

\* The steps of a run send and bill nothing.
LEMMA RunAccounts ==
  ASSUME BudgetTypeOK, NextBatch \/ (\E m \in selected : Model(m)) \/ UNCHANGED vars
  PROVE  /\ UNCHANGED <<worker, billed>>
         /\ \A l \in Ledgers, f \in Charges \cup {"bytes"} : spent'[l][f] = spent[l][f]
<1>1. CASE UNCHANGED vars \/ NextBatch
  BY <1>1 DEF vars, budgetVars, NextBatch
<1>2. ASSUME NEW m \in selected, Model(m)
      PROVE  /\ UNCHANGED <<worker, billed>>
             /\ \A l \in Ledgers, f \in Charges \cup {"bytes"} : spent'[l][f] = spent[l][f]
  <2>1. UNCHANGED <<worker, billed>>
    BY <1>2 DEF Model, Start, Skip, Read, CountDocuments, Stage, Drain, GiveUp, Publish,
                PublishIndex, budgetVars
  <2>2. CASE CountDocuments(m)
    BY <2>1, <2>2 DEF CountDocuments, Count, BudgetTypeOK, Charges, Fields
  <2>3. CASE ~CountDocuments(m)
    <3>1. UNCHANGED spent
      BY <1>2, <2>3 DEF Model, Start, Skip, Read, Stage, Drain, GiveUp, Publish,
                        PublishIndex, budgetVars
    <3> QED
      BY <2>1, <3>1
  <2> QED
    BY <2>2, <2>3
<1> QED
  BY <1>1, <1>2

LEMMA SentKept ==
  ASSUME TypeOK, TypeOK', Sent, [Next]_vars
  PROVE  Sent'
<1> SUFFICES ASSUME NEW l \in Ledgers
             PROVE  \E n \in Nat :
                      /\ Total([w \in Workers |-> Transit(w, l)'], n)
                      /\ billed'[l]["bytes"] + n <= spent'[l]["bytes"]
                      /\ Within(l, "bytes", billed'[l]["bytes"] + n)
  BY DEF Sent, Within
<1>1. PICK n \in Nat :
        /\ Total([w \in Workers |-> Transit(w, l)], n)
        /\ billed[l]["bytes"] + n <= spent[l]["bytes"]
        /\ Within(l, "bytes", billed[l]["bytes"] + n)
  BY DEF Sent
<1>2. CASE UNCHANGED <<worker, billed>> /\ spent'[l]["bytes"] = spent[l]["bytes"]
  <2>1. \A w \in Workers : Transit(w, l)' = Transit(w, l)
    BY <1>2 DEF Transit, Size
  <2>2. [w \in Workers |-> Transit(w, l)'] = [w \in Workers |-> Transit(w, l)]
    BY <2>1
  <2> QED
    BY <1>1, <1>2, <2>2
<1>3. ASSUME NEW w \in Workers, Take(w) \/ Work(w)
      PROVE  \E k \in Nat :
               /\ Total([x \in Workers |-> Transit(x, l)'], k)
               /\ billed'[l]["bytes"] + k <= spent'[l]["bytes"]
               /\ Within(l, "bytes", billed'[l]["bytes"] + k)
  <2> DEFINE g == [x \in Workers |-> Transit(x, l)]
             h == [x \in Workers |-> Transit(x, l)']
  <2>1. g \in [Workers -> Nat] /\ h \in [Workers -> Nat]
    <3>1. \A x \in Workers : Transit(x, l) \in Nat
      BY PartTypes DEF TypeOK
    <3>2. \A x \in Workers : Transit(x, l)' \in Nat
      <4>1. ASSUME NEW x \in Workers, worker'[x].stage = "bytes_run" PROVE Size(x)' \in Nat
        BY <4>1, ConstantFacts DEF Size, TypeOK, BudgetTypeOK
      <4> QED
        BY <4>1 DEF Transit
    <3> QED
      BY <3>1, <3>2
  <2>2. \A x \in Workers \ {w} : h[x] = g[x]
    BY <1>3, Alone DEF Transit, Size, TypeOK
  <2>3. g[w] = Transit(w, l) /\ h[w] = Transit(w, l)'
    OBVIOUS
  <2>4. SentStep(w, l)
    BY <1>3, WorkSent DEF TypeOK
  <2>5. /\ billed[l]["bytes"] \in Nat /\ billed'[l]["bytes"] \in Nat
        /\ spent[l]["bytes"] \in Nat /\ spent'[l]["bytes"] \in Nat
        /\ Cap[l]["bytes"] = NoCap \/ Cap[l]["bytes"] \in Nat
    BY CapAssumption DEF TypeOK, BudgetTypeOK, Fields
  <2>6. Total(g, n)
    BY <1>1
  <2> HIDE DEF g, h
  <2>7. PICK k \in Nat : Total(h, k) /\ k + g[w] = n + h[w] /\ g[w] <= n
    BY <2>1, <2>2, <2>6, TotalStep
  <2>8. g[w] \in Nat /\ h[w] \in Nat
    BY <2>1
  <2>9. /\ billed'[l]["bytes"] + k <= spent'[l]["bytes"]
        /\ Within(l, "bytes", billed'[l]["bytes"] + k)
    <3>1. CASE /\ billed'[l]["bytes"] + h[w] <= billed[l]["bytes"] + g[w]
               /\ spent[l]["bytes"] <= spent'[l]["bytes"]
      <4>1. billed'[l]["bytes"] + k <= billed[l]["bytes"] + n
        BY <2>5, <2>7, <2>8, <3>1
      <4> QED
        BY <1>1, <2>5, <3>1, <4>1 DEF Within
    <3>2. ASSUME NEW j \in Nat,
                 billed'[l]["bytes"] + h[w] = billed[l]["bytes"] + g[w] + j,
                 spent'[l]["bytes"] = spent[l]["bytes"] + j,
                 Within(l, "bytes", spent'[l]["bytes"])
          PROVE  /\ billed'[l]["bytes"] + k <= spent'[l]["bytes"]
                 /\ Within(l, "bytes", billed'[l]["bytes"] + k)
      <4>1. billed'[l]["bytes"] + k = billed[l]["bytes"] + n + j
        BY <2>5, <2>7, <2>8, <3>2
      <4>2. billed'[l]["bytes"] + k <= spent'[l]["bytes"]
        BY <1>1, <2>5, <3>2, <4>1
      <4> QED
        BY <2>5, <3>2, <4>2 DEF Within
    <3> QED
      BY <2>3, <2>4, <3>1, <3>2 DEF SentStep
  <2> QED
    BY <2>7, <2>9 DEF h
<1>4. CASE NextBatch \/ (\E m \in selected : Model(m)) \/ UNCHANGED vars
  BY <1>2, <1>4, RunAccounts DEF TypeOK
<1> QED
  BY <1>3, <1>4 DEF Next, Worker

LEMMA BalancedKept ==
  ASSUME ~AnswersRejected, TypeOK, TypeOK', Balanced, [Next]_vars
  PROVE  Balanced'
<1> SUFFICES ASSUME NEW l \in Ledgers, NEW f \in Charges
             PROVE  \E n \in Nat : /\ Total([w \in Workers |-> Owed(w, l, f)'], n)
                                   /\ billed'[l][f] = spent'[l][f] + n
  BY DEF Balanced
<1>1. PICK n \in Nat : Total([w \in Workers |-> Owed(w, l, f)], n) /\ billed[l][f] = spent[l][f] + n
  BY DEF Balanced
<1>2. CASE UNCHANGED <<worker, billed>> /\ spent'[l][f] = spent[l][f]
  <2>1. \A w \in Workers : Owed(w, l, f)' = Owed(w, l, f)
    BY <1>2 DEF Owed, Payers
  <2>2. [w \in Workers |-> Owed(w, l, f)'] = [w \in Workers |-> Owed(w, l, f)]
    BY <2>1
  <2> QED
    BY <1>1, <1>2, <2>2
<1>3. ASSUME NEW w \in Workers, Take(w) \/ Work(w)
      PROVE  \E k \in Nat : /\ Total([x \in Workers |-> Owed(x, l, f)'], k)
                            /\ billed'[l][f] = spent'[l][f] + k
  <2> DEFINE g == [x \in Workers |-> Owed(x, l, f)]
             h == [x \in Workers |-> Owed(x, l, f)']
  <2>1. g \in [Workers -> Nat] /\ h \in [Workers -> Nat]
    <3>1. \A x \in Workers : Owed(x, l, f) \in Nat
      BY PartTypes DEF TypeOK
    <3>2. \A x \in Workers : Owed(x, l, f)' \in Nat
      <4>1. \A x \in Workers : worker'[x].use[f] \in Nat
        BY ConstantFacts DEF TypeOK, BudgetTypeOK, Uses
      <4> QED
        BY <4>1 DEF Owed
    <3> QED
      BY <3>1, <3>2
  <2>2. \A x \in Workers \ {w} : h[x] = g[x]
    BY <1>3, Alone DEF Owed, Payers, TypeOK
  <2>3. g[w] = Owed(w, l, f) /\ h[w] = Owed(w, l, f)'
    OBVIOUS
  <2>4. billed'[l][f] + spent[l][f] + g[w] = billed[l][f] + spent'[l][f] + h[w]
    BY <1>3, <2>3, WorkBalanced DEF TypeOK
  <2>5. /\ billed[l][f] \in Nat /\ billed'[l][f] \in Nat
        /\ spent[l][f] \in Nat /\ spent'[l][f] \in Nat
    BY DEF TypeOK, BudgetTypeOK, Fields, Charges
  <2>6. Total(g, n)
    BY <1>1
  <2> HIDE DEF g, h
  <2>7. PICK k \in Nat : Total(h, k) /\ k + g[w] = n + h[w] /\ g[w] <= n
    BY <2>1, <2>2, <2>6, TotalStep
  <2>8. g[w] \in Nat /\ h[w] \in Nat
    BY <2>1
  <2>9. billed'[l][f] = spent'[l][f] + k
    BY <1>1, <2>4, <2>5, <2>7, <2>8
  <2> QED
    BY <2>7, <2>9 DEF h
<1>4. CASE NextBatch \/ (\E m \in selected : Model(m)) \/ UNCHANGED vars
  BY <1>2, <1>4, RunAccounts DEF TypeOK
<1> QED
  BY <1>3, <1>4 DEF Next, Worker

LEMMA SentSuffices == TypeOK /\ Sent => SentBounded
<1> SUFFICES ASSUME TypeOK, Sent, NEW l \in Ledgers
             PROVE  Within(l, "bytes", billed[l]["bytes"])
  BY DEF SentBounded
<1>1. PICK n \in Nat : Within(l, "bytes", billed[l]["bytes"] + n)
  BY DEF Sent
<1>2. billed[l]["bytes"] \in Nat /\ (Cap[l]["bytes"] = NoCap \/ Cap[l]["bytes"] \in Nat)
  BY CapAssumption DEF TypeOK, BudgetTypeOK, Fields
<1> QED
  BY <1>1, <1>2 DEF Within

LEMMA BalancedSuffices == TypeOK /\ Balanced => LedgerExact
<1> SUFFICES ASSUME TypeOK, Balanced, \A w \in Workers : worker[w].stage = "idle",
                    NEW l \in Ledgers, NEW f \in Charges
             PROVE  spent[l][f] = billed[l][f]
  BY DEF LedgerExact, At, Charges
<1>1. PICK n \in Nat : Total([w \in Workers |-> Owed(w, l, f)], n) /\ billed[l][f] = spent[l][f] + n
  BY DEF Balanced
<1>2. \A w \in Workers : Owed(w, l, f) = 0
  BY DEF Owed, Unpaid
<1>3. n = 0
  BY <1>1, <1>2, TotalZero
<1> QED
  BY <1>1, <1>3 DEF TypeOK, BudgetTypeOK, Fields, Charges

\* SentBounded: with any number of threads and any caps, the bytes of the
\* documents that reach a provider never pass the cap of a model or a run,
\* whatever is refused, fails or is rejected on the way.
THEOREM SentIsBounded == Spec => []SentBounded
<1>1. TypeOK /\ TypeOK' /\ Sent /\ [Next]_vars => Sent'
  BY SentKept
<1>2. Init => Sent
  BY AccountsInit
<1> QED
  BY <1>1, <1>2, TypeInit, TypeStep, SentSuffices, PTL DEF Spec

\* SpendingKnown: where no answer is rejected after it was paid for, the
\* ledgers of the models and of the run agree with the provider's bill whenever
\* no thread is at work.  An answer that is rejected is billed and never charged,
\* so the hypothesis is needed.
THEOREM SpendingIsKnown == ASSUME ~AnswersRejected PROVE Spec => []SpendingKnown
<1>1. TypeOK /\ TypeOK' /\ Balanced /\ [Next]_vars => Balanced'
  BY BalancedKept
<1>2. Init => Balanced
  BY AccountsInit
<1>3. TypeOK /\ Balanced /\ SentBounded => SpendingKnown
  BY BalancedSuffices DEF SpendingKnown
<1> QED
  BY <1>1, <1>2, <1>3, TypeInit, TypeStep, SentIsBounded, PTL DEF Spec
==============================================================================
