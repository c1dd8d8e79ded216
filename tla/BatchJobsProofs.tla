-------------------------- MODULE BatchJobsProofs --------------------------
(***************************************************************************)
(* Theorems about BatchJobs for every set of documents, every size of      *)
(* windows and partitions and every environment: type correctness, that    *)
(* answers stay with their documents, that none is paid for twice, and     *)
(* that none that was paid for is lost.                                    *)
(***************************************************************************)
EXTENDS BatchJobs, FiniteSetTheorems, SequenceTheorems, TLAPS

-----------------------------------------------------------------------------
(* Numbers in order.                                                       *)

Increasing(s) == \A i, j \in DOMAIN s : i < j => s[i] < s[j]

\* Sets of numbers below a number are proper subsets of each other.
Lower(set, x) == {y \in set : y < x}
LEMMA Least ==
  ASSUME NEW set \in SUBSET Nat, set # {}
  PROVE  \E x \in set : \A y \in set : x <= y
<1>1. PICK n \in set : TRUE
  OBVIOUS
<1> DEFINE near == {x \in set : x <= n}
           Lowers == {Lower(set, x) : x \in near}
<1>2. ASSUME NEW x \in near PROVE x \in Nat /\ Lower(set, x) \in SUBSET (0..n)
  <2>1. n \in Nat /\ x \in Nat /\ x <= n
    BY <1>1
  <2>2. ASSUME NEW y \in set, y < x PROVE y \in 0..n
    <3>1. y \in Nat
      OBVIOUS
    <3> QED
      BY <2>1, <2>2, <3>1
  <2> QED
    BY <2>1, <2>2 DEF Lower
<1>3. IsFiniteSet(0..n) /\ \A S \in SUBSET (0..n) : IsFiniteSet(S)
  <2>1. 0 \in Int /\ n \in Int
    BY <1>1
  <2>2. IsFiniteSet(0..n)
    BY <2>1, FS_Interval
  <2> QED
    BY <2>2, FS_Subset
<1>4. Lowers \subseteq FiniteSubsetsOf(0..n) /\ Lowers # {}
  BY <1>1, <1>2, <1>3 DEF FiniteSubsetsOf
<1>5. PICK b \in Lowers : \A c \in Lowers : <<c, b>> \notin StrictSubsetOrdering(0..n)
  <2> HIDE DEF Lowers
  <2> QED
    BY <1>4, FS_StrictSubsetOrderingWellFounded, WFMin
<1>6. PICK x \in near : b = Lower(set, x)
  BY <1>5
<1>7. ASSUME NEW y \in set, y < x PROVE FALSE
  <2>1. y \in near
    BY <1>1, <1>7
  <2>2. Lower(set, y) \subseteq Lower(set, x) /\ y \in Lower(set, x) /\ y \notin Lower(set, y)
    BY <1>2, <1>7, <2>1 DEF Lower
  <2> QED
    BY <1>2, <1>5, <1>6, <2>1, <2>2 DEF StrictSubsetOrdering
<1> QED
  BY <1>7

Upper(set, x) == {y \in set : x < y}
LEMMA Greatest ==
  ASSUME NEW set \in SUBSET Nat, IsFiniteSet(set), set # {}
  PROVE  \E x \in set : \A y \in set : y <= x
<1> DEFINE Uppers == {Upper(set, x) : x \in set}
<1>1. Uppers \subseteq FiniteSubsetsOf(set) /\ Uppers # {}
  <2>1. \A S \in SUBSET set : IsFiniteSet(S)
    BY FS_Subset
  <2> QED
    BY <2>1 DEF FiniteSubsetsOf, Upper
<1>2. PICK b \in Uppers : \A c \in Uppers : <<c, b>> \notin StrictSubsetOrdering(set)
  <2> HIDE DEF Uppers
  <2> QED
    BY <1>1, FS_StrictSubsetOrderingWellFounded, WFMin
<1>3. PICK x \in set : b = Upper(set, x)
  BY <1>2
<1>4. ASSUME NEW y \in set, x < y PROVE FALSE
  <2>1. Upper(set, y) \subseteq Upper(set, x) /\ y \in Upper(set, x) /\ y \notin Upper(set, y)
    <3>1. \A z \in set : y < z => x < z
      BY <1>4
    <3>2. ~(y < y)
      BY <1>4
    <3> QED
      BY <1>4, <3>1, <3>2 DEF Upper
  <2> QED
    <3>1. Upper(set, y) \in SUBSET set /\ Upper(set, x) \in SUBSET set
      BY DEF Upper
    <3>2. <<Upper(set, y), b>> \in StrictSubsetOrdering(set)
      BY <1>3, <2>1, <3>1 DEF StrictSubsetOrdering
    <3> QED
      BY <1>2, <3>2
<1> QED
  BY <1>4

\* Every set of documents has a listing: a least set without one would have one
\* without its greatest document.
Listed(set, s) == s \in [1..Cardinality(set) -> set] /\ Increasing(s)
LEMMA ListingExists ==
  ASSUME NEW set \in SUBSET Docs
  PROVE  \E s : Listed(set, s)
<1> DEFINE Bad == {S \in SUBSET Docs : ~\E s : Listed(S, s)}
<1>0. Docs \subseteq Nat /\ \A S \in SUBSET Docs : IsFiniteSet(S) /\ S \subseteq Nat
  BY DocsAssumption, FS_Subset
<1>1. SUFFICES ASSUME Bad # {} PROVE FALSE
  OBVIOUS
<1>2. PICK T \in Bad : \A U \in Bad : <<U, T>> \notin StrictSubsetOrdering(Docs)
  <2>1. Bad \subseteq FiniteSubsetsOf(Docs)
    BY <1>0 DEF FiniteSubsetsOf
  <2> HIDE DEF Bad
  <2> QED
    BY <1>1, <2>1, FS_StrictSubsetOrderingWellFounded, WFMin
<1>3. T # {}
  <2>1. SUFFICES ASSUME T = {} PROVE \E s : Listed({}, s)
    BY <1>2
  <2>2. [i \in 1..0 |-> i] \in [1..0 -> {}] /\ Cardinality({}) = 0
    BY FS_EmptySet
  <2>3. Increasing([i \in 1..0 |-> i])
    BY DEF Increasing
  <2> QED
    BY <2>2, <2>3 DEF Listed
<1>4. PICK x \in T : \A y \in T : y <= x
  BY <1>0, <1>3, Greatest
<1> DEFINE U == T \ {x}
           n == Cardinality(T)
<1>5. /\ IsFiniteSet(T) /\ n \in Nat /\ Cardinality(U) = n - 1 /\ n # 0
      /\ U \in SUBSET Docs /\ x \in Docs /\ x \in Nat
  BY <1>0, <1>3, <1>4, FS_RemoveElement, FS_CardinalityType, FS_EmptySet
<1>6. <<U, T>> \in StrictSubsetOrdering(Docs)
  BY <1>4, <1>5 DEF StrictSubsetOrdering
<1>7. PICK s : Listed(U, s)
  BY <1>2, <1>5, <1>6
<1> DEFINE t == [i \in 1..n |-> IF i = n THEN x ELSE s[i]]
<1>8. s \in [1..(n - 1) -> U] /\ \A i, j \in 1..(n - 1) : i < j => s[i] < s[j]
  BY <1>5, <1>7 DEF Listed, Increasing
<1>9. \A i \in 1..n : i # n => i \in 1..(n - 1) /\ s[i] \in U
  BY <1>5, <1>8
<1> HIDE DEF n, U
<1>10. t \in [1..n -> T]
  BY <1>4, <1>9 DEF U
<1>11. ASSUME NEW i \in 1..n, NEW j \in 1..n, i < j PROVE t[i] < t[j]
  <2>1. i # n
    BY <1>5, <1>11
  <2>2. CASE j = n
    <3>1. s[i] \in T /\ s[i] # x /\ s[i] \in Nat
      BY <1>0, <1>9, <2>1 DEF U
    <3>2. s[i] < x
      BY <1>4, <1>5, <3>1
    <3> QED
      BY <2>1, <2>2, <3>2
  <2>3. CASE j # n
    BY <1>8, <1>9, <1>11, <2>1, <2>3
  <2> QED
    BY <2>2, <2>3
<1>12. Listed(T, t)
  BY <1>10, <1>11 DEF Listed, Increasing, n
<1> QED
  BY <1>2, <1>12

LEMMA ListingProperties ==
  ASSUME NEW set \in SUBSET Docs
  PROVE  /\ Listing(set) \in Seq(Docs)
         /\ Increasing(Listing(set))
         /\ Range(Listing(set)) = set
<1> DEFINE n == Cardinality(set)
<1>0. IsFiniteSet(set) /\ n \in Nat /\ set \subseteq Nat
  BY DocsAssumption, FS_Subset, FS_CardinalityType
<1>1. Listing(set) \in [1..n -> set] /\ \A i, j \in 1..n : i < j => Listing(set)[i] < Listing(set)[j]
  <2>1. \E s \in [1..n -> set] : \A i, j \in 1..n : i < j => s[i] < s[j]
    <3>1. PICK s : Listed(set, s)
      BY ListingExists
    <3> QED
      BY <3>1 DEF Listed, Increasing
  <2> QED
    BY <2>1 DEF Listing
<1> HIDE DEF n
<1> DEFINE s == Listing(set)
<1> HIDE DEF s
<1>2. s \in [1..n -> set] /\ \A i, j \in 1..n : i < j => s[i] < s[j]
  BY <1>1 DEF s
<1>3. s \in Seq(Docs)
  <2>1. s \in [1..n -> Docs]
    BY <1>2
  <2> QED
    BY <1>0, <2>1, SeqDef
<1>4. s \in Injection(1..n, set)
  <2>1. ASSUME NEW i \in 1..n, NEW j \in 1..n, s[i] = s[j] PROVE i = j
    <3>1. s[i] \in Nat /\ s[j] \in Nat
      BY <1>0, <1>2
    <3> QED
      BY <1>2, <2>1, <3>1
  <2>2. \A a, b \in 1..n : s[a] = s[b] => a = b
    BY <2>1
  <2> QED
    BY <1>2, <2>2 DEF Injection, IsInjective
<1>5. IsFiniteSet(1..n) /\ Cardinality(1..n) = n
  BY <1>0, FS_Interval
<1>6. s \in Surjection(1..n, set)
  BY <1>0, <1>4, <1>5, FS_Injection DEF n
<1>7. Range(s) = set
  BY <1>2, <1>6 DEF Surjection, Range
<1> QED
  BY <1>2, <1>3, <1>7 DEF s, Increasing

\* How a window is cut off the documents that are left.
LEMMA FirstRest ==
  ASSUME NEW s \in Seq(Docs), NEW n \in Nat
  PROVE  /\ First(s, n) \in Seq(Docs) /\ Rest(s, n) \in Seq(Docs)
         /\ Len(First(s, n)) = IF Len(s) < n THEN Len(s) ELSE n
         /\ Len(Rest(s, n)) = IF Len(s) < n THEN 0 ELSE Len(s) - n
         /\ \A i \in 1..Len(First(s, n)) : First(s, n)[i] = s[i]
         /\ \A i \in 1..Len(Rest(s, n)) : Rest(s, n)[i] = s[i + n]
<1>1. Len(s) \in Nat /\ \A i \in 1..Len(s) : s[i] \in Docs
  BY LenProperties, ElementOfSeq
<1>2. /\ First(s, n) \in Seq(Docs)
      /\ Len(First(s, n)) = IF Len(s) < n THEN Len(s) ELSE n
      /\ \A i \in 1..Len(First(s, n)) : First(s, n)[i] = s[i]
  <2> DEFINE k == IF Len(s) < n THEN Len(s) ELSE n
  <2>1. k \in Nat /\ k <= Len(s) /\ 1 \in Int /\ k \in Int
    BY <1>1
  <2>2. First(s, n) = SubSeq(s, 1, k)
    BY DEF First
  <2> HIDE DEF k
  <2>3. \A i \in 1..k : s[i] \in Docs
    BY <1>1, <2>1
  <2>4. /\ SubSeq(s, 1, k) \in Seq(Docs)
        /\ Len(SubSeq(s, 1, k)) = IF 1 <= k THEN k - 1 + 1 ELSE 0
        /\ \A i \in 1..(k - 1 + 1) : SubSeq(s, 1, k)[i] = s[1 + i - 1]
    BY <2>1, <2>3, SubSeqProperties
  <2>5. Len(SubSeq(s, 1, k)) = k /\ \A i \in 1..k : SubSeq(s, 1, k)[i] = s[i]
    BY <2>1, <2>4
  <2> QED
    BY <2>2, <2>4, <2>5 DEF k
<1>3. /\ Rest(s, n) \in Seq(Docs)
      /\ Len(Rest(s, n)) = IF Len(s) < n THEN 0 ELSE Len(s) - n
      /\ \A i \in 1..Len(Rest(s, n)) : Rest(s, n)[i] = s[i + n]
  <2> DEFINE l == Len(s)
  <2> HIDE DEF l
  <2>0. l \in Nat /\ n + 1 \in Int /\ l \in Int
    BY <1>1 DEF l
  <2>1. \A i \in (n + 1)..l : s[i] \in Docs
    BY <1>1, <2>0 DEF l
  <2>2. /\ SubSeq(s, n + 1, l) \in Seq(Docs)
        /\ Len(SubSeq(s, n + 1, l)) = IF n + 1 <= l THEN l - (n + 1) + 1 ELSE 0
        /\ \A i \in 1..(l - (n + 1) + 1) : SubSeq(s, n + 1, l)[i] = s[(n + 1) + i - 1]
    BY <2>0, <2>1, SubSeqProperties
  <2>3. Len(SubSeq(s, n + 1, l)) = IF l < n THEN 0 ELSE l - n
    BY <2>0, <2>2
  <2>4. \A i \in 1..Len(SubSeq(s, n + 1, l)) : SubSeq(s, n + 1, l)[i] = s[i + n]
    BY <2>0, <2>2, <2>3
  <2> QED
    BY <2>2, <2>3, <2>4 DEF Rest, l
<1> QED
  BY <1>2, <1>3

-----------------------------------------------------------------------------
(* Types, and what goes with what.                                         *)

\* A run that is busy with a job knows which, the job is about the documents of
\* the partition in their order, and so are the answers; records name the
\* documents of their jobs.
AtJob == {"persist", "poll", "cancel", "fetch", "clear"}
Aligned ==
  /\ \A r \in jobs : r.id \in DOMAIN provider /\ provider[r.id].docs = r.key
  /\ pc \in AtJob => job \in DOMAIN provider /\ provider[job].docs = pending
  /\ pc \in {"clear", "store"} =>
       /\ Len(items) = Len(pending)
       /\ \A i \in DOMAIN items : items[i] \in {None, pending[i]}

\* What the environment of a behaviour is.
LEMMA SettingFacts ==
  ASSUME TypeOK
  PROVE  /\ MaxJobs \in Nat /\ MaxFaults \in Nat /\ Pool \subseteq Docs
         /\ OnPartialBatch \subseteq {"fail", "publish_successful"}
         /\ Expires \in BOOLEAN /\ Arrivals \in BOOLEAN
BY SettingAssumption
   DEF TypeOK, MaxJobs, MaxFaults, Pool, OnPartialBatch, Expires, Arrivals

LEMMA JobFacts ==
  ASSUME TypeOK
  PROVE  /\ DOMAIN provider = 1..Len(provider) /\ Len(provider) \in Nat
         /\ \A id \in DOMAIN provider :
              /\ provider[id] \in Job
              /\ provider[id].docs \in Seq(Docs) /\ provider[id].bad \subseteq Docs
<1>1. provider \in Seq(Job)
  BY DEF TypeOK
<1>2. \A id \in DOMAIN provider : provider[id] \in Job
  BY <1>1, LenProperties, ElementOfSeq
<1> QED
  BY <1>1, <1>2, LenProperties DEF Job

LEMMA TypeInit == Init => TypeOK
<1> SUFFICES ASSUME Init PROVE TypeOK
  OBVIOUS
<1>1. setting \in Settings /\ Pool \subseteq Docs /\ MaxJobs \in Nat /\ MaxFaults \in Nat
  BY SettingAssumption DEF Init, Pool, MaxJobs, MaxFaults
<1>2. present \in SUBSET Docs
  BY <1>1 DEF Init
<1>3. \A S : <<>> \in Seq(S) /\ Len(<<>>) = 0
  BY EmptySeq
<1> QED
  BY <1>1, <1>2, <1>3 DEF Init, TypeOK, Points, None

\* A job that ends stays a job, for its documents.
LEMMA EndedFacts ==
  ASSUME TypeOK, NEW id \in DOMAIN provider, NEW bad \in SUBSET Range(provider[id].docs)
  PROVE  /\ Cardinality(bad) \in Nat
         /\ Ended(id, bad) \in Seq(Job) /\ Len(Ended(id, bad)) = Len(provider)
         /\ DOMAIN Ended(id, bad) = DOMAIN provider
         /\ \A a \in DOMAIN provider : a # id => Ended(id, bad)[a] = provider[a]
         /\ Ended(id, bad)[id].status = "done" /\ Ended(id, bad)[id].bad = bad
         /\ Ended(id, bad)[id].docs = provider[id].docs
<1>1. provider \in Seq(Job) /\ provider[id] \in Job /\ provider[id].docs \in Seq(Docs)
  BY JobFacts DEF TypeOK
<1>2. bad \subseteq Docs
  BY <1>1, RangeOfSeq
<1>3. Cardinality(bad) \in Nat
  BY <1>2, DocsAssumption, FS_Subset, FS_CardinalityType
<1> DEFINE new == [provider[id] EXCEPT !.status = "done", !.bad = bad]
<1>4. new \in Job /\ new.status = "done" /\ new.bad = bad /\ new.docs = provider[id].docs
  BY <1>1, <1>2 DEF Job
<1>5. Ended(id, bad) = [provider EXCEPT ![id] = new]
  BY DEF Ended
<1> HIDE DEF new
<1>6. id \in 1..Len(provider)
  BY JobFacts
<1>7. [provider EXCEPT ![id] = new] \in Seq(Job)
      /\ Len([provider EXCEPT ![id] = new]) = Len(provider)
  BY <1>1, <1>4, <1>6, ExceptSeq
<1> QED
  BY <1>3, <1>4, <1>5, <1>7

LEMMA SameSetting ==
  ASSUME [Next]_vars
  PROVE  /\ setting' = setting /\ MaxJobs' = MaxJobs /\ MaxFaults' = MaxFaults /\ Pool' = Pool
         /\ OnPartialBatch' = OnPartialBatch /\ InterruptPoints' = InterruptPoints
         /\ Expires' = Expires /\ Arrivals' = Arrivals
<1>1. setting' = setting
  BY DEF Next, Run, vars, persistent, remote, inFlight, Begin, NextWindow, Scan, FlushLast,
         PublishWindow, Lookup, Submit, Persist, Poll, Timeout, Cancelled, Fetch, Clear,
         StoreItem, PartitionDone, Interrupt, Arrive, Complete, Expire
<1> QED
  BY <1>1 DEF MaxJobs, MaxFaults, Pool, OnPartialBatch, InterruptPoints, Expires, Arrivals

\* The type of what only the run itself changes, and of the rest.
RunType ==
    /\ pc \in Points
    /\ todo \in Seq(Docs) /\ window \in Seq(Docs) /\ pending \in Seq(Docs)
    /\ items \in Seq(Docs \cup {None})
    /\ job \in 0..MaxJobs
    /\ answered \in SUBSET Docs /\ failed \in SUBSET Docs
RestType ==
    /\ setting \in Settings
    /\ present \in SUBSET Docs /\ processed \in SUBSET Docs
    /\ cache \in [Docs -> Docs \cup {None}]
    /\ jobs \subseteq Record
    /\ provider \in Seq(Job) /\ Len(provider) <= MaxJobs
    /\ givenUp \subseteq 1..MaxJobs
    /\ faults \in 0..MaxFaults
LEMMA TypeParts == TypeOK <=> RunType /\ RestType
BY DEF TypeOK, RunType, RestType

LEMMA RunEndsType ==
  ASSUME RunEnds, TypeOK, MaxJobs' = MaxJobs
  PROVE  RunType' /\ pc' = "idle"
<1>1. <<>> \in Seq(Docs) /\ <<>> \in Seq(Docs \cup {None})
  BY EmptySeq
<1>2. 0 \in 0..MaxJobs
  BY SettingFacts
<1> QED
  BY <1>1, <1>2 DEF RunEnds, RunType, Points, None

LEMMA TypeStep ==
  ASSUME TypeOK, Aligned, [Next]_vars
  PROVE  TypeOK'
<1> SUFFICES RunType' /\ RestType'
  BY DEF TypeOK, RunType, RestType
<1>0. /\ RunType /\ RestType
      /\ MaxJobs \in Nat /\ MaxFaults \in Nat /\ MaxJobs' = MaxJobs /\ MaxFaults' = MaxFaults
      /\ setting' = setting
      /\ WindowSize \in Nat
  BY TypeParts, SettingFacts, SameSetting, SizesAssumption
<1>e. <<>> \in Seq(Docs) /\ <<>> \in Seq(Docs \cup {None})
  BY EmptySeq
<1>j. Record' = Record
  BY <1>0 DEF Record
<1>r. ASSUME UNCHANGED <<persistent, remote, faults>> PROVE RestType'
  BY <1>0, <1>j, <1>r DEF RestType, persistent, remote
<1>i. ASSUME UNCHANGED <<pc, inFlight>> PROVE RunType'
  BY <1>0, <1>i DEF RunType, inFlight
<1>1. CASE Begin
  <2>1. Listing(present \ processed) \in Seq(Docs)
    <3>1. present \ processed \in SUBSET Docs
      BY <1>0 DEF RestType
    <3> QED
      BY <3>1, ListingProperties
  <2> QED
    BY <1>0, <1>1, <1>r, <2>1 DEF Begin, RunType, Points
<1>2. CASE NextWindow
  <2>1. First(todo, WindowSize) \in Seq(Docs) /\ Rest(todo, WindowSize) \in Seq(Docs)
    BY <1>0, FirstRest DEF RunType
  <2> QED
    BY <1>0, <1>2, <1>r, <2>1 DEF NextWindow, RunType, Points
<1>3. CASE Scan
  <2>1. Head(window) \in Docs /\ Tail(window) \in Seq(Docs)
    BY <1>0, <1>3, HeadTailProperties DEF Scan, RunType
  <2>2. Append(pending, Head(window)) \in Seq(Docs)
    BY <1>0, <2>1, AppendProperties DEF RunType
  <2> QED
    BY <1>0, <1>3, <1>r, <2>1, <2>2 DEF Scan, RunType, Points
<1>4. CASE FlushLast
  BY <1>0, <1>4, <1>r DEF FlushLast, RunType, inFlight, Points
<1>5. CASE PublishWindow
  <2>1. RunType'
    BY <1>0, <1>5, <1>e DEF PublishWindow, RunType, Points
  <2>2. RestType'
    BY <1>0, <1>j, <1>5 DEF PublishWindow, RestType, RunType, remote
  <2> QED
    BY <2>1, <2>2
<1>6. CASE Lookup
  <2>1. job' \in 0..MaxJobs
    <3>1. ASSUME NEW r \in jobs, job' = r.id PROVE job' \in 0..MaxJobs
      BY <1>0, <3>1 DEF RestType, Record
    <3> QED
      BY <1>0, <1>6, <3>1 DEF Lookup, Recorded, RunType
  <2> QED
    BY <1>0, <1>6, <1>r, <2>1 DEF Lookup, RunType, Points
<1>7. CASE Submit
  <2>1. Running(pending) \in Job
    BY <1>0 DEF Running, Job, RunType
  <2>2. provider' \in Seq(Job) /\ Len(provider') = Len(provider) + 1
    BY <1>0, <1>j, <1>7, <2>1, AppendProperties DEF Submit, RestType
  <2>3. Len(provider) \in Nat
    BY <1>0, LenProperties DEF RestType
  <2>4. Len(provider') <= MaxJobs /\ job' \in 0..MaxJobs
    BY <1>0, <1>j, <1>7, <2>2, <2>3 DEF Submit, RestType
  <2>5. RunType'
    BY <1>0, <1>7, <2>4 DEF Submit, RunType, Points
  <2>6. RestType'
    BY <1>0, <1>j, <1>7, <2>2, <2>4 DEF Submit, RestType, persistent
  <2> QED
    BY <2>5, <2>6
<1>8. CASE Persist
  <2>1. RunType'
    BY <1>0, <1>8 DEF Persist, RunType, inFlight, Points
  <2>2. job \in 1..MaxJobs
    <3>1. job \in 1..Len(provider) /\ Len(provider) \in Nat
      BY <1>8, JobFacts DEF Persist, Aligned, AtJob
    <3> QED
      BY <1>0, <3>1 DEF RestType
  <2>3. [key |-> JobKey(pending), id |-> job] \in Record
    BY <1>0, <2>2 DEF JobKey, Record, RunType
  <2>4. jobs' \subseteq Record
    <3>1. PICK old \in SUBSET {r \in jobs : provider[r.id].status = "gone"} :
            jobs' = ((jobs \ old) \ Recorded) \cup {[key |-> JobKey(pending), id |-> job]}
      BY <1>8 DEF Persist
    <3> QED
      BY <1>0, <2>3, <3>1 DEF RestType
  <2>5. RestType'
    BY <1>0, <1>j, <1>8, <2>4 DEF Persist, RestType, remote
  <2> QED
    BY <2>1, <2>5
<1>9. CASE Poll
  BY <1>0, <1>9, <1>r DEF Poll, RunType, inFlight, Points
<1>10. CASE Timeout
  <2>1. RunType'
    BY <1>0, <1>10 DEF Timeout, RunType, inFlight, Points
  <2>2. provider' \in Seq(Job) /\ Len(provider') = Len(provider)
    <3>1. job \in DOMAIN provider
      BY <1>10 DEF Timeout, Aligned, AtJob
    <3>2. ASSUME NEW bad \in SUBSET Range(provider[job].docs), provider' = Ended(job, bad)
          PROVE  provider' \in Seq(Job) /\ Len(provider') = Len(provider)
      BY <3>1, <3>2, EndedFacts
    <3> QED
      BY <1>0, <1>10, <3>2 DEF Timeout, RestType
  <2>3. faults' \in 0..MaxFaults
    BY <1>0, <1>j, <1>10 DEF Timeout, RestType
  <2>4. RestType'
    BY <1>0, <1>j, <1>10, <2>2, <2>3 DEF Timeout, RestType, persistent
  <2> QED
    BY <2>1, <2>4
<1>11. CASE Cancelled
  <2>1. RunType'
    BY <1>0, <1>11, RunEndsType DEF Cancelled
  <2>2. givenUp' \subseteq 1..MaxJobs
    <3>1. job \in 1..Len(provider) /\ Len(provider) \in Nat
      BY <1>11, JobFacts DEF Cancelled, Aligned, AtJob
    <3> QED
      BY <1>0, <1>11, <3>1 DEF Cancelled, RestType
  <2>3. RestType'
    BY <1>0, <1>j, <1>11, <2>2 DEF Cancelled, RestType
  <2> QED
    BY <2>1, <2>3
<1>12. CASE Fetch
  <2>1. RestType'
    BY <1>12, <1>r DEF Fetch
  <2>2. CASE RunEnds
    BY <1>0, <2>1, <2>2, RunEndsType
  <2>3. CASE ~RunEnds
    <3> DEFINE j == provider[job]
               new == [i \in 1..Len(pending) |-> IF j.docs[i] \in j.bad THEN None ELSE j.docs[i]]
    <3>1. /\ Len(j.docs) = Len(pending) /\ items' = new /\ pc' = "clear"
          /\ UNCHANGED <<todo, window, pending, job, answered, failed>>
      BY <1>12, <2>3 DEF Fetch
    <3>2. j.docs \in Seq(Docs)
      BY <1>12, JobFacts DEF Fetch, Aligned, AtJob
    <3>3. Len(pending) \in Nat /\ \A i \in 1..Len(pending) : j.docs[i] \in Docs
      BY <3>1, <3>2, LenProperties, ElementOfSeq
    <3>4. new \in Seq(Docs \cup {None})
      <4>1. new \in [1..Len(pending) -> Docs \cup {None}]
        BY <3>3
      <4> HIDE DEF new, j
      <4> QED
        BY <3>3, <4>1, SeqDef
    <3> QED
      BY <1>0, <2>1, <3>1, <3>4 DEF RunType, Points
  <2> QED
    BY <2>2, <2>3
<1>13. CASE Clear
  <2>1. RunType'
    BY <1>0, <1>13 DEF Clear, RunType, inFlight, Points
  <2>2. RestType'
    BY <1>0, <1>j, <1>13 DEF Clear, RestType, remote
  <2> QED
    BY <2>1, <2>2
<1>14. CASE StoreItem
  <2>1. Head(pending) \in Docs /\ Tail(pending) \in Seq(Docs)
    BY <1>0, <1>14, HeadTailProperties DEF StoreItem, RunType
  <2>2. items # <<>>
    <3>1. Len(items) = Len(pending) /\ Len(pending) # 0
      BY <1>0, <1>14, EmptySeq DEF StoreItem, Aligned, RunType
    <3> QED
      BY <3>1, EmptySeq
  <2>3. Head(items) \in Docs \cup {None} /\ Tail(items) \in Seq(Docs \cup {None})
    BY <1>0, <2>2, HeadTailProperties DEF RunType
  <2>4. RunType'
    BY <1>0, <1>14, <2>1, <2>3 DEF StoreItem, RunType, Points
  <2>5. cache' \in [Docs -> Docs \cup {None}]
    BY <1>0, <1>j, <1>14, <2>1, <2>3 DEF StoreItem, RestType
  <2>6. RestType'
    BY <1>0, <1>j, <1>14, <2>5 DEF StoreItem, RestType, remote
  <2> QED
    BY <2>4, <2>6
<1>15. CASE PartitionDone
  BY <1>0, <1>15, <1>r DEF PartitionDone, RunType, Points, None
<1>16. CASE Interrupt
  <2>1. RunType'
    BY <1>0, <1>16, RunEndsType DEF Interrupt
  <2>2. RestType'
    BY <1>0, <1>j, <1>16 DEF Interrupt, RestType, persistent, remote
  <2> QED
    BY <2>1, <2>2
<1>17. CASE Arrive
  <2>1. RunType'
    BY <1>17, <1>i DEF Arrive
  <2>2. RestType'
    <3>1. present' \in SUBSET Docs
      <4>1. Pool \subseteq Docs
        BY SettingFacts
      <4> QED
        BY <1>0, <1>j, <1>17, <4>1 DEF Arrive, RestType
    <3> QED
      BY <1>0, <1>j, <1>17, <3>1 DEF Arrive, RestType, remote
  <2> QED
    BY <2>1, <2>2
<1>18. ASSUME NEW id \in DOMAIN provider, Complete(id) PROVE RunType' /\ RestType'
  <2>1. RunType'
    BY <1>18, <1>i DEF Complete
  <2>2. PICK bad \in SUBSET Range(provider[id].docs) :
         /\ faults + Cardinality(bad) <= MaxFaults
         /\ faults' = faults + Cardinality(bad)
         /\ provider' = Ended(id, bad)
    BY <1>18 DEF Complete
  <2>3. /\ Cardinality(bad) \in Nat
        /\ Ended(id, bad) \in Seq(Job) /\ Len(Ended(id, bad)) = Len(provider)
    BY EndedFacts
  <2>4. faults' \in 0..MaxFaults
    <3>1. faults \in 0..MaxFaults /\ MaxFaults \in Int
      BY <1>0 DEF RestType
    <3> QED
      BY <2>2, <2>3, <3>1
  <2>5. RestType'
    BY <1>0, <1>j, <1>18, <2>2, <2>3, <2>4 DEF Complete, RestType, persistent
  <2> QED
    BY <2>1, <2>5
<1>19. ASSUME NEW id \in DOMAIN provider, Expire(id) PROVE RunType' /\ RestType'
  <2>1. RunType'
    BY <1>19, <1>i DEF Expire
  <2> DEFINE new == [provider[id] EXCEPT !.status = "gone"]
  <2>5. new \in Job
    BY JobFacts DEF Job
  <2>6. [provider EXCEPT ![id] = new] \in Seq(Job)
        /\ Len([provider EXCEPT ![id] = new]) = Len(provider)
    BY <1>0, <2>5, JobFacts, ExceptSeq DEF RestType
  <2>7. provider' = [provider EXCEPT ![id] = new]
    BY <1>19 DEF Expire
  <2>8. RestType'
    BY <1>0, <1>j, <1>19, <2>6, <2>7 DEF Expire, RestType, persistent
  <2> QED
    BY <2>1, <2>8
<1>20. CASE UNCHANGED vars
  BY <1>i, <1>r, <1>20 DEF vars
<1> QED
  BY <1>1, <1>2, <1>3, <1>4, <1>5, <1>6, <1>7, <1>8, <1>9, <1>10, <1>11, <1>12, <1>13, <1>14,
     <1>15, <1>16, <1>17, <1>18, <1>19, <1>20 DEF Next, Run

\* The provider's jobs stay, with the documents they were submitted for, and no
\* job runs again.
Grows ==
  \A id \in DOMAIN provider :
    /\ id \in DOMAIN provider' /\ provider'[id].docs = provider[id].docs
    /\ provider'[id].status = "running" => provider'[id] = provider[id]
    /\ provider[id].status # "running" /\ provider'[id] # provider[id] =>
         Expires /\ pc = "idle" /\ provider'[id] = [provider[id] EXCEPT !.status = "gone"]
LEMMA ProviderGrows ==
  ASSUME TypeOK, Aligned, [Next]_vars
  PROVE  Grows /\ \A id \in DOMAIN provider' \ DOMAIN provider : Submit /\ id = job'
<1>0. /\ DOMAIN provider = 1..Len(provider) /\ Len(provider) \in Nat
      /\ provider \in Seq(Job)
      /\ \A id \in DOMAIN provider : provider[id] \in Job
  BY JobFacts DEF TypeOK
<1>1. CASE Submit
  <2>1. Running(pending) \in Job
    BY <1>1 DEF Running, Job, TypeOK
  <2>2. /\ provider' \in Seq(Job) /\ Len(provider') = Len(provider) + 1
        /\ \A i \in 1..Len(provider) : provider'[i] = provider[i]
    BY <1>0, <1>1, <2>1, AppendProperties DEF Submit
  <2>3. DOMAIN provider' = 1..(Len(provider) + 1) /\ job' = Len(provider) + 1
    BY <1>1, <2>2, LenProperties DEF Submit
  <2> QED
    BY <1>0, <1>1, <2>2, <2>3 DEF Grows
<1>2. CASE Timeout
  <2>1. job \in DOMAIN provider /\ provider[job].status = "running"
    BY <1>2 DEF Timeout, Aligned, AtJob
  <2>2. CASE UNCHANGED provider
    BY <2>2 DEF Grows
  <2>3. ASSUME NEW bad \in SUBSET Range(provider[job].docs), provider' = Ended(job, bad)
        PROVE  Grows /\ DOMAIN provider' = DOMAIN provider
    BY <2>1, <2>3, EndedFacts DEF Grows
  <2> QED
    BY <1>2, <2>2, <2>3 DEF Timeout
<1>3. ASSUME NEW id \in DOMAIN provider, Complete(id)
      PROVE  Grows /\ DOMAIN provider' = DOMAIN provider
  <2>1. PICK bad \in SUBSET Range(provider[id].docs) : provider' = Ended(id, bad)
    BY <1>3 DEF Complete
  <2> QED
    BY <1>3, <2>1, EndedFacts DEF Complete, Grows
<1>4. ASSUME NEW id \in DOMAIN provider, Expire(id)
      PROVE  Grows /\ DOMAIN provider' = DOMAIN provider
  BY <1>0, <1>4 DEF Expire, Grows, Job
<1>5. CASE UNCHANGED provider
  BY <1>5 DEF Grows
<1> QED
  BY <1>1, <1>2, <1>3, <1>4, <1>5
     DEF Next, Run, vars, persistent, remote, inFlight, Begin, NextWindow, Scan, FlushLast,
         PublishWindow, Lookup, Persist, Poll, Cancelled, Fetch, Clear, StoreItem,
         PartitionDone, Interrupt, Arrive

LEMMA AlignedInit == Init => Aligned
BY DEF Init, Aligned, AtJob

LEMMA AlignedStep ==
  ASSUME TypeOK, Aligned, [Next]_vars
  PROVE  Aligned'
<1> DEFINE Named == \A r \in jobs : r.id \in DOMAIN provider /\ provider[r.id].docs = r.key
           Busy == pc \in AtJob => job \in DOMAIN provider /\ provider[job].docs = pending
           Paired == pc \in {"clear", "store"} =>
                       /\ Len(items) = Len(pending)
                       /\ \A i \in DOMAIN items : items[i] \in {None, pending[i]}
<1>0. Named /\ Busy /\ Paired /\ Grows
  BY ProviderGrows DEF Aligned
<1>s. pending \in Seq(Docs) /\ items \in Seq(Docs \cup {None})
  BY DEF TypeOK
<1>p. provider \in Seq(Job) /\ \A id \in DOMAIN provider : provider[id] \in Job
  BY JobFacts DEF TypeOK
<1> SUFFICES Named' /\ Busy' /\ Paired'
  BY DEF Aligned
<1>n. ASSUME jobs' \subseteq jobs PROVE Named'
  BY <1>0, <1>n DEF Grows
<1>r. ASSUME RunEnds PROVE Busy' /\ Paired'
  BY <1>r DEF RunEnds, AtJob
<1>k. ASSUME pc' = pc \/ pc' \notin AtJob \cup {"store"}, UNCHANGED <<pending, job, items>>
      PROVE  Busy' /\ Paired'
  BY <1>0, <1>k DEF Grows, AtJob
<1>1. CASE Begin
  BY <1>1, <1>n, <1>k DEF Begin, persistent, AtJob
<1>2. CASE NextWindow
  BY <1>2, <1>n, <1>k DEF NextWindow, persistent, AtJob
<1>3. CASE Scan
  BY <1>3, <1>n DEF Scan, persistent, AtJob
<1>4. CASE FlushLast
  BY <1>4, <1>n, <1>k DEF FlushLast, persistent, inFlight, AtJob
<1>5. CASE PublishWindow
  BY <1>5, <1>n, <1>k DEF PublishWindow, AtJob
<1>6. CASE Lookup
  <2>1. CASE pc' = "submit"
    BY <1>6, <1>n, <2>1 DEF Lookup, persistent, AtJob
  <2>2. CASE pc' # "submit"
    <3>1. PICK r \in Recorded : job' = r.id /\ pc' = "poll"
      BY <1>6, <2>2 DEF Lookup
    <3>2. r.id \in DOMAIN provider /\ provider[r.id].docs = pending
      BY <1>0, <3>1 DEF Recorded, JobKey
    <3> QED
      BY <1>6, <1>n, <3>1, <3>2 DEF Lookup, persistent, remote
  <2> QED
    BY <2>1, <2>2
<1>7. CASE Submit
  <2>1. Running(pending) \in Job /\ Running(pending).docs = pending
    BY <1>7, <1>s DEF Running, Job
  <2>2. /\ Len(provider) \in Nat /\ Len(provider') = Len(provider) + 1
        /\ DOMAIN provider' = 1..Len(provider')
        /\ provider'[Len(provider) + 1] = Running(pending)
    BY <1>7, <1>p, <2>1, AppendProperties, LenProperties DEF Submit
  <2>3. job' \in DOMAIN provider' /\ provider'[job'].docs = pending'
    BY <1>7, <2>1, <2>2 DEF Submit
  <2> QED
    BY <1>7, <1>n, <2>3 DEF Submit, persistent
<1>8. CASE Persist
  <2>1. job \in DOMAIN provider /\ provider[job].docs = pending
    BY <1>0, <1>8 DEF Persist, AtJob
  <2>2. PICK old \in SUBSET {r \in jobs : provider[r.id].status = "gone"} :
          jobs' = ((jobs \ old) \ Recorded) \cup {[key |-> JobKey(pending), id |-> job]}
    BY <1>8 DEF Persist
  <2>3. Named'
    BY <1>0, <1>8, <2>1, <2>2 DEF Persist, JobKey, remote
  <2> QED
    BY <1>8, <2>1, <2>3 DEF Persist, remote, inFlight
<1>9. CASE Poll
  BY <1>0, <1>9, <1>n DEF Poll, persistent, remote, inFlight, AtJob
<1>10. CASE Timeout
  BY <1>0, <1>10, <1>n DEF Timeout, persistent, inFlight, AtJob, Grows
<1>11. CASE Cancelled
  BY <1>11, <1>n, <1>r DEF Cancelled
<1>12. CASE Fetch
  <2>1. CASE RunEnds
    BY <1>12, <1>n, <1>r, <2>1 DEF Fetch, persistent
  <2>2. CASE ~RunEnds
    <3> DEFINE j == provider[job]
    <3>1. /\ Len(j.docs) = Len(pending) /\ pc' = "clear"
          /\ items' = [i \in 1..Len(pending) |-> IF j.docs[i] \in j.bad THEN None ELSE j.docs[i]]
          /\ UNCHANGED <<pending, job>>
      BY <1>12, <2>2 DEF Fetch
    <3>2. job \in DOMAIN provider /\ j.docs = pending
      BY <1>0, <1>12 DEF Fetch, AtJob
    <3>3. Len(items') = Len(pending) /\ DOMAIN items' = 1..Len(pending)
      <4>1. Len(pending) \in Nat
        BY <1>s, LenProperties
      <4> QED
        BY <3>1, <4>1
    <3> QED
      BY <1>12, <1>n, <3>1, <3>2, <3>3 DEF Fetch, persistent, remote
  <2> QED
    BY <2>1, <2>2
<1>13. CASE Clear
  BY <1>0, <1>13, <1>n DEF Clear, remote, inFlight, AtJob
<1>14. CASE StoreItem
  <2>1. /\ Len(items) = Len(pending) /\ \A i \in DOMAIN items : items[i] \in {None, pending[i]}
        /\ items # <<>>
    <3>1. Len(items) = Len(pending) /\ Len(pending) # 0
      BY <1>0, <1>14, <1>s, EmptySeq DEF StoreItem
    <3> QED
      BY <1>0, <1>14, <3>1, EmptySeq DEF StoreItem
  <2>2. /\ Tail(items) \in Seq(Docs \cup {None}) /\ Len(Tail(items)) = Len(items) - 1
        /\ \A i \in 1..Len(Tail(items)) : Tail(items)[i] = items[i + 1]
    BY <1>s, <2>1, HeadTailProperties
  <2>3. /\ Tail(pending) \in Seq(Docs) /\ Len(Tail(pending)) = Len(pending) - 1
        /\ \A i \in 1..Len(Tail(pending)) : Tail(pending)[i] = pending[i + 1]
    BY <1>14, <1>s, HeadTailProperties DEF StoreItem
  <2>4. /\ DOMAIN items = 1..Len(items) /\ Len(items) \in Nat
        /\ DOMAIN Tail(items) = 1..Len(Tail(items))
    BY <1>s, <2>2, LenProperties
  <2>5. \A i \in 1..Len(Tail(items)) : i + 1 \in DOMAIN items /\ i \in 1..Len(Tail(pending))
    BY <2>1, <2>2, <2>3, <2>4
  <2>6. Paired'
    BY <1>14, <2>1, <2>2, <2>3, <2>4, <2>5 DEF StoreItem
  <2> QED
    BY <1>14, <1>n, <2>6 DEF StoreItem, AtJob
<1>15. CASE PartitionDone
  BY <1>15, <1>n DEF PartitionDone, persistent, AtJob
<1>16. CASE Interrupt
  BY <1>16, <1>n, <1>r DEF Interrupt, persistent
<1>17. CASE Arrive
  BY <1>17, <1>n, <1>k DEF Arrive, inFlight
<1>18. ASSUME NEW id \in DOMAIN provider, Complete(id) \/ Expire(id)
       PROVE  Named' /\ Busy' /\ Paired'
  BY <1>18, <1>n, <1>k DEF Complete, Expire, persistent, inFlight
<1>19. CASE UNCHANGED vars
  BY <1>19, <1>n, <1>k DEF vars, persistent, inFlight
<1> QED
  BY <1>1, <1>2, <1>3, <1>4, <1>5, <1>6, <1>7, <1>8, <1>9, <1>10, <1>11, <1>12, <1>13, <1>14,
     <1>15, <1>16, <1>17, <1>18, <1>19 DEF Next, Run

\* Whatever a run, the provider or the source does, the state stays in its type.
THEOREM BatchTypeCorrect == Spec => []TypeOK
<1>1. Init => TypeOK /\ Aligned
  BY TypeInit, AlignedInit
<1>2. TypeOK /\ Aligned /\ [Next]_vars => (TypeOK /\ Aligned)'
  BY TypeStep, AlignedStep
<1> QED
  BY <1>1, <1>2, PTL DEF Spec

-----------------------------------------------------------------------------
(* Answers and their documents.                                            *)

\* An answer is cached for its own document, and what a window counts as answered,
\* or has published, is cached.
Matched ==
  /\ AnswersOwnDocument
  /\ \A d \in processed \cup answered : cache[d] = d

\* The first document of a partition, and the answer stored for it.
LEMMA StoredItem ==
  ASSUME TypeOK, Aligned, StoreItem
  PROVE  /\ Head(pending) = pending[1] /\ Head(pending) \in Docs /\ Head(items) = items[1]
         /\ Head(items) \in {None, Head(pending)} /\ Head(pending) # None
         /\ 1 \in DOMAIN pending
         /\ DOMAIN items = DOMAIN pending
<1>1. pending \in Seq(Docs) /\ pending # <<>> /\ items \in Seq(Docs \cup {None})
  BY DEF TypeOK, StoreItem
<1>2. /\ Len(items) = Len(pending) /\ Len(pending) \in Nat \ {0}
      /\ DOMAIN items = 1..Len(items) /\ DOMAIN pending = 1..Len(pending)
  BY <1>1, EmptySeq, LenProperties DEF StoreItem, Aligned
<1>3. Head(pending) = pending[1] /\ Head(items) = items[1] /\ 1 \in DOMAIN items
  BY <1>1, <1>2
<1>4. Head(pending) \in Docs
  BY <1>1, HeadTailProperties
<1> QED
  BY <1>2, <1>3, <1>4, DocsAssumption DEF StoreItem, Aligned, None

LEMMA MatchedStep ==
  ASSUME TypeOK, Aligned, Matched, [Next]_vars
  PROVE  Matched'
<1>0. /\ cache \in [Docs -> Docs \cup {None}] /\ answered \subseteq Docs /\ processed \subseteq Docs
      /\ AnswersOwnDocument /\ \A d \in processed \cup answered : cache[d] = d
  BY DEF TypeOK, Matched
<1>1. CASE Scan
  <2>1. window \in Seq(Docs) /\ Head(window) \in Docs
    BY <1>1, HeadTailProperties DEF TypeOK, Scan
  <2>2. CASE cache[Head(window)] = None
    BY <1>0, <1>1, <2>2 DEF Scan, persistent, Matched, AnswersOwnDocument
  <2>3. CASE cache[Head(window)] # None
    BY <1>0, <1>1, <2>1, <2>3 DEF Scan, persistent, Matched, AnswersOwnDocument
  <2> QED
    BY <2>2, <2>3
<1>2. CASE PublishWindow
  BY <1>0, <1>2 DEF PublishWindow, Matched, AnswersOwnDocument
<1>3. CASE StoreItem
  <2>1. Head(pending) \in Docs /\ Head(items) \in {None, Head(pending)} /\ Head(pending) # None
    BY <1>3, StoredItem
  <2> QED
    BY <1>0, <1>3, <2>1 DEF StoreItem, Matched, AnswersOwnDocument
<1>4. CASE UNCHANGED <<cache, processed>> /\ answered' \in {answered, {}}
  BY <1>0, <1>4 DEF Matched, AnswersOwnDocument
<1>5. ASSUME NEW id, Complete(id) \/ Expire(id) PROVE UNCHANGED <<cache, processed, answered>>
  BY <1>5 DEF Complete, Expire, persistent, inFlight
<1> QED
  BY <1>1, <1>2, <1>3, <1>4, <1>5
     DEF Next, Run, vars, persistent, remote, inFlight, Begin, NextWindow, FlushLast,
         Lookup, Submit, Persist, Poll, Timeout, Cancelled, Fetch, Clear, PartitionDone,
         Interrupt, Arrive, RunEnds

LEMMA MatchedInit == Init => Matched
BY DEF Init, Matched, AnswersOwnDocument, None

\* Answers stay with the documents they answer, whatever is interrupted, lost,
\* failed, resumed by position or forgotten by the provider.
THEOREM AnswersStay == Spec => []AnswersMatch
<1>1. Init => TypeOK /\ Aligned /\ Matched
  BY TypeInit, AlignedInit, MatchedInit
<1>2. TypeOK /\ Aligned /\ Matched /\ [Next]_vars => (TypeOK /\ Aligned /\ Matched)'
  BY TypeStep, AlignedStep, MatchedStep
<1>3. Matched => AnswersMatch
  BY DEF Matched, AnswersMatch, PublishedAnswered
<1> QED
  BY <1>1, <1>2, <1>3, PTL DEF Spec

-----------------------------------------------------------------------------
(* Jobs and their records.                                                 *)

\* Which jobs a run can still reach.
Ids == {job} \cup {r.id : r \in jobs}
Resting == {"idle", "window", "scan", "lookup", "submit", "publish"}
AtRecorded == {"poll", "cancel", "fetch", "clear"}
AtPartition == AtJob \cup {"lookup", "submit", "store"}
AtNone == {"idle", "window", "publish"}
AnswerOf(j, i) == IF j.docs[i] \in j.bad THEN None ELSE j.docs[i]

\* Without a crash between a submission and its record a job that still runs is the
\* run's own, recorded or given up; a run that waits for a job has recorded it, once.
Tracked ==
  /\ pc \in Resting => job = None
  /\ pc = "store" => job \in DOMAIN provider
  /\ pc \in AtNone => pending = <<>>
  /\ \A r, q \in jobs : r.key = q.key => r = q
  /\ pc \in {"submit", "persist"} => Recorded = {}
  /\ pc \in AtRecorded => \E r \in jobs : r.key = pending /\ r.id = job
  /\ \A id \in Followed : provider[id].status = "running" => id \in Ids
  /\ pc \in {"clear", "store"} => provider[job].status # "running"
  /\ pc = "clear" => \A i \in DOMAIN items : items[i] = AnswerOf(provider[job], i)
  /\ ~Expires => \A id \in DOMAIN provider : provider[id].status # "gone"

LEMMA TrackedInit == Init => Tracked
<1>1. ASSUME Init PROVE DOMAIN provider = {}
  BY <1>1 DEF Init
<1> QED
  BY <1>1 DEF Init, Tracked, Followed, Resting, AtNone, AtRecorded

LEMMA TrackedStep ==
  ASSUME TypeOK, Aligned, JobsRecorded, Tracked, [Next]_vars
  PROVE  Tracked'
<1>g. /\ \A id \in DOMAIN provider :
           /\ id \in DOMAIN provider' /\ provider'[id].docs = provider[id].docs
           /\ provider'[id].status = "running" => provider'[id] = provider[id]
           /\ provider[id].status # "running" /\ provider'[id] # provider[id] =>
                Expires /\ pc = "idle" /\ provider'[id] = [provider[id] EXCEPT !.status = "gone"]
      /\ \A id \in DOMAIN provider' \ DOMAIN provider : Submit /\ id = job'
  BY ProviderGrows DEF Grows
<1>x. Expires' = Expires
  BY SameSetting
<1>t. /\ \A id \in DOMAIN provider : provider[id] \in Job
      /\ \A r \in jobs : r.id \in DOMAIN provider /\ r.id # None
      /\ pc \in AtJob \cup {"store"} => job \in DOMAIN provider
  <2>1. \A id \in DOMAIN provider : provider[id] \in Job /\ id # None
    BY JobFacts DEF None
  <2> QED
    BY <2>1 DEF Aligned, Tracked
<1> USE DEF Resting, AtNone, AtRecorded, AtJob, Followed
<1>b. ASSUME UNCHANGED <<provider, givenUp, jobs, job, pending, items, setting>>,
             \/ pc' = pc
             \/ pc' \in {"idle", "window", "scan", "lookup", "publish"} /\ job = None
                /\ (pc' \in AtNone => pending = <<>>)
      PROVE  Tracked'
  BY <1>x, <1>b DEF Tracked, Ids, Recorded, JobKey
<1>1. CASE Begin
  BY <1>1, <1>b DEF Begin, Tracked, persistent, remote
<1>2. CASE NextWindow
  BY <1>2, <1>b DEF NextWindow, Tracked, persistent, remote
<1>3. CASE Scan
  BY <1>3, <1>x DEF Scan, Tracked, Ids, Recorded, JobKey, persistent, remote
<1>4. CASE FlushLast
  BY <1>4, <1>b DEF FlushLast, Tracked, persistent, remote, inFlight
<1>5. CASE PublishWindow
  BY <1>5, <1>b DEF PublishWindow, Tracked, remote
<1>6. CASE Lookup
  <2>1. /\ UNCHANGED <<jobs, provider, givenUp, pending, items>> /\ pc = "lookup" /\ job = None
        /\ \/ \E r \in Recorded : job' = r.id /\ pc' = "poll"
           \/ Recorded = {} /\ pc' = "submit" /\ UNCHANGED job
    BY <1>6 DEF Lookup, Tracked, persistent, remote
  <2>2. Ids \ {None} \subseteq Ids' /\ Recorded' = Recorded
    BY <2>1 DEF Ids, Recorded, JobKey
  <2>3. pc' = "poll" => \E r \in jobs' : r.key = pending' /\ r.id = job'
    BY <2>1 DEF Recorded, JobKey
  <2>4. \A id \in Followed' : provider'[id].status = "running" => id \in Ids'
    <3>1. None \notin DOMAIN provider
      BY JobFacts DEF None
    <3> QED
      BY <2>1, <2>2, <3>1 DEF Tracked
  <2> QED
    BY <1>x, <2>1, <2>2, <2>3, <2>4 DEF Tracked
<1>7. CASE Submit
  <2>1. ASSUME NEW id \in DOMAIN provider PROVE provider'[id] = provider[id]
    <3>1. provider[id].status # "running" => pc # "idle"
      BY <1>7 DEF Submit
    <3>2. provider \in Seq(Job) /\ id \in 1..Len(provider) /\ Running(pending) \in Job
      BY JobFacts DEF TypeOK, Running, Job
    <3> QED
      BY <1>7, <3>2, AppendProperties DEF Submit
  <2>2. provider'[job'].status = "running" /\ job' \in DOMAIN provider'
    <3>1. provider \in Seq(Job) /\ Running(pending) \in Job
      BY DEF TypeOK, Running, Job
    <3>2. /\ provider' \in Seq(Job) /\ Len(provider') = Len(provider) + 1
          /\ provider'[Len(provider) + 1] = Running(pending) /\ Len(provider) \in Nat
      BY <1>7, <3>1, AppendProperties, LenProperties DEF Submit
    <3> QED
      BY <1>7, <3>2, LenProperties DEF Submit, Running
  <2> QED
    <3>1. UNCHANGED <<jobs, givenUp, pending, items>> /\ pc' = "persist" /\ job = None /\ Recorded' = {}
      BY <1>7 DEF Submit, Tracked, persistent, Recorded, JobKey
    <3>2. Ids \ {None} \subseteq Ids' /\ job' \in Ids' /\ None \notin DOMAIN provider
      BY <3>1, JobFacts DEF Ids, None
    <3>3. \A id \in Followed' : provider'[id].status = "running" => id \in Ids'
      <4>1. \A id \in Followed' : id \in Followed \/ id = job'
        BY <1>7, <1>g, <3>1
      <4> QED
        BY <2>1, <3>2, <4>1 DEF Tracked
    <3>4. ~Expires => \A id \in DOMAIN provider' : provider'[id].status # "gone"
      BY <1>g, <2>1, <2>2 DEF Tracked
    <3> QED
      BY <1>x, <3>1, <3>3, <3>4 DEF Tracked
<1>8. CASE Persist
  <2>1. PICK old \in SUBSET {r \in jobs : provider[r.id].status = "gone"} :
          jobs' = ((jobs \ old) \ Recorded) \cup {[key |-> JobKey(pending), id |-> job]}
    BY <1>8 DEF Persist
  <2>2. Recorded = {} /\ UNCHANGED <<provider, givenUp, pending, job>> /\ pc' = "poll"
    BY <1>8 DEF Persist, Tracked, remote, inFlight
  <2>3. \A id \in Followed : provider[id].status = "running" => id \in Ids'
    BY <2>1, <2>2 DEF Tracked, Ids
  <2>4. \A r, q \in jobs' : r.key = q.key => r = q
    BY <2>1, <2>2 DEF Tracked, Recorded, JobKey
  <2>5. \E r \in jobs' : r.key = pending /\ r.id = job
    <3> DEFINE new == [key |-> pending, id |-> job]
    <3>1. new \in jobs' /\ new.key = pending /\ new.id = job
      BY <2>1 DEF JobKey
    <3> HIDE DEF new
    <3> QED
      BY <3>1
  <2> QED
    BY <1>x, <2>2, <2>3, <2>4, <2>5 DEF Tracked
<1>9. CASE Poll
  BY <1>9, <1>x DEF Poll, Tracked, Ids, Recorded, persistent, remote, inFlight
<1>10. CASE Timeout
  <2>1. job \in DOMAIN provider
    BY <1>10, <1>t DEF Timeout
  <2>2. /\ \A id \in DOMAIN provider : provider'[id].status = "running" =>
                                         provider[id].status = "running"
        /\ \A id \in DOMAIN provider : provider'[id].status = "gone" =>
                                         provider[id].status = "gone"
        /\ DOMAIN provider' = DOMAIN provider
    <3>1. ASSUME NEW bad \in SUBSET Range(provider[job].docs), provider' = Ended(job, bad)
          PROVE  /\ provider'[job].status = "done" /\ DOMAIN provider' = DOMAIN provider
                 /\ \A id \in DOMAIN provider : id # job => provider'[id] = provider[id]
      BY <2>1, <3>1, EndedFacts
    <3> QED
      BY <1>10, <3>1 DEF Timeout
  <2>3. pc = "poll" /\ pc' = "cancel" /\ UNCHANGED <<jobs, givenUp, job, pending, items, setting>>
    BY <1>10 DEF Timeout, persistent, inFlight
  <2> QED
    BY <1>x, <2>2, <2>3 DEF Tracked, Ids, Recorded
<1>11. CASE Cancelled
  <2>1. ASSUME NEW id \in Followed', provider[id].status = "running" PROVE id \in Ids'
    <3>1. id # job /\ id \in Ids
      BY <1>11, <2>1 DEF Cancelled, Tracked
    <3>2. PICK r \in jobs : r.id = id
      BY <3>1 DEF Ids
    <3>3. r \notin Recorded
      BY <1>11, <3>1, <3>2 DEF Cancelled, Tracked, Recorded, JobKey
    <3> QED
      BY <1>11, <3>2, <3>3 DEF Cancelled, Ids
  <2> QED
    BY <1>11, <1>x, <2>1 DEF Cancelled, RunEnds, Tracked, remote
<1>r. ASSUME RunEnds, UNCHANGED <<jobs, provider, givenUp, setting>>, pc \in Resting \cup AtRecorded
      PROVE  Tracked'
  <2>1. Ids \ {None} \subseteq Ids'
    BY <1>r DEF Ids, Tracked, RunEnds
  <2> QED
    BY <1>r, <1>x, <1>t, <2>1, JobFacts DEF Tracked, RunEnds, Ids, None
<1>12. CASE Fetch
  <2>1. CASE RunEnds
    BY <1>12, <1>r, <2>1 DEF Fetch, persistent, remote
  <2>2. CASE ~RunEnds
    <3>1. /\ provider[job].status = "done" /\ pc' = "clear" /\ pc = "fetch"
          /\ items' = [i \in 1..Len(pending) |-> AnswerOf(provider[job], i)]
          /\ UNCHANGED <<jobs, provider, givenUp, pending, job, setting>>
      BY <1>12, <2>2 DEF Fetch, AnswerOf, persistent, remote
    <3>2. \A i \in DOMAIN items' : items'[i] = AnswerOf(provider[job], i)
      BY <3>1
    <3> QED
      BY <1>x, <3>1, <3>2 DEF Tracked, Ids, Recorded, AnswerOf
  <2> QED
    BY <2>1, <2>2
<1>13. CASE Clear
  <2>1. ASSUME NEW id \in Followed, provider[id].status = "running" PROVE id \in Ids'
    <3>1. id # job /\ id \in Ids
      BY <1>13, <2>1 DEF Clear, Tracked
    <3>2. PICK r \in jobs : r.id = id
      BY <3>1 DEF Ids
    <3>3. r \notin Recorded
      BY <1>13, <3>1, <3>2 DEF Clear, Tracked, Recorded, JobKey
    <3> QED
      BY <1>13, <3>2, <3>3 DEF Clear, Ids
  <2> QED
    BY <1>13, <1>t, <1>x, <2>1 DEF Clear, Tracked, remote, inFlight
<1>14. CASE StoreItem
  BY <1>14, <1>x DEF StoreItem, Tracked, Ids, Recorded, remote
<1>15. CASE PartitionDone
  <2>1. Ids \ {job} \subseteq Ids'
    BY <1>15 DEF PartitionDone, persistent, Ids
  <2> QED
    BY <1>15, <1>x, <2>1 DEF PartitionDone, Tracked, persistent, remote
<1>16. CASE Interrupt
  <2>1. pc \in Resting \cup AtRecorded
    BY <1>16 DEF Interrupt, JobsRecorded, TypeOK, Points
  <2> QED
    BY <1>16, <1>r, <2>1 DEF Interrupt, persistent, remote
<1>17. CASE Arrive
  BY <1>17, <1>b DEF Arrive, remote, inFlight
<1>18. ASSUME NEW id \in DOMAIN provider, Complete(id) PROVE Tracked'
  <2>1. PICK bad \in SUBSET Range(provider[id].docs) : provider' = Ended(id, bad)
    BY <1>18 DEF Complete
  <2>2. /\ DOMAIN provider' = DOMAIN provider /\ provider'[id].status = "done"
        /\ \A a \in DOMAIN provider : a # id => provider'[a] = provider[a]
        /\ provider[id].status = "running"
        /\ UNCHANGED <<jobs, givenUp, job, pending, items, pc>>
    BY <1>18, <2>1, EndedFacts DEF Complete, persistent, inFlight
  <2> QED
    BY <1>g, <1>t, <1>x, <2>2 DEF Tracked, Ids, Recorded, AnswerOf
<1>19. ASSUME NEW id \in DOMAIN provider, Expire(id) PROVE Tracked'
  <2>1. provider' = [provider EXCEPT ![id].status = "gone"]
    BY <1>19 DEF Expire
  <2>2. /\ DOMAIN provider' = DOMAIN provider /\ provider'[id].status = "gone"
        /\ \A a \in DOMAIN provider : a # id => provider'[a] = provider[a]
        /\ Expires /\ pc' = "idle"
        /\ UNCHANGED <<jobs, givenUp, job, pending, items, pc>>
    BY <1>19, <1>t, <2>1 DEF Expire, Job, persistent, inFlight
  <2> QED
    BY <1>g, <1>t, <1>x, <2>2 DEF Tracked, Ids
<1>20. CASE UNCHANGED vars
  BY <1>20, <1>b DEF vars, persistent, remote, inFlight
<1> QED
  BY <1>1, <1>2, <1>3, <1>4, <1>5, <1>6, <1>7, <1>8, <1>9, <1>10, <1>11, <1>12, <1>13, <1>14,
     <1>15, <1>16, <1>17, <1>18, <1>19, <1>20 DEF Next, Run

-----------------------------------------------------------------------------
(* The documents of a window, in their order.                              *)

LEMMA Indices ==
  ASSUME NEW s \in Seq(Docs)
  PROVE  /\ Len(s) \in Nat /\ DOMAIN s = 1..Len(s)
         /\ \A i \in DOMAIN s : s[i] \in Docs /\ s[i] \in Nat /\ i \in Nat
         /\ Range(s) = {s[i] : i \in DOMAIN s} /\ Range(s) \subseteq Docs
<1>1. Len(s) \in Nat /\ DOMAIN s = 1..Len(s)
  BY LenProperties
<1>2. \A i \in DOMAIN s : s[i] \in Docs /\ s[i] \in Nat /\ i \in Nat
  <2>1. \A i \in DOMAIN s : s[i] \in Docs
    BY <1>1, ElementOfSeq
  <2>2. Docs \subseteq Nat
    BY DocsAssumption
  <2>3. \A i \in 1..Len(s) : i \in Nat
    OBVIOUS
  <2> QED
    BY <1>1, <2>1, <2>2, <2>3
<1>3. Range(s) = {s[i] : i \in DOMAIN s} /\ Range(s) \subseteq Docs
  BY RangeOfSeq DEF Range
<1> QED
  BY <1>1, <1>2, <1>3

\* The first place where two listings of one set differ, there is none.
LEMMA SamePlace ==
  ASSUME NEW s \in Seq(Docs), NEW t \in Seq(Docs), Increasing(s), Increasing(t),
         Range(s) \subseteq Range(t),
         NEW i \in DOMAIN s, i \in DOMAIN t, \A j \in DOMAIN s : j < i => s[j] = t[j]
  PROVE  t[i] <= s[i]
<1>1. PICK k \in DOMAIN t : s[i] = t[k]
  BY Indices
<1>2. /\ i \in Nat /\ k \in Nat /\ s[i] \in Nat /\ t[i] \in Nat /\ t[k] \in Nat
      /\ DOMAIN s = 1..Len(s) /\ DOMAIN t = 1..Len(t) /\ Len(s) \in Nat /\ Len(t) \in Nat
  BY <1>1, Indices
<1>3. CASE k < i
  <2>1. k \in DOMAIN s /\ s[k] = t[k]
    BY <1>2, <1>3
  <2>2. s[k] < s[i]
    BY <1>3, <2>1 DEF Increasing
  <2> QED
    BY <1>1, <1>2, <2>1, <2>2
<1>4. CASE k = i
  BY <1>1, <1>2, <1>4
<1>5. CASE i < k
  BY <1>1, <1>2, <1>5 DEF Increasing
<1> QED
  BY <1>2, <1>3, <1>4, <1>5

LEMMA NotLonger ==
  ASSUME NEW s \in Seq(Docs), NEW t \in Seq(Docs), Increasing(t),
         Range(t) \subseteq Range(s), \A i \in DOMAIN s \cap DOMAIN t : s[i] = t[i]
  PROVE  Len(t) <= Len(s)
<1>1. /\ Len(s) \in Nat /\ Len(t) \in Nat /\ DOMAIN s = 1..Len(s) /\ DOMAIN t = 1..Len(t)
      /\ \A i \in DOMAIN t : t[i] \in Nat /\ t[i] \in Range(t)
  BY Indices DEF Range
<1>2. SUFFICES ASSUME Len(s) < Len(t) PROVE FALSE
  BY <1>1
<1>3. Len(s) + 1 \in DOMAIN t /\ t[Len(s) + 1] \in Range(s)
  BY <1>1, <1>2
<1>4. PICK k \in DOMAIN s : t[Len(s) + 1] = s[k]
  BY <1>3, Indices
<1>5. k \in DOMAIN t /\ s[k] = t[k] /\ k < Len(s) + 1
  BY <1>1, <1>2, <1>4
<1>6. t[k] < t[Len(s) + 1]
  BY <1>3, <1>5 DEF Increasing
<1> QED
  BY <1>1, <1>3, <1>4, <1>5, <1>6

\* A set of documents has one listing.
LEMMA OneListing ==
  ASSUME NEW s \in Seq(Docs), NEW t \in Seq(Docs), Increasing(s), Increasing(t),
         Range(s) = Range(t)
  PROVE  s = t
<1> DEFINE Differ == {i \in DOMAIN s \cap DOMAIN t : s[i] # t[i]}
<1>1. /\ \A i \in DOMAIN s : i \in Nat /\ s[i] \in Nat
      /\ \A i \in DOMAIN t : i \in Nat /\ t[i] \in Nat
      /\ DOMAIN s = 1..Len(s) /\ DOMAIN t = 1..Len(t) /\ Len(s) \in Nat /\ Len(t) \in Nat
  BY Indices
<1>2. Differ = {}
  <2>1. SUFFICES ASSUME Differ # {} PROVE FALSE
    OBVIOUS
  <2>2. Differ \in SUBSET Nat
    BY <1>1
  <2>3. PICK i \in Differ : \A j \in Differ : i <= j
    <3> HIDE DEF Differ
    <3> QED
      BY <2>1, <2>2, Least
  <2>4. /\ \A j \in DOMAIN s : j < i => s[j] = t[j]
        /\ \A j \in DOMAIN t : j < i => t[j] = s[j]
    <3>1. ASSUME NEW j \in DOMAIN s \cup DOMAIN t, j < i PROVE j \in DOMAIN s \cap DOMAIN t
      BY <1>1, <3>1
    <3> QED
      BY <1>1, <2>3, <3>1
  <2>5. t[i] <= s[i]
    BY <2>4, SamePlace
  <2>6. s[i] <= t[i]
    BY <2>4, SamePlace
  <2> QED
    BY <1>1, <2>3, <2>5, <2>6
<1>3. Len(s) = Len(t)
  <2>1. Len(t) <= Len(s)
    BY <1>2, NotLonger
  <2>2. Len(s) <= Len(t)
    BY <1>2, NotLonger
  <2>3. Len(s) \in Nat /\ Len(t) \in Nat
    BY LenProperties
  <2> QED
    BY <2>1, <2>2, <2>3
<1> QED
  BY <1>1, <1>2, <1>3, SeqEqual

LEMMA EmptyOrder == Increasing(<<>>) /\ Range(<<>>) = {} /\ <<>> \in Seq(Docs) /\ Len(<<>>) = 0
BY EmptySeq DEF Increasing, Range

LEMMA HeadOrder ==
  ASSUME NEW s \in Seq(Docs), s # <<>>, Increasing(s)
  PROVE  /\ Head(s) \in Docs /\ Tail(s) \in Seq(Docs) /\ Len(Tail(s)) = Len(s) - 1
         /\ Increasing(Tail(s)) /\ Range(s) = {Head(s)} \cup Range(Tail(s))
         /\ \A d \in Range(Tail(s)) : Head(s) < d
<1>1. /\ Head(s) \in Docs /\ Tail(s) \in Seq(Docs) /\ Len(Tail(s)) = Len(s) - 1
      /\ \A i \in 1..Len(Tail(s)) : Tail(s)[i] = s[i + 1]
  BY HeadTailProperties
<1>2. /\ Len(s) \in Nat \ {0} /\ DOMAIN s = 1..Len(s) /\ DOMAIN Tail(s) = 1..Len(Tail(s))
      /\ Head(s) = s[1]
  BY <1>1, EmptySeq, LenProperties
<1>3. \A i \in DOMAIN Tail(s) : i + 1 \in DOMAIN s /\ Tail(s)[i] = s[i + 1] /\ i \in Nat
  BY <1>1, <1>2
<1>4. Increasing(Tail(s))
  BY <1>2, <1>3 DEF Increasing
<1>5. \A i \in DOMAIN s : i = 1 \/ (i - 1 \in DOMAIN Tail(s) /\ Tail(s)[i - 1] = s[i])
  BY <1>1, <1>2, <1>3
<1>6. Range(s) = {Head(s)} \cup Range(Tail(s))
  <2>1. Range(s) = {s[i] : i \in DOMAIN s} /\ Range(Tail(s)) = {Tail(s)[i] : i \in DOMAIN Tail(s)}
    BY <1>1, Indices
  <2>2. 1 \in DOMAIN s
    BY <1>2
  <2> QED
    <3>1. Range(s) \subseteq {Head(s)} \cup Range(Tail(s))
      <4> SUFFICES ASSUME NEW i \in DOMAIN s PROVE s[i] = Head(s) \/ s[i] \in Range(Tail(s))
        BY <2>1
      <4>1. CASE i = 1
        BY <1>2, <4>1
      <4>2. CASE i - 1 \in DOMAIN Tail(s) /\ Tail(s)[i - 1] = s[i]
        BY <2>1, <4>2
      <4> QED
        BY <1>5, <4>1, <4>2
    <3>2. {Head(s)} \cup Range(Tail(s)) \subseteq Range(s)
      BY <1>2, <1>3, <2>1, <2>2
    <3> QED
      BY <3>1, <3>2
<1>7. \A i \in DOMAIN Tail(s) : 1 \in DOMAIN s /\ 1 < i + 1
  BY <1>1, <1>2
<1>8. \A d \in Range(Tail(s)) : Head(s) < d
  <2>1. Range(Tail(s)) = {Tail(s)[i] : i \in DOMAIN Tail(s)}
    BY <1>1, Indices
  <2>2. \A i \in DOMAIN Tail(s) : s[1] < s[i + 1]
    BY <1>3, <1>7 DEF Increasing
  <2> QED
    BY <1>2, <1>3, <2>1, <2>2
<1> QED
  BY <1>1, <1>4, <1>6, <1>8

LEMMA AppendOrder ==
  ASSUME NEW s \in Seq(Docs), Increasing(s), NEW e \in Docs, \A d \in Range(s) : d < e
  PROVE  /\ Append(s, e) \in Seq(Docs) /\ Append(s, e) # <<>>
         /\ Len(Append(s, e)) = Len(s) + 1
         /\ Increasing(Append(s, e)) /\ Range(Append(s, e)) = Range(s) \cup {e}
<1> DEFINE a == Append(s, e)
<1>1. /\ a \in Seq(Docs) /\ a # <<>> /\ Len(a) = Len(s) + 1
      /\ \A i \in 1..Len(s) : a[i] = s[i]
      /\ a[Len(s) + 1] = e
  BY AppendProperties
<1> HIDE DEF a
<1>2. Len(s) \in Nat /\ DOMAIN s = 1..Len(s) /\ DOMAIN a = 1..(Len(s) + 1)
  BY <1>1, LenProperties
<1>3. \A i \in DOMAIN a : i \in DOMAIN s \/ i = Len(s) + 1
  BY <1>2
<1>4. \A i \in DOMAIN s : s[i] < e /\ i \in DOMAIN a /\ a[i] = s[i] /\ Len(s) + 1 \in DOMAIN a
  BY <1>1, <1>2, Indices
<1>5. ASSUME NEW i \in DOMAIN a, NEW j \in DOMAIN a, i < j PROVE a[i] < a[j]
  <2>1. i \in DOMAIN s
    BY <1>2, <1>5
  <2> QED
    BY <1>1, <1>3, <1>4, <1>5, <2>1 DEF Increasing
<1>6. Range(a) = Range(s) \cup {e}
  <2>1. Range(a) = {a[i] : i \in DOMAIN a} /\ Range(s) = {s[i] : i \in DOMAIN s}
    BY <1>1, Indices
  <2>2. Len(s) + 1 \in DOMAIN a
    BY <1>2
  <2> QED
    BY <1>1, <1>3, <1>4, <2>1, <2>2
<1> QED
  BY <1>1, <1>5, <1>6 DEF a, Increasing

LEMMA SliceOrder ==
  ASSUME NEW s \in Seq(Docs), Increasing(s), NEW n \in Nat
  PROVE  /\ First(s, n) \in Seq(Docs) /\ Rest(s, n) \in Seq(Docs) /\ Len(First(s, n)) <= n
         /\ Increasing(First(s, n)) /\ Increasing(Rest(s, n))
         /\ Range(First(s, n)) \subseteq Range(s)
         /\ Range(Rest(s, n)) = Range(s) \ Range(First(s, n))
<1> DEFINE f == First(s, n)
           r == Rest(s, n)
<1>0. /\ f \in Seq(Docs) /\ r \in Seq(Docs)
      /\ Len(f) = IF Len(s) < n THEN Len(s) ELSE n
      /\ Len(r) = IF Len(s) < n THEN 0 ELSE Len(s) - n
      /\ \A i \in 1..Len(f) : f[i] = s[i]
      /\ \A i \in 1..Len(r) : r[i] = s[i + n]
  BY FirstRest
<1> HIDE DEF f, r
<1>1. /\ Len(s) \in Nat /\ DOMAIN s = 1..Len(s) /\ DOMAIN f = 1..Len(f) /\ DOMAIN r = 1..Len(r)
      /\ Range(s) = {s[i] : i \in DOMAIN s} /\ Range(f) = {f[i] : i \in DOMAIN f}
      /\ Range(r) = {r[i] : i \in DOMAIN r}
      /\ \A i \in DOMAIN s : s[i] \in Nat
  BY <1>0, Indices
<1> DEFINE ls == Len(s)
           lf == Len(f)
           lr == Len(r)
<1>l. /\ ls \in Nat /\ lf = (IF ls < n THEN ls ELSE n) /\ lr = (IF ls < n THEN 0 ELSE ls - n)
      /\ DOMAIN s = 1..ls /\ DOMAIN f = 1..lf /\ DOMAIN r = 1..lr
      /\ \A i \in 1..lf : f[i] = s[i]
      /\ \A i \in 1..lr : r[i] = s[i + n]
  BY <1>0, <1>1
<1> HIDE DEF ls, lf, lr
<1>m. lf \in Nat /\ lr \in Nat /\ lf <= ls /\ lf <= n /\ (lr = 0 \/ lr + n = ls)
  BY <1>l
<1>2. \A i \in DOMAIN f : i \in DOMAIN s /\ f[i] = s[i] /\ i <= n /\ i \in Nat
  BY <1>l, <1>m
<1>3. \A i \in DOMAIN r : i + n \in DOMAIN s /\ r[i] = s[i + n] /\ i \in Nat /\ i # 0
  BY <1>l, <1>m
<1>4. Increasing(f)
  BY <1>2 DEF Increasing
<1>5. Increasing(r)
  BY <1>3 DEF Increasing
<1>6. \A i \in DOMAIN s : i \in DOMAIN f \/ i - n \in DOMAIN r
  BY <1>l, <1>m
<1>7. \A i \in DOMAIN f, j \in DOMAIN r : f[i] < r[j]
  <2>1. ASSUME NEW i \in DOMAIN f, NEW j \in DOMAIN r PROVE i < j + n
    BY <1>2, <1>3
  <2> QED
    BY <1>2, <1>3, <2>1 DEF Increasing
<1>8. Range(f) \subseteq Range(s)
  BY <1>1, <1>2
<1>9. \A i \in DOMAIN f, j \in DOMAIN r : f[i] # r[j]
  BY <1>1, <1>2, <1>3, <1>7
<1>10. Range(r) = Range(s) \ Range(f)
  <2>1. Range(r) \subseteq Range(s) \ Range(f)
    BY <1>1, <1>3, <1>9
  <2>2. ASSUME NEW d \in Range(s), d \notin Range(f) PROVE d \in Range(r)
    <3>1. PICK i \in DOMAIN s : d = s[i]
      BY <1>1
    <3>2. i \notin DOMAIN f
      BY <1>1, <1>2, <2>2, <3>1
    <3>3. i - n \in DOMAIN r /\ i - n + n = i
      BY <1>1, <1>6, <3>2
    <3> QED
      BY <1>1, <1>3, <3>1, <3>3
  <2> QED
    BY <2>1, <2>2
<1>11. Len(f) <= n
  BY <1>m DEF lf
<1> QED
  BY <1>0, <1>4, <1>5, <1>8, <1>10, <1>11 DEF f, r

-----------------------------------------------------------------------------
(* The partition a run submits again.                                      *)

Left == present \ processed
Slice == Range(First(Listing(Left), WindowSize))
Unanswered == {d \in Slice : cache[d] # d}

\* Where partitions are as large as windows and failures fail the run, the next
\* window is always the first slice of what is left, its partition is what has no
\* answer there, and so is that of every recorded job.
Begun == pc = "window" => todo = Listing(Left)
Cut ==
  pc \in AtPartition \cup {"scan", "publish"} =>
    /\ Increasing(todo) /\ Range(todo) = Left \ Slice
    /\ Slice = Range(window) \cup Range(pending) \cup answered \cup failed
Filling ==
  pc = "scan" =>
    /\ Increasing(window) /\ Increasing(pending)
    /\ \A d \in Range(pending), e \in Range(window) : d < e
    /\ Len(window) + Len(pending) <= WindowSize
    /\ \A d \in Range(pending) : cache[d] # d
    /\ failed # {} => window = <<>> /\ pending = <<>>
Flushed == pc \in AtPartition \cup {"publish"} => window = <<>>
Whole ==
  pc \in AtPartition \ {"store"} =>
    Increasing(pending) /\ Range(pending) = Unanswered /\ failed = {} /\ pending # <<>>
Cleared == pc = "store" => jobs = {} /\ Increasing(pending)
OfSlice == \A r \in jobs : Increasing(r.key) /\ Range(r.key) = Unanswered /\ r.key # <<>>
Sliced == Begun /\ Cut /\ Filling /\ Flushed /\ Whole /\ Cleared /\ OfSlice

LEMMA NoneLonger == ASSUME NEW s \in Seq(Docs), Range(s) = {} PROVE s = <<>>
<1>1. DOMAIN s = 1..Len(s) /\ Len(s) \in Nat /\ (s # <<>> => Len(s) \in Nat \ {0})
  BY LenProperties, EmptySeq
<1>2. SUFFICES ASSUME s # <<>> PROVE FALSE
  OBVIOUS
<1>3. 1 \in DOMAIN s
  BY <1>1, <1>2
<1> QED
  BY <1>3 DEF Range

\* Every recorded job is about the partition at hand.
LEMMA SameKey ==
  ASSUME TypeOK, Sliced, pc \in AtPartition \ {"store"}
  PROVE  jobs = Recorded
<1>1. ASSUME NEW r \in jobs PROVE r.key = pending
  <2>1. r.key \in Seq(Docs) /\ pending \in Seq(Docs)
    BY DEF TypeOK, Record
  <2>2. Increasing(r.key) /\ Increasing(pending) /\ Range(r.key) = Range(pending)
    BY DEF Sliced, Whole, OfSlice
  <2> QED
    BY <2>1, <2>2, OneListing
<1> QED
  BY <1>1 DEF Recorded, JobKey

LEMMA SlicedInit == Init => Sliced
BY DEF Init, Sliced, Begun, Cut, Filling, Flushed, Whole, Cleared, OfSlice, AtPartition, AtJob

LEMMA SlicedStep ==
  ASSUME TypeOK, Aligned, Matched, JobsRecorded, Tracked, SamePartitions, Sliced, [Next]_vars
  PROVE  Sliced'
<1>t. /\ todo \in Seq(Docs) /\ window \in Seq(Docs) /\ pending \in Seq(Docs)
      /\ Left \in SUBSET Docs /\ WindowSize \in Nat \ {0} /\ PartitionSize = WindowSize
      /\ cache \in [Docs -> Docs \cup {None}] /\ \A d \in Docs : cache[d] \in {None, d} /\ d # None
      /\ \A d \in answered : cache[d] = d
  BY SizesAssumption, DocsAssumption
     DEF TypeOK, Left, SamePartitions, Matched, AnswersOwnDocument, None
<1> USE DEF AtPartition, AtJob
<1>s. ASSUME UNCHANGED <<present, processed>> PROVE UNCHANGED <<Left, Slice>>
  BY <1>s DEF Left, Slice
<1>u. ASSUME UNCHANGED <<present, processed, cache>> PROVE UNCHANGED <<Left, Slice, Unanswered>>
  BY <1>u DEF Left, Slice, Unanswered
<1>o. ASSUME UNCHANGED <<present, processed, cache>>, jobs' \subseteq jobs PROVE OfSlice'
  BY <1>u, <1>o DEF Sliced, OfSlice
\* A step that keeps the run in the same part of its window.
<1>k. ASSUME UNCHANGED <<present, processed, cache, todo, window, pending, answered, failed>>,
             jobs' \subseteq jobs,
             \/ pc' = pc
             \/ pc \in AtPartition \ {"store"} /\ pc' \in AtPartition \ {"store"}
      PROVE  Sliced'
  BY <1>u, <1>o, <1>k DEF Sliced, Begun, Cut, Filling, Flushed, Whole, Cleared
<1>e. ASSUME UNCHANGED <<present, processed, cache>>, jobs' \subseteq jobs, pc' = "idle"
      PROVE  Sliced'
  BY <1>o, <1>e DEF Sliced, Begun, Cut, Filling, Flushed, Whole, Cleared
<1>1. CASE Begin
  BY <1>1, <1>u, <1>o
     DEF Begin, persistent, Left, Sliced, Begun, Cut, Filling, Flushed, Whole, Cleared
<1>2. CASE NextWindow
  <2>1. CASE todo = <<>>
    BY <1>2, <1>e, <2>1 DEF NextWindow, persistent
  <2>2. CASE todo # <<>>
    <3>1. /\ todo = Listing(Left) /\ pending' = <<>> /\ pc' = "scan"
          /\ window' = First(todo, WindowSize) /\ todo' = Rest(todo, WindowSize)
          /\ answered' = {} /\ failed' = {}
          /\ UNCHANGED <<present, processed, cache, jobs>>
      BY <1>2, <2>2 DEF NextWindow, persistent, Sliced, Begun, Tracked, AtNone
    <3>2. Increasing(todo) /\ Range(todo) = Left
      BY <1>t, <3>1, ListingProperties
    <3>3. /\ window' \in Seq(Docs) /\ Len(window') <= WindowSize
          /\ Increasing(window') /\ Increasing(todo')
          /\ Range(todo') = Left \ Range(window') /\ Range(window') = Slice
      BY <1>t, <3>1, <3>2, SliceOrder DEF Slice
    <3>4. Len(window') + Len(pending') <= WindowSize
      <4>1. Len(window') \in Nat /\ Len(pending') = 0
        BY <3>1, <3>3, LenProperties, EmptyOrder
      <4> QED
        BY <1>t, <3>3, <4>1
    <3> QED
      BY <1>s, <1>o, <3>1, <3>3, <3>4, EmptyOrder
         DEF Sliced, Begun, Cut, Filling, Flushed, Whole, Cleared
  <2> QED
    BY <2>1, <2>2
<1>3. CASE Scan
  <2> DEFINE d == Head(window)
  <2>0. /\ window # <<>> /\ window' = Tail(window) /\ failed = {} /\ failed' = {}
        /\ UNCHANGED <<present, processed, cache, jobs, todo>>
        /\ Increasing(window) /\ Increasing(pending)
        /\ \A a \in Range(pending), b \in Range(window) : a < b
        /\ Len(window) + Len(pending) <= WindowSize
        /\ \A a \in Range(pending) : cache[a] # a
        /\ Increasing(todo) /\ Range(todo) = Left \ Slice
        /\ Slice = Range(window) \cup Range(pending) \cup answered
    BY <1>3 DEF Scan, persistent, Sliced, Cut, Filling
  <2>1. /\ d \in Docs /\ window' \in Seq(Docs) /\ Len(window') = Len(window) - 1
        /\ Increasing(window') /\ Range(window) = {d} \cup Range(window')
        /\ \A b \in Range(window') : d < b
    BY <1>t, <2>0, HeadOrder
  <2>2. Len(window) \in Nat \ {0} /\ Len(pending) \in Nat
    BY <1>t, <2>0, LenProperties, EmptySeq
  <2>3. CASE cache[d] # None
    <3>1. /\ answered' = answered \cup {d} /\ pc' = "scan" /\ UNCHANGED pending
      BY <1>3, <2>3 DEF Scan
    <3>2. /\ Slice = Range(window') \cup Range(pending) \cup answered'
          /\ \A a \in Range(pending), b \in Range(window') : a < b
          /\ Len(window') + Len(pending) <= WindowSize
      BY <1>t, <2>0, <2>1, <2>2, <3>1
    <3> QED
      BY <1>s, <1>o, <2>0, <2>1, <3>1, <3>2
         DEF Sliced, Begun, Cut, Filling, Flushed, Whole, Cleared
  <2>4. CASE cache[d] = None
    <3>1. /\ UNCHANGED answered /\ pending' = Append(pending, d)
          /\ pc' = IF Len(pending') >= PartitionSize THEN "lookup" ELSE "scan"
      BY <1>3, <2>4 DEF Scan
    <3>2. /\ pending' \in Seq(Docs) /\ pending' # <<>> /\ Len(pending') = Len(pending) + 1
          /\ Increasing(pending') /\ Range(pending') = Range(pending) \cup {d}
      BY <1>t, <2>0, <2>1, <3>1, AppendOrder
    <3>3. /\ Slice = Range(window') \cup Range(pending') \cup answered
          /\ \A a \in Range(pending'), b \in Range(window') : a < b
          /\ Len(window') + Len(pending') <= WindowSize
          /\ \A a \in Range(pending') : cache[a] # a
      BY <1>t, <2>0, <2>1, <2>2, <2>4, <3>2
    <3>4. CASE pc' = "scan"
      BY <1>s, <1>o, <2>0, <2>1, <3>1, <3>2, <3>3, <3>4
         DEF Sliced, Begun, Cut, Filling, Flushed, Whole, Cleared
    <3>5. CASE pc' # "scan"
      <4>1. pc' = "lookup" /\ Len(pending') >= WindowSize
        BY <1>t, <3>1, <3>5
      <4>2. Len(window') = 0
        BY <1>t, <2>1, <2>2, <3>2, <3>3, <4>1
      <4>3. window' = <<>> /\ Range(window') = {}
        BY <2>1, <4>2, EmptySeq, EmptyOrder
      <4>4. Range(pending') = Unanswered
        BY <1>t, <3>3, <4>3 DEF Unanswered
      <4> QED
        BY <1>u, <1>o, <2>0, <3>1, <3>2, <3>3, <4>1, <4>3, <4>4
           DEF Sliced, Begun, Cut, Filling, Flushed, Whole, Cleared
    <3> QED
      BY <3>4, <3>5
  <2> QED
    BY <2>3, <2>4
<1>4. CASE FlushLast
  <2>0. /\ window = <<>> /\ UNCHANGED <<present, processed, cache, jobs, todo, window, pending>>
        /\ UNCHANGED <<answered, failed>>
        /\ Increasing(todo) /\ Range(todo) = Left \ Slice
        /\ Slice = Range(window) \cup Range(pending) \cup answered \cup failed
        /\ Increasing(pending) /\ \A a \in Range(pending) : cache[a] # a
    BY <1>4 DEF FlushLast, persistent, inFlight, Sliced, Cut, Filling
  <2>1. CASE pending = <<>>
    BY <1>4, <1>u, <1>o, <2>0, <2>1
       DEF FlushLast, Sliced, Begun, Cut, Filling, Flushed, Whole, Cleared
  <2>2. CASE pending # <<>>
    <3>1. failed = {} /\ pc' = "lookup"
      BY <1>4, <2>2 DEF FlushLast, Sliced, Filling
    <3>2. Range(pending) = Unanswered
      BY <1>t, <2>0, <3>1, EmptyOrder DEF Unanswered
    <3> QED
      BY <1>u, <1>o, <2>0, <2>2, <3>1, <3>2
         DEF Sliced, Begun, Cut, Filling, Flushed, Whole, Cleared
  <2> QED
    BY <2>1, <2>2
<1>5. CASE PublishWindow
  <2>1. CASE UNCHANGED processed /\ pc' = "idle"
    BY <1>5, <1>e, <2>1 DEF PublishWindow
  <2>2. CASE ~(UNCHANGED processed /\ pc' = "idle")
    <3>1. /\ failed = {} /\ processed' = processed \cup answered /\ pc' = "window"
          /\ UNCHANGED <<present, cache, jobs, todo>>
      BY <1>5, <2>2 DEF PublishWindow, SamePartitions
    <3>2. /\ window = <<>> /\ pending = <<>> /\ Increasing(todo) /\ Range(todo) = Left \ Slice
          /\ Slice = Range(window) \cup Range(pending) \cup answered \cup failed
      BY <1>5 DEF PublishWindow, Sliced, Cut, Flushed, Tracked, AtNone
    <3>3. Slice = answered
      BY <3>1, <3>2, EmptyOrder
    <3>4. Left' = Range(todo)
      BY <3>1, <3>2, <3>3 DEF Left
    <3>5. todo' = Listing(Left')
      <4>1. /\ Listing(Left') \in Seq(Docs) /\ Increasing(Listing(Left'))
            /\ Range(Listing(Left')) = Left'
        <5>1. Left' \in SUBSET Docs
          BY <1>t, <3>2, <3>4
        <5> QED
          BY <5>1, ListingProperties
      <4> QED
        BY <1>t, <3>1, <3>2, <3>4, <4>1, OneListing
    <3>6. jobs = {}
      <4>1. SUFFICES ASSUME NEW r \in jobs PROVE FALSE
        OBVIOUS
      <4>2. Unanswered = {}
        BY <1>t, <3>3 DEF Unanswered
      <4>3. r.key \in Seq(Docs) /\ Range(r.key) = {} /\ r.key # <<>>
        BY <4>2 DEF TypeOK, Record, Sliced, OfSlice
      <4> QED
        BY <4>3, NoneLonger
    <3> QED
      BY <3>1, <3>5, <3>6 DEF Sliced, Begun, Cut, Filling, Flushed, Whole, Cleared, OfSlice
  <2> QED
    BY <2>1, <2>2
<1>6. CASE Lookup
  BY <1>6, <1>k DEF Lookup, persistent
<1>7. CASE Submit
  BY <1>7, <1>k DEF Submit, persistent
<1>8. CASE Persist
  <2>1. PICK old \in SUBSET {r \in jobs : provider[r.id].status = "gone"} :
          jobs' = ((jobs \ old) \ Recorded) \cup {[key |-> JobKey(pending), id |-> job]}
    BY <1>8 DEF Persist
  <2>2. /\ UNCHANGED <<present, processed, cache, todo, window, pending, answered, failed>>
        /\ pc = "persist" /\ pc' = "poll"
    BY <1>8 DEF Persist, inFlight
  <2>3. Increasing(pending) /\ Range(pending) = Unanswered /\ pending # <<>>
    BY <2>2 DEF Sliced, Whole
  <2>4. ASSUME NEW r \in jobs'
        PROVE  Increasing(r.key) /\ Range(r.key) = Unanswered /\ r.key # <<>>
    <3>1. CASE r \in jobs
      BY <3>1 DEF Sliced, OfSlice
    <3>2. CASE r = [key |-> JobKey(pending), id |-> job]
      BY <2>3, <3>2 DEF JobKey
    <3> QED
      BY <2>1, <2>4, <3>1, <3>2
  <2>5. OfSlice'
    BY <1>u, <2>2, <2>4 DEF OfSlice
  <2> QED
    BY <1>u, <2>2, <2>5 DEF Sliced, Begun, Cut, Filling, Flushed, Whole, Cleared
<1>9. CASE Poll
  BY <1>9, <1>k DEF Poll, persistent, inFlight
<1>10. CASE Timeout
  BY <1>10, <1>k DEF Timeout, persistent, inFlight
<1>11. CASE Cancelled
  BY <1>11, <1>e DEF Cancelled, RunEnds
<1>12. CASE Fetch
  <2>1. CASE RunEnds
    BY <1>12, <1>e, <2>1 DEF Fetch, RunEnds, persistent
  <2>2. CASE ~RunEnds
    BY <1>12, <1>k, <2>2 DEF Fetch, persistent
  <2> QED
    BY <2>1, <2>2
<1>13. CASE Clear
  <2>1. jobs = Recorded
    BY <1>13, SameKey DEF Clear
  <2>2. jobs' = {}
    BY <1>13, <2>1 DEF Clear
  <2> QED
    BY <1>13, <1>u, <2>2
       DEF Clear, inFlight, Sliced, Begun, Cut, Filling, Flushed, Whole, Cleared, OfSlice
<1>14. CASE StoreItem
  <2> DEFINE d == Head(pending)
  <2>0. /\ pending # <<>> /\ Increasing(pending) /\ jobs = {} /\ window = <<>>
        /\ pending' = Tail(pending) /\ UNCHANGED <<present, processed, jobs, todo, window, pc>>
        /\ pc = "store"
        /\ Increasing(todo) /\ Range(todo) = Left \ Slice
        /\ Slice = Range(window) \cup Range(pending) \cup answered \cup failed
    BY <1>14 DEF StoreItem, Sliced, Cut, Flushed, Cleared
  <2>1. answered' \cup failed' = answered \cup failed \cup {d}
    BY <1>14 DEF StoreItem
  <2>2. Increasing(pending') /\ Range(pending) = {d} \cup Range(pending')
    BY <1>t, <2>0, HeadOrder
  <2>3. Slice = Range(window) \cup Range(pending') \cup answered' \cup failed'
    BY <2>0, <2>1, <2>2
  <2> QED
    BY <1>s, <2>0, <2>2, <2>3
       DEF Sliced, Begun, Cut, Filling, Flushed, Whole, Cleared, OfSlice
<1>15. CASE PartitionDone
  <2>0. /\ pending = <<>> /\ window = <<>> /\ pc = "store" /\ pc' = "scan" /\ jobs = {}
        /\ UNCHANGED <<present, processed, cache, jobs, todo, window, pending, answered, failed>>
    BY <1>15 DEF PartitionDone, persistent, Sliced, Flushed, Cleared
  <2> QED
    BY <1>t, <1>u, <1>o, <2>0, EmptyOrder
       DEF Sliced, Begun, Cut, Filling, Flushed, Whole, Cleared
<1>16. CASE Interrupt
  BY <1>16, <1>e DEF Interrupt, RunEnds, persistent
<1>17. CASE Arrive
  BY <1>17 DEF Arrive, SamePartitions
<1>18. ASSUME NEW id \in DOMAIN provider, Complete(id) \/ Expire(id) PROVE Sliced'
  BY <1>18, <1>k DEF Complete, Expire, persistent, inFlight
<1>20. CASE UNCHANGED vars
  BY <1>20, <1>k DEF vars, persistent, inFlight
<1> QED
  BY <1>1, <1>2, <1>3, <1>4, <1>5, <1>6, <1>7, <1>8, <1>9, <1>10, <1>11, <1>12, <1>13, <1>14,
     <1>15, <1>16, <1>17, <1>18, <1>20 DEF Next, Run

-----------------------------------------------------------------------------
(* What was paid for.                                                      *)

\* A run can reach the answer of a job for a document; while answers are stored, the
\* job at hand counts for those that are left.
Reached(id, d) ==
  /\ id \in Ids
  /\ pc = "store" /\ id = job => \E i \in DOMAIN items : items[i] = d
Kept ==
  \A id \in Followed : \A d \in Docs : PaidBy(id, d) => cache[d] = d \/ Reached(id, d)

LEMMA KeptInit == Init => Kept
<1>1. ASSUME Init PROVE DOMAIN provider = {}
  BY <1>1 DEF Init
<1> QED
  BY <1>1 DEF Kept, Followed

LEMMA KeptStep ==
  ASSUME TypeOK, Aligned, Matched, JobsRecorded, Tracked, Expires => SamePartitions /\ Sliced,
         Kept, [Next]_vars
  PROVE  Kept'
<1>g. /\ \A id \in DOMAIN provider :
           /\ id \in DOMAIN provider' /\ provider'[id].docs = provider[id].docs
           /\ provider[id].status # "running" /\ provider'[id] # provider[id] =>
                Expires /\ pc = "idle" /\ provider'[id] = [provider[id] EXCEPT !.status = "gone"]
      /\ \A id \in DOMAIN provider' \ DOMAIN provider : Submit /\ id = job'
  BY ProviderGrows DEF Grows
<1>t. /\ \A id \in DOMAIN provider : provider[id] \in Job /\ id # None
      /\ \A id \in Ids : id = None \/ id \in DOMAIN provider
      /\ cache \in [Docs -> Docs \cup {None}]
      /\ pc \in Resting => job = None
      /\ \A d \in Docs : d # None
  <2>1. \A id \in DOMAIN provider : provider[id] \in Job /\ id # None
    BY JobFacts DEF None
  <2>2. pc \in Resting \cup AtJob \cup {"store"}
    BY DEF TypeOK, Points, Resting, AtJob
  <2>3. job = None \/ job \in DOMAIN provider
    BY <2>2 DEF Aligned, Tracked
  <2>4. \A d \in Docs : d # None
    BY DocsAssumption
  <2> QED
    BY <2>1, <2>3, <2>4 DEF Aligned, Tracked, Ids, TypeOK
<1>c. cache' \in [Docs -> Docs \cup {None}] /\ \A d \in Docs : cache[d] = d => cache'[d] = d
  <2>1. CASE StoreItem
    BY <1>t, <2>1, StoredItem DEF StoreItem
  <2>2. CASE UNCHANGED cache
    BY <1>t, <2>2
  <2>3. ASSUME NEW id, Complete(id) \/ Expire(id) PROVE UNCHANGED cache
    BY <2>3 DEF Complete, Expire, persistent
  <2> QED
    BY <2>1, <2>2, <2>3
       DEF Next, Run, vars, persistent, remote, inFlight, Begin, NextWindow, Scan, FlushLast,
           PublishWindow, Lookup, Submit, Persist, Poll, Timeout, Cancelled, Fetch, Clear,
           PartitionDone, Interrupt, Arrive
\* Jobs that are followed were before, or are submitted by the step.
<1>f. \A id \in Followed' : id \in Followed \/ (Submit /\ provider'[id].status = "running")
  <2>1. givenUp \subseteq givenUp'
    BY DEF Next, Run, vars, persistent, remote, inFlight, Begin, NextWindow, Scan, FlushLast,
           PublishWindow, Lookup, Submit, Persist, Poll, Timeout, Cancelled, Fetch, Clear,
           StoreItem, PartitionDone, Interrupt, Arrive, Complete, Expire
  <2>2. ASSUME Submit PROVE provider'[job'].status = "running"
    <3>1. provider \in Seq(Job) /\ Running(pending) \in Job
      BY DEF TypeOK, Running, Job
    <3>2. /\ provider'[Len(provider) + 1] = Running(pending)
          /\ Len(provider') = Len(provider) + 1
      BY <2>2, <3>1, AppendProperties DEF Submit
    <3> QED
      BY <2>2, <3>2 DEF Submit, Running
  <2> QED
    BY <1>g, <2>1, <2>2 DEF Followed
\* What a job that ended was paid for does not change.
<1>h. ASSUME NEW d \in Docs, NEW id \in DOMAIN provider, provider[id].status # "running",
             PaidBy(id, d)'
      PROVE  PaidBy(id, d)
  <2>1. provider[id] \in Job
    BY <1>t
  <2>2. CASE provider'[id] = provider[id]
    BY <1>h, <2>2 DEF PaidBy
  <2>3. CASE provider'[id] # provider[id]
    <3>1. provider'[id] = [provider[id] EXCEPT !.status = "gone"]
      BY <1>g, <1>h, <2>3
    <3> QED
      BY <1>h, <2>1, <3>1 DEF PaidBy, Job
  <2> QED
    BY <2>2, <2>3
\* So a step that ends no job keeps what every job was paid for and it does not lose.
<1>k. ASSUME \A id \in DOMAIN provider :
               provider[id].status = "running" => provider'[id].status = "running",
             \A d \in Docs, id \in Followed \cap Followed' :
               PaidBy(id, d) /\ Reached(id, d) => cache'[d] = d \/ Reached(id, d)'
      PROVE  Kept'
  <2>1. ASSUME NEW d \in Docs, NEW id \in Followed', PaidBy(id, d)', cache'[d] # d
        PROVE  Reached(id, d)'
    <3>1. provider'[id].status # "running" /\ id \in Followed
      BY <1>f, <2>1 DEF PaidBy
    <3>2. PaidBy(id, d)
      BY <1>h, <1>k, <2>1, <3>1 DEF Followed
    <3>3. Reached(id, d)
      BY <1>c, <2>1, <3>1, <3>2 DEF Kept
    <3> QED
      BY <1>k, <2>1, <3>1, <3>2, <3>3
  <2> QED
    BY <2>1 DEF Kept
<1>s. ASSUME UNCHANGED <<provider, jobs>> \/ Submit \/ (\E id \in DOMAIN provider : Expire(id)),
             UNCHANGED jobs, UNCHANGED job \/ job = None,
             \/ pc' # "store"
             \/ UNCHANGED <<pc, items>> /\ UNCHANGED job
      PROVE  Kept'
  <2>1. ASSUME NEW id \in DOMAIN provider, provider[id].status = "running"
        PROVE  provider'[id].status = "running"
    <3>1. CASE Submit
      <4>1. provider \in Seq(Job) /\ Running(pending) \in Job /\ id \in 1..Len(provider)
        BY JobFacts DEF TypeOK, Running, Job
      <4> QED
        BY <2>1, <3>1, <4>1, AppendProperties DEF Submit
    <3>2. ASSUME NEW a \in DOMAIN provider, Expire(a) PROVE provider'[id] = provider[id]
      BY <2>1, <3>2 DEF Expire
    <3> QED
      BY <1>s, <2>1, <3>1, <3>2
  <2>2. Ids \ {None} \subseteq Ids'
    BY <1>s DEF Ids
  <2>3. \A id \in Followed : id # None
    BY <1>t DEF Followed
  <2> QED
    BY <1>k, <1>s, <2>1, <2>2, <2>3 DEF Reached
\* A job that ends while a run waits for it, or nobody does, can be reached.
<1>e. ASSUME NEW id \in DOMAIN provider, NEW bad \in SUBSET Range(provider[id].docs),
             provider[id].status = "running", provider' = Ended(id, bad),
             UNCHANGED <<jobs, job, items, givenUp>>, pc' = pc \/ pc' # "store"
      PROVE  Kept'
  <2>1. /\ \A a \in DOMAIN provider : a # id => provider'[a] = provider[a]
        /\ DOMAIN provider' = DOMAIN provider /\ Ids' = Ids
    BY <1>e, EndedFacts DEF Ids
  <2>2. ASSUME NEW d \in Docs, NEW a \in Followed', PaidBy(a, d)', cache'[d] # d
        PROVE  Reached(a, d)'
    <3>0. a \in Followed
      BY <1>e, <2>1 DEF Followed
    <3>1. CASE a = id
      BY <1>e, <2>1, <3>0, <3>1 DEF Tracked, Reached
    <3>2. CASE a # id
      <4>1. PaidBy(a, d)
        BY <2>1, <2>2, <3>0, <3>2 DEF PaidBy, Followed
      <4> QED
        BY <1>c, <1>e, <2>1, <2>2, <3>0, <4>1 DEF Kept, Reached
    <3> QED
      BY <3>1, <3>2
  <2> QED
    BY <2>2 DEF Kept
<1> USE DEF Resting, AtJob, AtRecorded
<1>1. CASE Begin \/ NextWindow \/ Scan \/ FlushLast \/ PublishWindow \/ Lookup \/ Submit \/ Poll
  BY <1>1, <1>s, <1>t DEF Begin, NextWindow, Scan, FlushLast, PublishWindow, Lookup, Submit,
     Poll, persistent, remote, inFlight
<1>2. CASE Persist
  <2>1. PICK old \in SUBSET {r \in jobs : provider[r.id].status = "gone"} :
          jobs' = ((jobs \ old) \ Recorded) \cup {[key |-> JobKey(pending), id |-> job]}
    BY <1>2 DEF Persist
  <2>2. Recorded = {} /\ pc = "persist" /\ pc' = "poll" /\ UNCHANGED <<provider, job>>
    BY <1>2 DEF Persist, Tracked, remote, inFlight
  <2>3. old = {}
    <3>1. CASE Expires
      <4>1. jobs = {}
        BY <2>2, <3>1, SameKey DEF AtPartition
      <4> QED
        BY <4>1
    <3>2. CASE ~Expires
      BY <3>2 DEF Tracked, Aligned
    <3> QED
      BY <3>1, <3>2
  <2>4. Ids \subseteq Ids'
    BY <2>1, <2>2, <2>3 DEF Ids
  <2> QED
    BY <1>k, <2>2, <2>4 DEF Reached
<1>3. CASE Timeout
  <2>1. /\ job \in DOMAIN provider /\ provider[job].status = "running" /\ pc' = "cancel"
        /\ UNCHANGED <<jobs, job, items, givenUp>>
    BY <1>3 DEF Timeout, Aligned, persistent, inFlight
  <2>2. ASSUME NEW bad \in SUBSET Range(provider[job].docs), provider' = Ended(job, bad)
        PROVE  Kept'
    BY <1>e, <2>1, <2>2
  <2>3. CASE UNCHANGED provider
    BY <1>s, <2>1, <2>3
  <2> QED
    BY <1>3, <2>2, <2>3 DEF Timeout
<1>4. CASE Cancelled
  <2>1. ASSUME NEW d \in Docs, NEW id \in Followed', Reached(id, d) PROVE Reached(id, d)'
    <3>1. id # job /\ id \in Ids
      BY <1>4, <2>1 DEF Cancelled, Followed, Reached
    <3>2. PICK r \in jobs : r.id = id
      BY <3>1 DEF Ids
    <3>3. r \notin Recorded
      BY <1>4, <3>1, <3>2 DEF Cancelled, Tracked, Recorded, JobKey
    <3> QED
      BY <1>4, <3>2, <3>3 DEF Cancelled, RunEnds, Ids, Reached
  <2> QED
    BY <1>4, <1>k, <2>1 DEF Cancelled
\* The job of a run that ends here has a record.
<1>r. ASSUME RunEnds, UNCHANGED <<provider, jobs>>, pc \in Resting \cup AtRecorded PROVE Kept'
  <2>1. Ids \ {None} \subseteq Ids'
    BY <1>r, <1>t DEF Ids, Tracked
  <2>2. \A id \in Followed : id # None
    BY <1>t DEF Followed
  <2> QED
    BY <1>k, <1>r, <2>1, <2>2 DEF Reached, RunEnds
<1>5. CASE Fetch
  <2>1. CASE RunEnds
    BY <1>5, <1>r, <2>1 DEF Fetch, persistent, remote
  <2>2. CASE ~RunEnds
    BY <1>5, <1>s, <2>2 DEF Fetch, persistent, remote
  <2> QED
    BY <2>1, <2>2
<1>6. CASE Clear
  <2>1. ASSUME NEW d \in Docs, NEW id \in Followed, PaidBy(id, d), Reached(id, d)
        PROVE  id \in Ids' /\ (id = job' => \E i \in DOMAIN items' : items'[i] = d)
    <3>1. /\ pc = "clear" /\ jobs' = jobs \ Recorded /\ UNCHANGED <<job, items>>
      BY <1>6 DEF Clear, inFlight
    <3>2. CASE id = job
      <4>1. d \in Range(provider[job].docs) /\ d \notin provider[job].bad
        BY <2>1, <3>2 DEF PaidBy
      <4>2. provider[job].docs = pending /\ Len(items) = Len(pending)
        BY <3>1 DEF Aligned
      <4>3. DOMAIN items = DOMAIN pending
        BY <4>2, LenProperties DEF TypeOK
      <4>4. PICK i \in DOMAIN pending : pending[i] = d
        BY <4>1, <4>2 DEF Range
      <4>5. items[i] = d
        BY <3>1, <4>1, <4>2, <4>3, <4>4 DEF Tracked, AnswerOf
      <4> QED
        BY <3>1, <3>2, <4>3, <4>4, <4>5 DEF Ids
    <3>3. CASE id # job
      <4>1. PICK r \in jobs : r.id = id
        BY <2>1, <3>3 DEF Reached, Ids
      <4>2. r \notin Recorded
        BY <3>1, <3>3, <4>1 DEF Tracked, Recorded, JobKey
      <4> QED
        BY <3>1, <3>3, <4>1, <4>2 DEF Ids
    <3> QED
      BY <3>2, <3>3
  <2> QED
    BY <1>6, <1>k, <2>1 DEF Clear, remote, Reached
<1>7. CASE StoreItem
  <2>0. /\ UNCHANGED <<jobs, job, pc, provider>> /\ pc = "store" /\ items' = Tail(items)
    BY <1>7 DEF StoreItem, remote
  <2>1. ASSUME NEW d \in Docs, NEW i \in DOMAIN items, items[i] = d, cache'[d] # d
        PROVE  \E k \in DOMAIN items' : items'[k] = d
    <3>1. Head(items) = items[1] /\ Head(pending) \in Docs /\ Head(items) \in {None, Head(pending)}
      BY <1>7, StoredItem
    <3>2. i # 1
      <4>1. SUFFICES ASSUME i = 1 PROVE FALSE
        OBVIOUS
      <4>2. Head(items) = d /\ d # None /\ Head(pending) = d
        BY <1>t, <2>1, <3>1, <4>1
      <4>3. cache' = [cache EXCEPT ![d] = d]
        BY <1>7, <4>2 DEF StoreItem
      <4> QED
        BY <1>t, <2>1, <4>3
    <3>3. items \in Seq(Docs \cup {None}) /\ items # <<>>
      <4>1. items \in Seq(Docs \cup {None}) /\ DOMAIN items # {}
        BY <2>1 DEF TypeOK
      <4>2. DOMAIN items = 1..Len(items)
        BY <4>1, LenProperties
      <4> QED
        BY <4>1, <4>2, EmptySeq
    <3>4. /\ Tail(items) \in Seq(Docs \cup {None}) /\ Len(Tail(items)) = Len(items) - 1
          /\ \A k \in 1..Len(Tail(items)) : Tail(items)[k] = items[k + 1]
      BY <3>3, HeadTailProperties
    <3>5. /\ DOMAIN items = 1..Len(items) /\ Len(items) \in Nat
          /\ DOMAIN Tail(items) = 1..Len(Tail(items))
      BY <3>3, <3>4, LenProperties
    <3>6. i - 1 \in DOMAIN Tail(items) /\ Tail(items)[i - 1] = items[i]
      BY <2>1, <3>2, <3>4, <3>5
    <3> QED
      BY <2>0, <2>1, <3>6
  <2>2. Ids' = Ids
    BY <2>0 DEF Ids
  <2> QED
    BY <1>k, <2>0, <2>1, <2>2 DEF Reached
<1>8. CASE PartitionDone
  <2>0. /\ pc = "store" /\ pc' = "scan" /\ UNCHANGED <<provider, jobs>> /\ pending = <<>>
    BY <1>8 DEF PartitionDone, persistent, remote
  <2>1. DOMAIN items = {}
    <3>1. items \in Seq(Docs \cup {None}) /\ Len(items) = 0
      BY <2>0, EmptySeq DEF Aligned, TypeOK
    <3> QED
      BY <3>1, LenProperties
  <2>2. \A d \in Docs, id \in Followed : Reached(id, d) => id \in Ids'
    BY <2>0, <2>1 DEF Reached, Ids
  <2> QED
    BY <1>k, <2>0, <2>2 DEF Reached
<1>9. CASE Interrupt
  <2>1. pc \in Resting \cup AtRecorded
    BY <1>9 DEF Interrupt, JobsRecorded, TypeOK, Points
  <2> QED
    BY <1>9, <1>r, <2>1 DEF Interrupt, persistent, remote
<1>10. CASE Arrive \/ UNCHANGED vars
  BY <1>10, <1>s DEF Arrive, vars, persistent, remote, inFlight
<1>11. ASSUME NEW id \in DOMAIN provider, Expire(id) PROVE Kept'
  BY <1>11, <1>s DEF Expire, persistent, inFlight
<1>12. ASSUME NEW id \in DOMAIN provider, Complete(id) PROVE Kept'
  <2>1. PICK bad \in SUBSET Range(provider[id].docs) : provider' = Ended(id, bad)
    BY <1>12 DEF Complete
  <2> QED
    BY <1>12, <1>e, <2>1 DEF Complete, persistent, inFlight
<1> QED
  BY <1>1, <1>2, <1>3, <1>4, <1>5, <1>6, <1>7, <1>8, <1>9, <1>10, <1>11, <1>12 DEF Next, Run

\* One followed job runs at most, and no followed job was paid yet for its documents.
Once ==
  /\ \A a, b \in Followed : \A d \in Docs : PaidBy(a, d) /\ PaidBy(b, d) => a = b
  /\ \A a, b \in Followed :
       provider[a].status = "running" /\ provider[b].status = "running" => a = b
  /\ \A a, b \in Followed : provider[a].status = "running" =>
       \A d \in Docs \cap Range(provider[a].docs) : ~PaidBy(b, d)

LEMMA OnceInit == Init => Once
<1>1. ASSUME Init PROVE DOMAIN provider = {}
  BY <1>1 DEF Init
<1> QED
  BY <1>1 DEF Once, Followed

LEMMA OnceStep ==
  ASSUME TypeOK, Aligned, Tracked, Sliced, Kept, Once, [Next]_vars
  PROVE  Once'
<1>g. /\ \A id \in DOMAIN provider :
           /\ id \in DOMAIN provider'
           /\ provider'[id].docs = provider[id].docs
           /\ provider'[id].status = "running" => provider'[id] = provider[id]
      /\ \A id \in DOMAIN provider' \ DOMAIN provider : Submit /\ id = job'
  BY ProviderGrows DEF Grows
<1>1. CASE Submit
  <2>0. /\ pc = "submit" /\ UNCHANGED givenUp /\ job = None
        /\ provider' = Append(provider, Running(pending)) /\ job' = Len(provider')
    BY <1>1 DEF Submit, Tracked, Resting
  <2>1. Ids = {None}
    <3>1. jobs = {}
      BY <2>0, SameKey DEF AtPartition, AtJob, Tracked
    <3> QED
      BY <2>0, <3>1 DEF Ids
  <2>2. \A id \in Followed : provider[id].status # "running"
    BY <2>1, JobFacts DEF Tracked, Followed, None
  <2>3. provider'[job'] = Running(pending)
        /\ \A id \in DOMAIN provider : provider'[id] = provider[id]
    <3>1. provider \in Seq(Job) /\ Running(pending) \in Job
      BY DEF TypeOK, Running, Job
    <3> QED
      BY <2>0, <3>1, AppendProperties, JobFacts
  <2>4. Range(pending) = Unanswered
    BY <2>0 DEF AtPartition, AtJob, Sliced, Whole
  <2>5. ASSUME NEW d \in Range(pending), NEW id \in Followed, d \in Docs PROVE ~PaidBy(id, d)
    <3>1. cache[d] # d
      BY <2>4, <2>5 DEF Unanswered
    <3>2. id \notin Ids
      BY <2>1, JobFacts DEF Followed, None
    <3> QED
      BY <2>5, <3>1, <3>2 DEF Kept, Reached
  <2>6. \A id \in Followed' : id \in Followed \/ id = job'
    BY <1>g, <2>0 DEF Followed
  <2>7. ASSUME NEW id \in Followed', NEW d \in Docs, PaidBy(id, d)'
        PROVE  id \in Followed /\ PaidBy(id, d)
    <3>1. CASE id = job'
      BY <2>3, <2>7, <3>1 DEF PaidBy, Running
    <3>2. CASE id \in Followed
      BY <2>3, <2>7, <3>2 DEF PaidBy, Followed
    <3> QED
      BY <2>6, <3>1, <3>2
  <2>8. \A id \in Followed : provider'[id].status # "running"
    BY <2>2, <2>3 DEF Followed
  <2>9. provider'[job'].docs = pending
    BY <2>3 DEF Running
  <2>10. ASSUME NEW a \in Followed', NEW b \in Followed', provider'[a].status = "running",
                NEW d \in Docs \cap Range(provider'[a].docs)
         PROVE  ~PaidBy(b, d)'
    <3>1. a = job' /\ d \in Range(pending)
      BY <2>6, <2>8, <2>9, <2>10
    <3> QED
      BY <2>5, <2>7, <2>10, <3>1
  <2>11. \A a, b \in Followed' : \A d \in Docs : PaidBy(a, d)' /\ PaidBy(b, d)' => a = b
    BY <2>7 DEF Once
  <2>12. \A a, b \in Followed' :
          provider'[a].status = "running" /\ provider'[b].status = "running" => a = b
    BY <2>6, <2>8
  <2> QED
    BY <2>10, <2>11, <2>12 DEF Once
\* The followed job that ends is the only one that runs, and the only one that is
\* paid for what it answers.
<1>e. ASSUME NEW id \in DOMAIN provider, NEW bad \in SUBSET Range(provider[id].docs),
             provider[id].status = "running", provider' = Ended(id, bad), UNCHANGED givenUp
      PROVE  Once'
  <2>1. /\ \A a \in DOMAIN provider : a # id => provider'[a] = provider[a]
        /\ provider'[id].status = "done" /\ provider'[id].docs = provider[id].docs
        /\ Followed' = Followed
    BY <1>e, EndedFacts DEF Followed
  <2>2. \A a \in Followed, d \in Docs : a # id => (PaidBy(a, d)' <=> PaidBy(a, d))
    BY <2>1 DEF PaidBy, Followed
  <2>3. \A d \in Docs : PaidBy(id, d)' => d \in Range(provider[id].docs)
    BY <2>1 DEF PaidBy
  <2>4. \A a \in Followed : provider'[a].status = "running" =>
                             a # id /\ provider[a].status = "running" /\ provider'[a] = provider[a]
    BY <2>1 DEF Followed
  <2>5. ASSUME NEW a \in Followed, NEW b \in Followed, NEW d \in Docs,
               PaidBy(a, d)', PaidBy(b, d)'
        PROVE  a = b
    <3>1. CASE a # id /\ b # id
      BY <2>2, <2>5, <3>1 DEF Once
    <3>2. CASE a = id /\ b # id
      BY <1>e, <2>2, <2>3, <2>5, <3>2 DEF Once
    <3>3. CASE b = id /\ a # id
      BY <1>e, <2>2, <2>3, <2>5, <3>3 DEF Once
    <3> QED
      BY <3>1, <3>2, <3>3
  <2>6. ASSUME NEW a \in Followed, NEW b \in Followed, provider'[a].status = "running",
               NEW d \in Docs \cap Range(provider'[a].docs)
        PROVE  ~PaidBy(b, d)'
    <3>1. a # id /\ provider[a].status = "running" /\ provider'[a] = provider[a]
      BY <2>4, <2>6
    <3>2. b # id
      BY <1>e, <3>1, <2>6 DEF Once
    <3> QED
      BY <2>2, <2>6, <3>1, <3>2 DEF Once
  <2>7. \A a, b \in Followed :
          provider'[a].status = "running" /\ provider'[b].status = "running" => a = b
    BY <2>4 DEF Once
  <2> QED
    BY <2>1, <2>5, <2>6, <2>7 DEF Once
<1>2. ASSUME NEW id \in DOMAIN provider, Complete(id) PROVE Once'
  <2>1. PICK bad \in SUBSET Range(provider[id].docs) : provider' = Ended(id, bad)
    BY <1>2 DEF Complete
  <2> QED
    BY <1>2, <1>e, <2>1 DEF Complete
<1>3. CASE Timeout
  <2>1. job \in DOMAIN provider /\ provider[job].status = "running" /\ UNCHANGED givenUp
    BY <1>3 DEF Timeout, Aligned, AtJob
  <2>2. ASSUME NEW bad \in SUBSET Range(provider[job].docs), provider' = Ended(job, bad)
        PROVE  Once'
    BY <1>e, <2>1, <2>2
  <2>3. CASE UNCHANGED provider
    BY <2>1, <2>3 DEF Once, Followed, PaidBy
  <2> QED
    BY <1>3, <2>2, <2>3 DEF Timeout
\* A step that ends and submits no job, and gives up some, or none.
<1>k. ASSUME DOMAIN provider' = DOMAIN provider, givenUp \subseteq givenUp',
             \A a \in DOMAIN provider :
               /\ provider'[a].docs = provider[a].docs /\ provider'[a].bad = provider[a].bad
               /\ (provider'[a].status = "running") = (provider[a].status = "running")
      PROVE  Once'
  <2>1. Followed' \subseteq Followed /\ Followed \subseteq DOMAIN provider
    BY <1>k DEF Followed
  <2>2. ASSUME NEW a \in DOMAIN provider, NEW d \in Docs PROVE PaidBy(a, d)' => PaidBy(a, d)
    BY <1>k DEF PaidBy
  <2>3. \A a, b \in Followed' : \A d \in Docs : PaidBy(a, d)' /\ PaidBy(b, d)' => a = b
    BY <2>1, <2>2 DEF Once
  <2>4. \A a, b \in Followed' :
          provider'[a].status = "running" /\ provider'[b].status = "running" => a = b
    BY <1>k, <2>1 DEF Once
  <2>5. \A a, b \in Followed' : provider'[a].status = "running" =>
          \A d \in Docs \cap Range(provider'[a].docs) : ~PaidBy(b, d)'
    BY <1>k, <2>1, <2>2 DEF Once
  <2> QED
    BY <2>3, <2>4, <2>5 DEF Once
<1>4. ASSUME NEW id \in DOMAIN provider, Expire(id) PROVE Once'
  <2>1. \A a \in DOMAIN provider : provider[a] \in Job
    BY JobFacts
  <2>2. /\ provider' = [provider EXCEPT ![id].status = "gone"] /\ UNCHANGED givenUp
        /\ provider[id].status = "done"
    BY <1>4 DEF Expire
  <2> QED
    BY <1>k, <2>1, <2>2 DEF Job
<1>5. CASE UNCHANGED provider /\ givenUp \subseteq givenUp'
  BY <1>k, <1>5
<1> QED
  BY <1>1, <1>2, <1>3, <1>4, <1>5
     DEF Next, Run, vars, persistent, remote, inFlight, Begin, NextWindow, Scan, FlushLast,
         PublishWindow, Lookup, Persist, Poll, Cancelled, Fetch, Clear, StoreItem,
         PartitionDone, Interrupt, Arrive

\* What an environment is that the properties are about does not change.
LEMMA SameEnvironment ==
  ASSUME [Next]_vars
  PROVE  /\ JobsRecorded' <=> JobsRecorded
         /\ SamePartitions' <=> SamePartitions
         /\ Expires' <=> Expires
BY SameSetting DEF JobsRecorded, SamePartitions

\* What holds where jobs are recorded, where every run also cuts the same
\* partitions, and of what was paid for.
Accounted ==
  /\ JobsRecorded => Tracked
  /\ JobsRecorded /\ SamePartitions => Sliced /\ Once
  /\ JobsRecorded /\ (Expires => SamePartitions) => Kept

LEMMA AccountedStep ==
  ASSUME TypeOK, Aligned, Matched, Accounted, [Next]_vars
  PROVE  Accounted'
<1>1. JobsRecorded => Tracked'
  BY TrackedStep DEF Accounted
<1>2. JobsRecorded /\ SamePartitions => Sliced'
  BY SlicedStep DEF Accounted
<1>3. JobsRecorded /\ (Expires => SamePartitions) => Kept'
  BY KeptStep DEF Accounted
<1>4. JobsRecorded /\ SamePartitions => Once'
  BY OnceStep DEF Accounted
<1> QED
  BY <1>1, <1>2, <1>3, <1>4, SameEnvironment DEF Accounted

LEMMA PaidFor == Spec => [](TypeOK /\ Aligned /\ Matched /\ Accounted)
<1>1. Init => TypeOK /\ Aligned /\ Matched /\ Accounted
  BY TypeInit, AlignedInit, MatchedInit, TrackedInit, SlicedInit, KeptInit, OnceInit
     DEF Accounted
<1>2. TypeOK /\ Aligned /\ Matched /\ Accounted /\ [Next]_vars
      => (TypeOK /\ Aligned /\ Matched /\ Accounted)'
  BY TypeStep, AlignedStep, MatchedStep, AccountedStep
<1> QED
  BY <1>1, <1>2, PTL DEF Spec

\* An answer that was paid for is cached, or its job can still be found: the record
\* outlives the run until the answers are read, only jobs whose results are gone are
\* pruned, and only those given up at their deadline are left without one.
THEOREM PaidAnswersStay == Spec => []PaidAnswersKept
<1>1. Accounted => PaidAnswersKept
  BY DEF Accounted, Kept, Reached, Ids, PaidAnswersKept
<1> QED
  BY <1>1, PaidFor, PTL

\* "The submitted work is billed exactly once", but for jobs given up at their
\* deadline: a run that finds no record of its partition submits documents that no
\* other job is or will be paid for.
THEOREM WorkBilledOnce == Spec => []BilledOnce
<1>1. Accounted => BilledOnce
  BY DEF Accounted, Once, BilledOnce
<1> QED
  BY <1>1, PaidFor, PTL
=============================================================================
