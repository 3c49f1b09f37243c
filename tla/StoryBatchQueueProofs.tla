----------------------- MODULE StoryBatchQueueProofs -----------------------
(***************************************************************************)
(* Proofs about StoryBatchQueue for any items, manual runs and limits: a   *)
(* drain that starts several items at once stays within each of the three  *)
(* limits, and an item shown as running has a run that will still report.  *)
(***************************************************************************)
EXTENDS StoryBatchQueue, FiniteSetTheorems, TLAPS

Items == {"absent", "pending", "running", "completed", "failed", "cancelled"}
Runs == {"none", "running", "adopted", "paused", "failed", "ended", "deleted"}
State == [item : [Item -> Items], run : [Item \cup Manual -> Runs], retry : BOOLEAN]

(* Only finitely many runs were started by hand: what the cardinalities of *)
(* the budget need, Manual being any set.                                  *)
FewRuns(t) == IsFiniteSet({m \in Manual : t.run[m] = "running"})

BatchInv == RunningItemHasRun /\ FewRuns(Now)

(* What Drain counts, and what it starts. *)
Startable(t) == Pending(t) \ Unstartable
Before(t, i) == Cardinality({j \in Startable(t) : j < i})
Starts(t) ==
    {i \in Startable(t) : /\ CanStartNow(t, Before(t, i))
                          /\ MaxConcurrentRuns - Cardinality(ActiveRuns(t)) - Before(t, i) > 0}

USE BatchAssumption

LEMMA Drains ==
    ASSUME NEW t \in State
    PROVE  /\ Drain(t) \in State
           /\ \A i \in Item : /\ i \in Starts(t) => Drain(t).item[i] = "running"
                              /\ i \notin Starts(t) => Drain(t).item[i] \in {t.item[i], "failed"}
           /\ \A r \in Item \cup Manual :
                  Drain(t).run[r] = IF r \in Starts(t) THEN "running" ELSE t.run[r]
  <1>1. DOMAIN t.run = Item \cup Manual /\ t.item \in [Item -> Items] /\ t.retry \in BOOLEAN
        /\ t.run \in [Item \cup Manual -> Runs]
    BY DEF State
  <1> DEFINE allowed == {i \in Pending(t) : CanStartNow(t, Before(t, i))}
             Budget(i) == MaxConcurrentRuns - Cardinality(ActiveRuns(t)) - Before(t, i)
             start == {i \in allowed \cap Startable(t) : Budget(i) > 0}
             fail == {i \in allowed \ Startable(t) : Budget(i) >= 0}
             refused == \E i \in allowed \cap Startable(t) : Budget(i) <= 0
             newItem == [i \in Item |-> IF i \in start THEN "running"
                                        ELSE IF i \in fail THEN "failed" ELSE t.item[i]]
             newRun == [r \in DOMAIN t.run |-> IF r \in start THEN "running" ELSE t.run[r]]
  <1>2. Drain(t) = [item |-> newItem, run |-> newRun, retry |-> t.retry \/ refused]
    BY Zenon DEF Drain, Startable, Before
  <1>3. start = Starts(t)
    BY DEF Starts, Startable
  <1> HIDE DEF start, fail, refused
  <1>4. newItem \in [Item -> Items] /\ newRun \in [Item \cup Manual -> Runs]
    BY <1>1 DEF Items, Runs
  <1>5. (t.retry \/ refused) \in BOOLEAN
    OBVIOUS
  <1>6. \A i \in Item : newItem[i] = IF i \in start THEN "running"
                                     ELSE IF i \in fail THEN "failed" ELSE t.item[i]
    OBVIOUS
  <1>7. \A r \in Item \cup Manual : newRun[r] = IF r \in start THEN "running" ELSE t.run[r]
    BY <1>1
  <1> HIDE DEF newItem, newRun
  <1>8. Drain(t) \in State
    BY <1>2, <1>4, <1>5 DEF State
  <1>9. Drain(t).item = newItem /\ Drain(t).run = newRun
    BY <1>2
  <1> QED
    BY <1>3, <1>6, <1>7, <1>8, <1>9

LEMMA ProperSubset ==
    ASSUME NEW X, IsFiniteSet(X), NEW Y \in SUBSET X, NEW x \in X, x \notin Y
    PROVE  Cardinality(Y) < Cardinality(X)
  <1>1. /\ IsFiniteSet(Y) /\ Cardinality(Y) <= Cardinality(X)
        /\ Cardinality(X) = Cardinality(Y) => X = Y
    BY FS_Subset
  <1> QED
    BY <1>1, FS_CardinalityType

(* Members of S that each have fewer than k members of P before them, k    *)
(* different numbers, are at most k.                                       *)
LEMMA EarlierOnes ==
    ASSUME NEW P \in SUBSET Item, NEW S \in SUBSET P, NEW k \in Nat,
           \A i \in S : Cardinality({j \in P : j < i}) < k
    PROVE  IsFiniteSet(S) /\ Cardinality(S) \in Nat /\ Cardinality(S) <= k
  <1> DEFINE Less(i) == {j \in P : j < i}
             f == [i \in S |-> Cardinality(Less(i)) + 1]
  <1>1. IsFiniteSet(Item) /\ IsFiniteSet(P) /\ IsFiniteSet(S)
    <2>1. IsFiniteSet(Item)
      BY FS_Interval DEF Item
    <2>2. IsFiniteSet(P)
      BY <2>1, FS_Subset
    <2> QED
      BY <2>1, <2>2, FS_Subset
  <1>2. ASSUME NEW i \in S
        PROVE  IsFiniteSet(Less(i)) /\ Cardinality(Less(i)) \in Nat
    <2>1. Less(i) \in SUBSET P
      OBVIOUS
    <2> HIDE DEF Less
    <2> QED
      BY <1>1, <2>1, FS_Subset, FS_CardinalityType
  <1>3. ASSUME NEW i \in S, NEW j \in S, i < j
        PROVE  Cardinality(Less(i)) < Cardinality(Less(j))
    <2>1. Less(i) \in SUBSET Less(j) /\ i \in Less(j) /\ i \notin Less(i)
      <3>1. \A l \in P : l \in Int
        BY DEF Item
      <3>2. i \in P /\ j \in P
        OBVIOUS
      <3> QED
        BY <1>3, <3>1, <3>2
    <2>2. IsFiniteSet(Less(j))
      BY <1>2
    <2> HIDE DEF Less
    <2> QED
      BY <2>1, <2>2, ProperSubset
  <1>4. f \in [S -> 1..k]
    <2> SUFFICES ASSUME NEW i \in S PROVE Cardinality(Less(i)) + 1 \in 1..k
      OBVIOUS
    <2>1. Cardinality(Less(i)) < k
      OBVIOUS
    <2> HIDE DEF Less
    <2> QED
      BY <1>2, <2>1
  <1>5. ASSUME NEW i \in S, NEW j \in S, f[i] = f[j] PROVE i = j
    <2>1. Cardinality(Less(i)) + 1 = Cardinality(Less(j)) + 1
      BY <1>5
    <2> HIDE DEF Less, f
    <2>2. i < j \/ j < i \/ i = j
      BY DEF Item
    <2> QED
      BY <1>2, <1>3, <2>1, <2>2
  <1>6. f \in Injection(S, 1..k)
    BY <1>4, <1>5 DEF Injection, IsInjective
  <1>7. IsFiniteSet(1..k) /\ Cardinality(1..k) = k
    BY FS_Interval
  <1> HIDE DEF f
  <1> QED
    BY <1>1, <1>6, <1>7, FS_Injection, FS_CardinalityType

(* The three limits hold of what a drain starts, several items at once:    *)
(* each was let through with those before it counted.                      *)
LEMMA StartsFit ==
    ASSUME NEW t \in State, FewRuns(t)
    PROVE  LET R == RunningItems(t)  A == ActiveRuns(t)  S == Starts(t)
           IN  /\ IsFiniteSet(R \cup S) /\ IsFiniteSet(A \cup S)
               /\ S # {} => /\ Cardinality(R \cup S) <= BatchMaxConcurrent
                            /\ Cardinality(A \cup S) <= MaxConcurrentRuns
               /\ S # {} /\ ManualRuns(t) # {} => R = {} /\ \A i, j \in S : i = j
  <1> DEFINE R == RunningItems(t)
             A == ActiveRuns(t)
             S == Starts(t)
             M == ManualRuns(t)
             P == Startable(t)
  <1>1. IsFiniteSet(Item)
    BY FS_Interval DEF Item
  <1>2. R \in SUBSET Item /\ P \in SUBSET Item /\ S \in SUBSET P
    BY DEF RunningItems, Startable, Pending, Starts
  <1>3. IsFiniteSet(R) /\ Cardinality(R) \in Nat
    BY <1>1, <1>2, FS_Subset, FS_CardinalityType
  <1>4. /\ IsFiniteSet(M) /\ Cardinality(M) \in Nat
        /\ IsFiniteSet(A) /\ Cardinality(A) \in Nat
    <2> DEFINE H == {m \in Manual : t.run[m] = "running"}
               D == {i \in Item : t.run[i] = "adopted"}
               U == {i \in Item : t.run[i] = "running"}
    <2>1. IsFiniteSet(H) /\ M = H \cup D /\ A = M \cup U
      BY DEF FewRuns, ManualRuns, ActiveRuns
    <2>2. D \in SUBSET Item /\ U \in SUBSET Item
      OBVIOUS
    <2> HIDE DEF H, D, U, M, A
    <2>3. IsFiniteSet(D) /\ IsFiniteSet(U)
      BY <1>1, <2>2, FS_Subset
    <2>4. IsFiniteSet(M)
      BY <2>1, <2>3, FS_Union
    <2>5. IsFiniteSet(A)
      BY <2>1, <2>3, <2>4, FS_Union
    <2> QED
      BY <2>4, <2>5, FS_CardinalityType
  <1>5. ASSUME NEW i \in S
        PROVE  /\ Before(t, i) \in Nat
               /\ Before(t, i) < BatchMaxConcurrent - Cardinality(R)
               /\ Before(t, i) < MaxConcurrentRuns - Cardinality(A)
               /\ Cardinality(M) > 0 => Cardinality(R) = 0 /\ Before(t, i) = 0
    <2>1. Before(t, i) \in Nat
      <3>1. {j \in P : j < i} \in SUBSET Item
        BY <1>2
      <3> QED
        BY <1>1, <3>1, FS_Subset, FS_CardinalityType DEF Before
    <2>2. /\ CanStartNow(t, Before(t, i))
          /\ MaxConcurrentRuns - Cardinality(A) - Before(t, i) > 0
      BY DEF Starts
    <2>3. /\ Cardinality(R) + Before(t, i) < BatchMaxConcurrent
          /\ Cardinality(M) > 0 => Cardinality(R) + Before(t, i) < 1
      BY <2>2 DEF CanStartNow
    <2> HIDE DEF R, A, S, M, P
    <2> QED
      BY <1>3, <1>4, <2>1, <2>2, <2>3
  <1>6. /\ \A i \in S : Cardinality({j \in P : j < i}) = Before(t, i)
        /\ IsFiniteSet(S) /\ Cardinality(S) \in Nat
    <2>1. S \in SUBSET Item
      BY <1>2
    <2> QED
      BY <1>1, <2>1, FS_Subset, FS_CardinalityType DEF Before
  <1> HIDE DEF R, A, S, M, P
  <1>7. ASSUME NEW X, IsFiniteSet(X), NEW b \in Nat, Cardinality(X) \in Nat, S # {},
               \A i \in S : Before(t, i) < b - Cardinality(X)
        PROVE  Cardinality(X \cup S) <= b
    <2>1. PICK i \in S : TRUE
      BY <1>7
    <2>2. b - Cardinality(X) \in Nat
      BY <1>5, <1>7, <2>1
    <2>3. Cardinality(S) <= b - Cardinality(X)
      BY <1>2, <1>6, <1>7, <2>2, EarlierOnes
    <2>4. Cardinality(X \cup S) = Cardinality(X) + Cardinality(S) - Cardinality(X \cap S)
      BY <1>6, <1>7, FS_Union
    <2>5. Cardinality(X \cap S) \in Nat
      <3>1. X \cap S \in SUBSET S
        OBVIOUS
      <3> QED
        BY <1>6, <3>1, FS_Subset, FS_CardinalityType
    <2> QED
      BY <1>6, <1>7, <2>3, <2>4, <2>5
  <1>8. S # {} => /\ Cardinality(R \cup S) <= BatchMaxConcurrent
                  /\ Cardinality(A \cup S) <= MaxConcurrentRuns
    BY <1>3, <1>4, <1>5, <1>7
  <1>9. ASSUME S # {}, M # {} PROVE R = {} /\ \A i, j \in S : i = j
    <2>1. Cardinality(M) > 0
      BY <1>4, <1>9, FS_EmptySet
    <2>2. PICK i \in S : TRUE
      BY <1>9
    <2>3. R = {}
      BY <1>3, <1>5, <2>1, <2>2, FS_EmptySet
    <2>4. \A j \in S : Cardinality({l \in P : l < j}) < 1
      BY <1>5, <1>6, <2>1
    <2>5. Cardinality(S) <= 1
      BY <1>2, <2>4, EarlierOnes
    <2>6. Cardinality(S) # 0
      BY <1>6, <1>9, FS_EmptySet
    <2>7. Cardinality(S) = 1
      BY <1>6, <2>5, <2>6
    <2>8. \E x : S = {x}
      BY <1>6, <2>7, FS_Singleton
    <2> QED
      BY <2>3, <2>8
  <1>10. IsFiniteSet(R \cup S) /\ IsFiniteSet(A \cup S)
    BY <1>3, <1>4, <1>6, FS_Union
  <1> QED
    BY <1>8, <1>9, <1>10 DEF R, A, S, M

-----------------------------------------------------------------------------
(* What one call of Become does, t being the state before its drain: the   *)
(* queue's invariant is kept and what was started is within the limits.    *)
Settled(t) == \A i \in RunningItems(t) : t.run[i] \in Live \cup {"deleted"}
Fits ==
    \A i \in Item : item[i] # "running" /\ item'[i] = "running" =>
        /\ Cardinality(RunningItems(Now)') <= BatchMaxConcurrent
        /\ Cardinality(ActiveRuns(Now)') <= MaxConcurrentRuns
        /\ ManualRuns(Now)' # {} => RunningItems(Now)' = {i}

LEMMA Becomes ==
    ASSUME NEW t \in State, NEW wake \in BOOLEAN, NEW failing \in SUBSET Item,
           BatchInv, Become(t, wake, failing),
           Settled(t), FewRuns(t),
           \A i \in failing : /\ t.item[i] # "running"
                              /\ wake => t.item[i] # "pending",
           \A i \in Item : item[i] # "running" => t.item[i] # "running"
    PROVE  BatchInv' /\ Fits
  <1> DEFINE d == IF wake THEN Drain(t) ELSE t
             S == IF wake THEN Starts(t) ELSE {}
  <1>1. /\ item' = d.item /\ retry' = d.retry
        /\ run' = [r \in DOMAIN run |-> IF r \in failing THEN "failed" ELSE d.run[r]]
    BY DEF Become
  <1>2. /\ item \in [Item -> Items] /\ run \in [Item \cup Manual -> Runs]
    BY DEF BatchInv, RunningItemHasRun, BatchTypeOK, Items, Runs
  <1>3. /\ d \in State /\ S \in SUBSET Item
        /\ \A i \in Item : /\ i \in S => d.item[i] = "running"
                           /\ i \notin S => d.item[i] \in {t.item[i], "failed"}
        /\ \A r \in Item \cup Manual : d.run[r] = IF r \in S THEN "running" ELSE t.run[r]
    <2>1. Starts(t) \in SUBSET Item
      BY DEF Starts, Startable, Pending
    <2>2. CASE wake
      BY <2>1, <2>2, Drains
    <2>3. CASE ~wake
      BY <2>3
    <2> QED
      BY <2>2, <2>3
  <1>4. \A i \in S : t.item[i] = "pending" /\ i \notin failing
    BY DEF Starts, Startable, Pending
  <1> HIDE DEF d
  <1>5. /\ item' \in [Item -> Items] /\ retry' \in BOOLEAN
        /\ run' \in [Item \cup Manual -> Runs]
        /\ \A r \in Item \cup Manual :
              run'[r] = IF r \in failing THEN "failed" ELSE IF r \in S THEN "running" ELSE t.run[r]
    BY <1>1, <1>2, <1>3 DEF State, Runs
  <1>6. \A i \in Item : item'[i] = "running" => i \in S \/ t.item[i] = "running"
    BY <1>1, <1>3
  <1>7. RunningItemHasRun'
    <2>1. ASSUME NEW i \in Item, item'[i] = "running" PROVE run'[i] \in Live \cup {"deleted"}
      <3>1. CASE i \in S
        BY <1>4, <1>5, <3>1 DEF Live
      <3>2. CASE i \notin S
        <4>1. t.item[i] = "running" /\ i \notin failing
          BY <1>6, <2>1, <3>2
        <4> QED
          BY <1>5, <3>2, <4>1 DEF Settled, RunningItems
      <3> QED
        BY <3>1, <3>2
    <2>2. BatchTypeOK'
      BY <1>5 DEF BatchTypeOK, Items, Runs
    <2> QED
      BY <2>1, <2>2 DEF RunningItemHasRun, RunningItems, Now
  <1>8. FewRuns(Now)'
    <2>1. {m \in Manual : run'[m] = "running"} \in SUBSET {m \in Manual : t.run[m] = "running"}
      BY <1>3, <1>5
    <2> QED
      BY <2>1, FS_Subset DEF FewRuns, Now
  <1>9. Fits
    <2> SUFFICES ASSUME NEW i \in Item, item[i] # "running", item'[i] = "running"
                 PROVE  /\ Cardinality(RunningItems(Now)') <= BatchMaxConcurrent
                        /\ Cardinality(ActiveRuns(Now)') <= MaxConcurrentRuns
                        /\ ManualRuns(Now)' # {} => RunningItems(Now)' = {i}
      BY DEF Fits
    <2>1. i \in S /\ S = Starts(t)
      BY <1>6
    <2>2. /\ RunningItems(Now)' \in SUBSET (RunningItems(t) \cup S)
          /\ i \in RunningItems(Now)'
      BY <1>6 DEF RunningItems, Now
    <2>3. ManualRuns(Now)' \in SUBSET ManualRuns(t)
      BY <1>3, <1>5 DEF ManualRuns, Now
    <2>4. ActiveRuns(Now)' \in SUBSET (ActiveRuns(t) \cup S)
      <3>1. \A l \in Item : run'[l] = "running" => l \in S \/ t.run[l] = "running"
        BY <1>5
      <3> QED
        BY <2>3, <3>1 DEF ActiveRuns, Now
    <2>5. /\ IsFiniteSet(RunningItems(t) \cup S) /\ IsFiniteSet(ActiveRuns(t) \cup S)
          /\ Cardinality(RunningItems(t) \cup S) <= BatchMaxConcurrent
          /\ Cardinality(ActiveRuns(t) \cup S) <= MaxConcurrentRuns
          /\ ManualRuns(t) # {} => RunningItems(t) = {} /\ \A l, m \in S : l = m
      BY <2>1, StartsFit
    <2> DEFINE R == RunningItems(Now)'
               A == ActiveRuns(Now)'
               R0 == RunningItems(t) \cup S
               A0 == ActiveRuns(t) \cup S
    <2>6. /\ R \in SUBSET R0 /\ A \in SUBSET A0 /\ IsFiniteSet(R0) /\ IsFiniteSet(A0)
          /\ Cardinality(R0) <= BatchMaxConcurrent /\ Cardinality(A0) <= MaxConcurrentRuns
      BY <2>2, <2>4, <2>5
    <2> HIDE DEF R, A, R0, A0
    <2>7. /\ IsFiniteSet(R) /\ Cardinality(R) <= Cardinality(R0)
          /\ IsFiniteSet(A) /\ Cardinality(A) <= Cardinality(A0)
      BY <2>6, FS_Subset
    <2>8. Cardinality(R) <= BatchMaxConcurrent /\ Cardinality(A) <= MaxConcurrentRuns
      BY <2>6, <2>7, FS_CardinalityType
    <2>9. ManualRuns(Now)' # {} => RunningItems(Now)' = {i}
      BY <2>1, <2>2, <2>3, <2>5
    <2> QED
      BY <2>8, <2>9 DEF R, A
  <1> QED
    BY <1>7, <1>8, <1>9 DEF BatchInv

(* What the invariant says of the present state, and of a step that leaves *)
(* the queue alone.                                                        *)
LEMMA Present ==
    ASSUME BatchInv
    PROVE  /\ Now \in State /\ Settled(Now) /\ FewRuns(Now)
           /\ item \in [Item -> Items] /\ run \in [Item \cup Manual -> Runs] /\ retry \in BOOLEAN
  BY DEF BatchInv, RunningItemHasRun, BatchTypeOK, State, Settled, Now, Items, Runs

LEMMA OnlyRuns ==
    ASSUME BatchInv, NEW r \in Item \cup Manual, NEW v \in Runs,
           run' = [run EXCEPT ![r] = v], UNCHANGED <<item, retry>>,
           r \in Item /\ item[r] = "running" => v \in Live \cup {"deleted"}
    PROVE  BatchInv' /\ Fits
  <1>1. run \in [Item \cup Manual -> Runs] /\ FewRuns(Now)
    BY Present
  <1>2. BatchTypeOK'
    BY DEF BatchInv, RunningItemHasRun, BatchTypeOK, Runs
  <1>3. \A i \in RunningItems(Now)' : run'[i] \in Live \cup {"deleted"}
    BY <1>1 DEF BatchInv, RunningItemHasRun, RunningItems, Now
  <1>4. FewRuns(Now)'
    <2> DEFINE H == {m \in Manual : run[m] = "running"}
               G == {m \in Manual : run'[m] = "running"}
    <2>1. IsFiniteSet(H) /\ G \in SUBSET (H \cup {r})
      BY <1>1 DEF FewRuns, Now
    <2> HIDE DEF H, G
    <2>2. IsFiniteSet(H \cup {r})
      BY <2>1, FS_AddElement
    <2>3. IsFiniteSet(G)
      BY <2>1, <2>2, FS_Subset
    <2> QED
      BY <2>3 DEF G, FewRuns, Now
  <1>5. Fits
    BY DEF Fits
  <1> QED
    BY <1>2, <1>3, <1>4, <1>5 DEF BatchInv, RunningItemHasRun

(* A terminal event of item i's run, its status set before (v = "ended")   *)
(* or after (the run in failing) the drain that the event starts.          *)
LEMMA RunTerminal ==
    ASSUME BatchInv, NEW i \in Item, NEW v \in {run[i], "ended"},
           NEW outcome \in {"completed", "failed"}, NEW failing \in SUBSET {i},
           OnRunTerminal([Now EXCEPT !.run[i] = v], i, outcome, failing)
    PROVE  BatchInv' /\ Fits
  <1> DEFINE t == [Now EXCEPT !.run[i] = v]
             u == [t EXCEPT !.item[i] = outcome]
  <1>1. /\ item \in [Item -> Items] /\ run \in [Item \cup Manual -> Runs] /\ retry \in BOOLEAN
        /\ Settled(Now) /\ FewRuns(Now)
    BY Present
  <1>2. /\ t = [item |-> item, run |-> [run EXCEPT ![i] = v], retry |-> retry]
        /\ u = [item |-> [item EXCEPT ![i] = outcome], run |-> [run EXCEPT ![i] = v],
                retry |-> retry]
    <2>1. t = [item |-> item, run |-> [run EXCEPT ![i] = v], retry |-> retry]
      BY DEF Now
    <2> HIDE DEF t
    <2> QED
      BY <2>1
  <1>3. t \in State /\ u \in State
    BY <1>1, <1>2 DEF State, Items, Runs
  <1>4. \A m \in Manual : t.run[m] = run[m] /\ u.run[m] = run[m]
    BY <1>1, <1>2
  <1>5. FewRuns(t) /\ FewRuns(u)
    BY <1>1, <1>4 DEF FewRuns, Now
  <1> HIDE DEF t, u
  <1>6. CASE item[i] = "running"
    <2>1. Become(u, TRUE, failing)
      BY <1>6 DEF OnRunTerminal, t, u
    <2>2. Settled(u)
      BY <1>1, <1>2 DEF Settled, RunningItems, Now
    <2>3. /\ \A j \in failing : u.item[j] # "running" /\ u.item[j] # "pending"
          /\ \A j \in Item : item[j] # "running" => u.item[j] # "running"
      BY <1>1, <1>2
    <2> QED
      BY <1>3, <1>5, <2>1, <2>2, <2>3, Becomes
  <1>7. CASE item[i] # "running"
    <2>1. Become(t, FALSE, failing)
      BY <1>7 DEF OnRunTerminal, t
    <2>2. Settled(t)
      BY <1>1, <1>2, <1>7 DEF Settled, RunningItems, Now
    <2>3. /\ \A j \in failing : t.item[j] # "running"
          /\ \A j \in Item : item[j] # "running" => t.item[j] # "running"
      BY <1>2, <1>7
    <2> QED
      BY <1>3, <1>5, <2>1, <2>2, <2>3, Becomes
  <1> QED
    BY <1>6, <1>7

(* A drain woken by something that moves items to v, none of them running. *)
LEMMA Woken ==
    ASSUME BatchInv, NEW S \in SUBSET Item, NEW v \in {"pending", "cancelled"},
           NEW b \in BOOLEAN,
           Become([item |-> [i \in Item |-> IF i \in S THEN v ELSE item[i]],
                   run |-> run, retry |-> b], TRUE, {})
    PROVE  BatchInv' /\ Fits
  <1> DEFINE newItem == [i \in Item |-> IF i \in S THEN v ELSE item[i]]
             t == [item |-> newItem, run |-> run, retry |-> b]
  <1>1. /\ item \in [Item -> Items] /\ run \in [Item \cup Manual -> Runs]
        /\ Settled(Now) /\ FewRuns(Now)
    BY Present
  <1>2. newItem \in [Item -> Items]
    BY <1>1 DEF Items
  <1>3. \A i \in Item : newItem[i] = "running" => item[i] = "running"
    OBVIOUS
  <1> HIDE DEF newItem
  <1>4. t \in State
    BY <1>1, <1>2 DEF State
  <1>5. FewRuns(t) /\ Settled(t)
    BY <1>1, <1>3 DEF FewRuns, Settled, RunningItems, Now
  <1>6. /\ \A i \in Item : item[i] # "running" => t.item[i] # "running"
        /\ \A i \in {} : t.item[i] # "running" /\ (TRUE => t.item[i] # "pending")
        /\ {} \in SUBSET Item
    BY <1>3
  <1>7. Become(t, TRUE, {})
    BY DEF newItem
  <1> HIDE DEF t
  <1> QED
    BY <1>4, <1>5, <1>6, <1>7, Becomes

-----------------------------------------------------------------------------
LEMMA BatchInit == Init => BatchInv
  <1> SUFFICES ASSUME Init PROVE BatchInv
    OBVIOUS
  <1>1. RunningItemHasRun
    BY DEF Init, RunningItemHasRun, BatchTypeOK, RunningItems, Now
  <1>2. {m \in Manual : run[m] = "running"} = {}
    BY DEF Init
  <1> QED
    BY <1>1, <1>2, FS_EmptySet DEF BatchInv, FewRuns, Now

LEMMA BatchNext ==
    ASSUME BatchInv, [Next]_vars
    PROVE  BatchInv' /\ Fits
  <1>0. /\ item \in [Item -> Items] /\ run \in [Item \cup Manual -> Runs] /\ retry \in BOOLEAN
        /\ Settled(Now)
    BY Present
  <1>1. ASSUME NEW n \in 1 .. NumItems, CreateBatch(n) PROVE BatchInv' /\ Fits
    <2> DEFINE old == {i \in Item : item[i] # "absent"}
               new == {i \in Item \ old : i <= Cardinality(old) + n}
               t == [item |-> [i \in Item |-> IF i \in new THEN "pending" ELSE item[i]],
                     run |-> run, retry |-> retry]
    <2>1. Become([Now EXCEPT !.item = [i \in Item |-> IF i \in new THEN "pending" ELSE item[i]]],
                 TRUE, {})
      BY <1>1 DEF CreateBatch
    <2>2. new \in SUBSET Item
      OBVIOUS
    <2> HIDE DEF new
    <2>3. [Now EXCEPT !.item = [i \in Item |-> IF i \in new THEN "pending" ELSE item[i]]] = t
      BY DEF Now
    <2>4. Become(t, TRUE, {})
      BY <2>1, <2>3
    <2> QED
      BY <1>0, <2>2, <2>4, Woken
  <1>2. ASSUME NEW S \in SUBSET Item, CancelBatchItems(S) PROVE BatchInv' /\ Fits
    <2> DEFINE t == [item |-> [i \in Item |-> IF i \in S THEN "cancelled" ELSE item[i]],
                     run |-> run, retry |-> retry]
    <2>1. [Now EXCEPT !.item = [i \in Item |-> IF i \in S THEN "cancelled" ELSE item[i]]] = t
      BY DEF Now
    <2>2. Become(t, TRUE, {})
      BY <1>2, <2>1 DEF CancelBatchItems
    <2> QED
      BY <1>0, <2>2, Woken
  <1>3. CASE RetryFires
    <2> DEFINE same == [i \in Item |-> IF i \in {} THEN "pending" ELSE item[i]]
    <2>1. item = same
      <3>1. \A i \in Item : same[i] = item[i]
        OBVIOUS
      <3> QED
        BY <1>0, <3>1
    <2>2. [Now EXCEPT !.retry = FALSE] = [item |-> item, run |-> run, retry |-> FALSE]
      <3>1. \A b : [Now EXCEPT !.retry = b] = [item |-> item, run |-> run, retry |-> b]
        BY DEF Now
      <3> QED
        BY <3>1, Zenon
    <2>3. Become([item |-> item, run |-> run, retry |-> FALSE], TRUE, {})
      BY <1>3, <2>2 DEF RetryFires
    <2> HIDE DEF same
    <2>4. Become([item |-> same, run |-> run, retry |-> FALSE], TRUE, {})
      BY <2>1, <2>3
    <2> QED
      BY <2>4, Woken DEF same
  <1>4. ASSUME NEW i \in Item, RunEnds(i) \/ BatchRunCancelled(i) PROVE BatchInv' /\ Fits
    <2>1. CASE BatchRunCompletes(i)
      BY <2>1, RunTerminal DEF BatchRunCompletes
    <2>2. CASE BatchRunCancelled(i)
      BY <2>2, RunTerminal DEF BatchRunCancelled
    <2>3. CASE BatchRunFails(i)
      <3>1. [Now EXCEPT !.run[i] = run[i]] = Now
        BY <1>0 DEF Now
      <3>2. OnRunTerminal([Now EXCEPT !.run[i] = run[i]], i, "failed", {i})
        BY <2>3, <3>1 DEF BatchRunFails
      <3> QED
        BY <3>2, RunTerminal
    <2> QED
      BY <1>4, <2>1, <2>2, <2>3 DEF RunEnds
  <1>5. ASSUME NEW i \in Item, BatchRunPaused(i) \/ BatchRunResumed(i) \/ BatchRunDeleted(i)
        PROVE  BatchInv' /\ Fits
    <2>1. /\ \E v \in {"paused", "adopted", "deleted"} : run' = [run EXCEPT ![i] = v]
          /\ UNCHANGED <<item, retry>>
      BY <1>5 DEF BatchRunPaused, BatchRunResumed, BatchRunDeleted
    <2> QED
      BY <2>1, OnlyRuns DEF Live, Runs
  <1>6. ASSUME NEW m \in Manual,
               ManualStarts(m) \/ ManualPauses(m) \/ ManualConfirmed(m) \/ ManualEnds(m)
        PROVE  BatchInv' /\ Fits
    <2>1. /\ \E v \in {"running", "paused", "ended"} : run' = [run EXCEPT ![m] = v]
          /\ UNCHANGED <<item, retry>>
      BY <1>6 DEF ManualStarts, ManualTurns, ManualPauses, ManualConfirmed, ManualEnds
    <2>2. m \notin Item
      OBVIOUS
    <2> QED
      BY <2>1, <2>2, OnlyRuns DEF Runs
  <1>7. CASE UNCHANGED vars
    <2>1. item' = item /\ run' = run /\ retry' = retry
      BY <1>7 DEF vars
    <2> QED
      BY <2>1 DEF BatchInv, RunningItemHasRun, BatchTypeOK, RunningItems, FewRuns, Now, Fits
  <1> QED
    BY <1>1, <1>2, <1>3, <1>4, <1>5, <1>6, <1>7 DEF Next

(* An item shown as running has a run that is live, so that its terminal   *)
(* event will free the item's place, or one the user paused and deleted:   *)
(* no event, cancel or retry, whatever drain it wakes and however late the *)
(* engine finalizes the run, leaves an item waiting for a run that ended.  *)
THEOREM BatchItemsReport == BatchSpec => []RunningItemHasRun
  <1>1. BatchInv => RunningItemHasRun
    BY DEF BatchInv
  <1> QED
    BY <1>1, BatchInit, BatchNext, PTL DEF BatchSpec

(* Every step that starts items, however many at once, leaves the running  *)
(* items within the batch's limit and the active runs within the engine's  *)
(* budget, and starts one at most, alone, beside manual work.              *)
THEOREM BatchStartsFit == BatchSpec => StartsWithinLimits
  <1>1. Fits => \A i \in Item : item[i] # "running" /\ item'[i] = "running" =>
          /\ Cardinality(RunningItems(Now)') <= BatchMaxConcurrent
          /\ Cardinality(ActiveRuns(Now)') <= MaxConcurrentRuns
          /\ ManualRuns(Now)' # {} => RunningItems(Now)' = {i}
    BY DEF Fits
  <1>2. BatchInv /\ [Next]_vars =>
          [\A i \in Item : item[i] # "running" /\ item'[i] = "running" =>
             /\ Cardinality(RunningItems(Now)') <= BatchMaxConcurrent
             /\ Cardinality(ActiveRuns(Now)') <= MaxConcurrentRuns
             /\ ManualRuns(Now)' # {} => RunningItems(Now)' = {i}]_vars
    BY <1>1, BatchNext
  <1> QED
    BY <1>2, BatchInit, BatchNext, PTL DEF BatchSpec, StartsWithinLimits
=============================================================================
