------------------------ MODULE BatchManagerProofs ------------------------
(***************************************************************************)
(* Proofs about BatchManager for any batches, executions and targets: the  *)
(* counters of an execution are cardinalities of what became of its        *)
(* targets, so 'batch-complete' means that every target has its end.       *)
(***************************************************************************)
EXTENDS BatchManager, FiniteSetTheorems, TLAPS

Final == Results \cup {"refused"}

(* The targets before n, which the loop of the run awaits, with an end in  *)
(* V; the end of the awaited one is early and not counted yet.             *)
Ends(tk, n, V) == {t \in 1 .. n - 1 : tk[t] \in V}

(* How far the loop is: the targets after n were not offered yet, those    *)
(* before it were refused or are known.                                    *)
Started(b, tk, n, k) ==
    /\ n \in 1 .. Total[b] + 1 /\ tk \in [AnyTarget -> TaskState]
    /\ \A t \in AnyTarget : tk[t] = "none" <=> t > n \/ t > Total[b]
    /\ n <= Total[b] => tk[n] # "refused"
    /\ k = {t \in 1 .. n - 1 : tk[t] # "refused"}

(* What an execution that still listens has heard. *)
Tally(b, tk, n, e, s, c) ==
    /\ e = {t \in {n} : t <= Total[b] /\ tk[t] \in Results}
    /\ s = Ends(tk, n, Results)
    /\ c = [completed |-> Cardinality(Ends(tk, n, Final)),
            failed |-> Cardinality(Ends(tk, n, {"failed", "refused"}))]

NotStarted(r) ==
    /\ r \notin emitted /\ r \notin dead /\ \A t \in AnyTarget : task[r][t] = "none"
    /\ known[r] = {} /\ early[r] = {} /\ settled[r] = {}

Running(r) ==
    LET b == of[r]
    IN  /\ Started(b, task[r], next[r], known[r])
        /\ early[r] \subseteq {next[r]} /\ settled[r] \subseteq known[r]
        /\ r \notin dead => /\ Tally(b, task[r], next[r], early[r], settled[r], count[r])
                            /\ r \in emitted <=> count[r].completed >= Total[b]
        /\ r \in emitted => \A t \in Targets(b) : task[r][t] \in Final
        /\ job[b].status # "none"

Jobs == [status : {"none", "pending", "running", "done", "scheduled", "cancelled", "deleted"},
         completed : Nat, failed : Nat]

Shape ==
    /\ job \in [Batch -> Jobs] /\ of \in [Run -> Batch \cup {None}] /\ next \in [Run -> Nat]
    /\ task \in [Run -> [AnyTarget -> TaskState]]
    /\ known \in [Run -> SUBSET Nat] /\ early \in [Run -> SUBSET Nat]
    /\ settled \in [Run -> SUBSET Nat]
    /\ count \in [Run -> [completed : Nat, failed : Nat]]
    /\ emitted \subseteq Run /\ dead \subseteq Run
    /\ schedules \in Nat

RunOK(r) == (of[r] = None /\ NotStarted(r)) \/ (of[r] \in Batch /\ Running(r))

BatchInv == Shape /\ RowIsCount /\ \A r \in Run : RunOK(r)

USE BatchAssumption

-----------------------------------------------------------------------------
(* The sets that are counted. *)
LEMMA EndsFinite ==
    ASSUME NEW tk, NEW n \in Nat, NEW V
    PROVE  /\ IsFiniteSet(Ends(tk, n, V)) /\ Cardinality(Ends(tk, n, V)) \in Nat
           /\ Ends(tk, n, V) \subseteq 1 .. n - 1
<1>1. IsFiniteSet(1 .. n - 1)
  BY FS_Interval
<1>2. Ends(tk, n, V) \in SUBSET (1 .. n - 1)
  BY DEF Ends
<1> QED BY <1>1, <1>2, FS_Subset, FS_CardinalityType

LEMMA TargetsAreTargets ==
    ASSUME NEW b \in Batch
    PROVE  /\ Total[b] \in Nat /\ Targets(b) = 1 .. Total[b]
           /\ \A t \in 1 .. Total[b] : t \in AnyTarget
  BY DEF Targets, AnyTarget

LEMMA AnyTargetIsNat == AnyTarget \subseteq Nat \ {0}
<1>1. \A b \in Batch : Targets(b) \subseteq Nat \ {0}
  BY DEF Targets
<1> QED BY <1>1 DEF AnyTarget

(* The loop passes from target n to target m, those between are refused.   *)
Passes(tk, n, tk2, m) ==
    /\ n \in Nat \ {0} /\ m \in Nat /\ n < m
    /\ \A i \in 1 .. n : tk2[i] = tk[i]
    /\ \A i \in n + 1 .. m - 1 : tk2[i] = "refused"

LEMMA LoopCounts ==
    ASSUME NEW tk, NEW tk2, NEW n, NEW m, Passes(tk, n, tk2, m), NEW V, "refused" \in V
    PROVE  Cardinality(Ends(tk2, m, V)) =
               Cardinality(Ends(tk, n, V)) + (IF tk[n] \in V THEN 1 ELSE 0) + (m - 1 - n)
<1> DEFINE S == Ends(tk, n, V)
           N == IF tk[n] \in V THEN {n} ELSE {}
           R == n + 1 .. m - 1
<1>1. Ends(tk2, m, V) = (S \cup N) \cup R
  BY DEF Ends, Passes
<1>2. IsFiniteSet(S) /\ Cardinality(S) \in Nat /\ n \notin S /\ (S \cup N) \cap R = {}
  BY EndsFinite DEF Ends, Passes
<1>3. IsFiniteSet(R) /\ Cardinality(R) = m - 1 - n
  BY FS_Interval DEF Passes
<1>4. IsFiniteSet(S \cup N) /\ Cardinality(S \cup N) = Cardinality(S) + (IF tk[n] \in V THEN 1 ELSE 0)
  <2> HIDE DEF S
  <2>1. CASE tk[n] \in V
    <3>1. N = {n}
      BY <2>1
    <3> HIDE DEF N
    <3> QED BY <1>2, <2>1, <3>1, FS_AddElement
  <2>2. CASE tk[n] \notin V
    <3>1. S \cup N = S
      BY <2>2
    <3> HIDE DEF N
    <3> QED BY <1>2, <2>2, <3>1
  <2> QED BY <2>1, <2>2
<1>5. Cardinality((S \cup N) \cup R) = Cardinality(S \cup N) + Cardinality(R)
  <2> DEFINE A == S \cup N
  <2> HIDE DEF A, R
  <2>1. Cardinality(A \cup R) = Cardinality(A) + Cardinality(R) - Cardinality(A \cap R)
    BY <1>3, <1>4, FS_Union DEF A
  <2>2. Cardinality(A \cap R) = 0 /\ Cardinality(A) \in Nat /\ Cardinality(R) \in Nat
    BY <1>2, <1>3, <1>4, FS_EmptySet, FS_CardinalityType DEF A
  <2> QED BY <2>1, <2>2 DEF A
<1> QED BY <1>1, <1>3, <1>4, <1>5

(* A target before n gets its end. *)
LEMMA EndCounts ==
    ASSUME NEW tk, NEW tk2, NEW n \in Nat, NEW t \in 1 .. n - 1, NEW V,
           tk[t] \notin V, \A i \in 1 .. n - 1 : i # t => tk2[i] = tk[i]
    PROVE  Cardinality(Ends(tk2, n, V)) =
               Cardinality(Ends(tk, n, V)) + (IF tk2[t] \in V THEN 1 ELSE 0)
<1>1. IsFiniteSet(Ends(tk, n, V)) /\ Cardinality(Ends(tk, n, V)) \in Nat
  BY EndsFinite
<1>2. t \notin Ends(tk, n, V)
  BY DEF Ends
<1>3. CASE tk2[t] \in V
  <2>1. Ends(tk2, n, V) = Ends(tk, n, V) \cup {t}
    BY <1>3 DEF Ends
  <2> QED BY <1>1, <1>2, <1>3, <2>1, FS_AddElement
<1>4. CASE tk2[t] \notin V
  <2>1. Ends(tk2, n, V) = Ends(tk, n, V)
    BY <1>4 DEF Ends
  <2> QED BY <1>1, <1>4, <2>1
<1> QED BY <1>3, <1>4

(* A run that has counted every target has an end for each. *)
LEMMA CompleteCounts ==
    ASSUME NEW b \in Batch, NEW tk, NEW n, NEW k, Started(b, tk, n, k),
           Cardinality(Ends(tk, n, Final)) >= Total[b]
    PROVE  \A t \in Targets(b) : tk[t] \in Final
<1> DEFINE S == Ends(tk, n, Final)
           T == 1 .. Total[b]
<1>1. IsFiniteSet(T) /\ Cardinality(T) = Total[b] /\ Total[b] \in Nat /\ T = Targets(b)
  BY TargetsAreTargets, FS_Interval
<1>2. S \in SUBSET T
  BY <1>1 DEF Started, Ends
<1>3. Cardinality(S) = Cardinality(T)
  <2> HIDE DEF S, T
  <2>1. Cardinality(S) <= Cardinality(T) /\ Cardinality(S) \in Nat
    BY <1>1, <1>2, FS_Subset, FS_CardinalityType
  <2> QED BY <1>1, <2>1 DEF S
<1>4. S = T
  <2> HIDE DEF S, T
  <2> QED BY <1>1, <1>2, <1>3, FS_Subset
<1> QED BY <1>1, <1>4 DEF Ends

-----------------------------------------------------------------------------
(* The loop goes on from the target n it was told the id of to target m.   *)
LEMMA OffersGo ==
    ASSUME NEW b \in Batch, NEW tk, NEW n, NEW k, Started(b, tk, n, k), n <= Total[b],
           NEW m \in n + 1 .. Total[b] + 1, NEW tk2,
           tk2 = [i \in AnyTarget |-> IF i \in n + 1 .. m - 1 THEN "refused"
                      ELSE IF i = m /\ i <= Total[b] THEN "queued" ELSE tk[i]],
           NEW e, NEW s, NEW c
    PROVE  /\ Started(b, tk2, m, k \cup {n})
           /\ Tally(b, tk, n, e, s, c) =>
                  IF n \in e
                  THEN Tally(b, tk2, m, e \ {n}, s \cup {n},
                             Plus(Plus(c, 1, Bad(tk[n])), m - (n + 1), m - (n + 1)))
                  ELSE Tally(b, tk2, m, e \ {n}, s, Plus(c, m - (n + 1), m - (n + 1)))
<1>1. Total[b] \in Nat /\ n \in 1 .. Total[b] /\ m \in Nat /\ (\A t \in 1 .. Total[b] : t \in AnyTarget)
  BY TargetsAreTargets DEF Started
<1>2. /\ \A i \in 1 .. n : tk2[i] = tk[i]
      /\ \A i \in n + 1 .. m - 1 : tk2[i] = "refused"
      /\ m <= Total[b] => tk2[m] = "queued"
      /\ \A i \in AnyTarget : i > m => tk2[i] = tk[i]
  BY <1>1
<1>3. tk2 \in [AnyTarget -> TaskState]
  BY DEF Started, TaskState
<1>4. Started(b, tk2, m, k \cup {n})
  <2>1. \A t \in AnyTarget : tk2[t] = "none" <=> t > m \/ t > Total[b]
    <3> SUFFICES ASSUME NEW t \in AnyTarget PROVE tk2[t] = "none" <=> t > m \/ t > Total[b]
      OBVIOUS
    <3>1. t \in Nat \ {0} /\ (tk[t] = "none" <=> t > n \/ t > Total[b])
      BY AnyTargetIsNat DEF Started
    <3> QED BY <1>1, <3>1
  <2>2. k \cup {n} = {t \in 1 .. m - 1 : tk2[t] # "refused"}
    <3>1. \A t \in 1 .. m - 1 : t \in 1 .. n - 1 \/ t = n \/ t \in n + 1 .. m - 1
      BY <1>1
    <3>2. tk[n] # "refused" /\ k = {t \in 1 .. n - 1 : tk[t] # "refused"}
      BY DEF Started
    <3> QED BY <1>1, <1>2, <3>1, <3>2
  <2> QED BY <1>1, <1>2, <1>3, <2>1, <2>2 DEF Started
<1>5. ASSUME Tally(b, tk, n, e, s, c)
      PROVE  IF n \in e
             THEN Tally(b, tk2, m, e \ {n}, s \cup {n},
                        Plus(Plus(c, 1, Bad(tk[n])), m - (n + 1), m - (n + 1)))
             ELSE Tally(b, tk2, m, e \ {n}, s, Plus(c, m - (n + 1), m - (n + 1)))
  <2> DEFINE V == {"failed", "refused"}
  <2>1. /\ n \in e <=> tk[n] \in Results
        /\ tk[n] # "refused" /\ e \ {n} = {}
    BY <1>1, <1>5 DEF Tally, Started
  <2>2. e \ {n} = {t \in {m} : t <= Total[b] /\ tk2[t] \in Results}
    BY <1>2, <2>1 DEF Results
  <2>3. Ends(tk2, m, Results) = IF n \in e THEN s \cup {n} ELSE s
    <3>1. s = {i \in 1 .. n - 1 : tk[i] \in Results}
      BY <1>5 DEF Tally, Ends
    <3>2. \A i \in 1 .. m - 1 : i \in 1 .. n - 1 \/ i = n \/ i \in n + 1 .. m - 1
      BY <1>1
    <3>3. "refused" \notin Results
      BY DEF Results
    <3>4. \A i \in 1 .. m - 1 : tk2[i] \in Results <=> i \in s \/ (i = n /\ n \in e)
      BY <1>1, <1>2, <2>1, <3>1, <3>2, <3>3
    <3>5. s \subseteq 1 .. m - 1 /\ n \in 1 .. m - 1
      BY <1>1, <3>1
    <3>6. CASE n \in e
      BY <3>4, <3>5, <3>6 DEF Ends
    <3>7. CASE n \notin e
      BY <3>4, <3>5, <3>7 DEF Ends
    <3> QED BY <3>6, <3>7
  <2>4. /\ Cardinality(Ends(tk2, m, Final)) =
               Cardinality(Ends(tk, n, Final)) + (IF tk[n] \in Final THEN 1 ELSE 0) + (m - 1 - n)
        /\ Cardinality(Ends(tk2, m, V)) =
               Cardinality(Ends(tk, n, V)) + (IF tk[n] \in V THEN 1 ELSE 0) + (m - 1 - n)
    <3>1. "refused" \in Final /\ "refused" \in V
      BY DEF Final
    <3>2. Passes(tk, n, tk2, m)
      BY <1>1, <1>2 DEF Passes
    <3> HIDE DEF V
    <3> QED BY <3>1, <3>2, LoopCounts
  <2>5. /\ c = [completed |-> Cardinality(Ends(tk, n, Final)), failed |-> Cardinality(Ends(tk, n, V))]
        /\ Cardinality(Ends(tk, n, Final)) \in Nat /\ Cardinality(Ends(tk, n, V)) \in Nat
    BY <1>1, <1>5, EndsFinite DEF Tally
  <2> DEFINE A == Cardinality(Ends(tk, n, Final))
             B == Cardinality(Ends(tk, n, V))
             c2 == IF n \in e THEN Plus(Plus(c, 1, Bad(tk[n])), m - (n + 1), m - (n + 1))
                   ELSE Plus(c, m - (n + 1), m - (n + 1))
  <2>6. c2 = [completed |-> Cardinality(Ends(tk2, m, Final)), failed |-> Cardinality(Ends(tk2, m, V))]
    <3> DEFINE A2 == Cardinality(Ends(tk2, m, Final))
               B2 == Cardinality(Ends(tk2, m, V))
    <3>1. /\ tk[n] \in Final <=> n \in e
          /\ tk[n] \in V <=> n \in e /\ tk[n] = "failed"
      BY <2>1 DEF Final, Results
    <3> HIDE DEF A, B, A2, B2
    <3>2. A \in Nat /\ B \in Nat /\ c.completed = A /\ c.failed = B /\ m \in Nat /\ n \in Nat
      BY <1>1, <2>5 DEF A, B
    <3>3. A2 = A + (IF n \in e THEN 1 ELSE 0) + (m - 1 - n)
      BY <2>4, <3>1 DEF A, A2
    <3>4. B2 = B + (IF n \in e /\ tk[n] = "failed" THEN 1 ELSE 0) + (m - 1 - n)
      BY <2>4, <3>1 DEF B, B2
    <3>5. c2 = [completed |-> A2, failed |-> B2]
      BY <3>2, <3>3, <3>4 DEF Plus, Bad
    <3> QED BY <3>5 DEF A2, B2
  <2> QED BY <2>2, <2>3, <2>6 DEF Tally
<1> QED BY <1>4, <1>5

(* The loop of a new execution, up to target m. *)
LEMMA FirstOffers ==
    ASSUME NEW b \in Batch, NEW m \in 1 .. Total[b] + 1, NEW tk,
           tk = [i \in AnyTarget |-> IF i < m THEN "refused"
                     ELSE IF i = m /\ i <= Total[b] THEN "queued" ELSE "none"]
    PROVE  Started(b, tk, m, {}) /\ Tally(b, tk, m, {}, {}, Plus(Zero, m - 1, m - 1))
<1>1. Total[b] \in Nat /\ m \in Nat \ {0} /\ (\A t \in 1 .. Total[b] : t \in AnyTarget)
  BY TargetsAreTargets
<1>2. \A t \in 1 .. m - 1 : tk[t] = "refused"
  BY <1>1
<1>3. Started(b, tk, m, {})
  <2>1. tk \in [AnyTarget -> TaskState]
    BY DEF TaskState
  <2>2. \A t \in AnyTarget : tk[t] = "none" <=> t > m \/ t > Total[b]
    BY <1>1, AnyTargetIsNat
  <2>3. m <= Total[b] => tk[m] # "refused"
    BY <1>1
  <2> QED BY <1>2, <2>1, <2>2, <2>3 DEF Started
<1>4. Ends(tk, m, Final) = 1 .. m - 1 /\ Ends(tk, m, {"failed", "refused"}) = 1 .. m - 1
  BY <1>2 DEF Ends, Final
<1>5. Cardinality(1 .. m - 1) = m - 1
  BY <1>1, FS_Interval
<1>6. Ends(tk, m, Results) = {} /\ {t \in {m} : t <= Total[b] /\ tk[t] \in Results} = {}
  BY <1>1, <1>2 DEF Ends, Results
<1>7. Plus(Zero, m - 1, m - 1) = [completed |-> m - 1, failed |-> m - 1]
  BY <1>1 DEF Plus, Zero
<1> QED BY <1>3, <1>4, <1>5, <1>6, <1>7 DEF Tally

(* A task of the run ends with result x. *)
Ended(tk, t, x) == [tk EXCEPT ![t] = x]

LEMMA TaskGoes ==
    ASSUME NEW b \in Batch, NEW tk, NEW n, NEW k, Started(b, tk, n, k),
           NEW t \in AnyTarget, tk[t] = "queued", NEW x \in Results \cup {"cancelled"},
           NEW tk2, tk2 = Ended(tk, t, x)
    PROVE  Started(b, tk2, n, k) /\ t <= Total[b] /\ (t \in k \/ t = n)
<1>1. /\ Total[b] \in Nat /\ n \in 1 .. Total[b] + 1 /\ t \in Nat \ {0}
      /\ t <= n /\ t <= Total[b] /\ (t \in k <=> t < n)
  BY TargetsAreTargets, AnyTargetIsNat DEF Started
<1>2. /\ tk2 \in [AnyTarget -> TaskState] /\ tk2[t] = x
      /\ \A i \in AnyTarget : i # t => tk2[i] = tk[i]
  BY DEF Ended, Started, TaskState, Results
<1>3. \A i \in 1 .. n - 1 : i \in AnyTarget
  BY <1>1, TargetsAreTargets
<1>4. Started(b, tk2, n, k)
  <2>1. x # "none" /\ x # "refused"
    BY DEF Results
  <2>2. \A i \in AnyTarget : tk2[i] = "none" <=> tk[i] = "none"
    BY <1>2, <2>1
  <2>3. \A i \in AnyTarget : tk2[i] = "refused" <=> tk[i] = "refused"
    BY <1>2, <2>1
  <2>4. n <= Total[b] => n \in AnyTarget
    BY <1>1, TargetsAreTargets
  <2> QED BY <1>1, <1>2, <1>3, <2>2, <2>3, <2>4 DEF Started
<1> QED BY <1>1, <1>4

(* ... and what the run has then heard. *)
LEMMA TaskTally ==
    ASSUME NEW b \in Batch, NEW tk, NEW n, NEW k, Started(b, tk, n, k),
           NEW t \in AnyTarget, tk[t] = "queued", NEW x \in Results \cup {"cancelled"},
           NEW tk2, tk2 = Ended(tk, t, x),
           NEW e, NEW s, NEW c, Tally(b, tk, n, e, s, c)
    PROVE  /\ x = "cancelled" => Tally(b, tk2, n, e, s, c)
           /\ x # "cancelled" /\ t \in k => Tally(b, tk2, n, e, s \cup {t}, Plus(c, 1, Bad(x)))
           /\ x # "cancelled" /\ t \notin k => Tally(b, tk2, n, e \cup {t}, s, c)
<1>1. /\ Total[b] \in Nat /\ n \in 1 .. Total[b] + 1 /\ t \in Nat \ {0}
      /\ t <= n /\ t <= Total[b] /\ (t \in k <=> t < n)
  BY TargetsAreTargets, AnyTargetIsNat DEF Started
<1>2. /\ tk2 \in [AnyTarget -> TaskState] /\ tk2[t] = x
      /\ \A i \in AnyTarget : i # t => tk2[i] = tk[i]
  BY DEF Ended, Started, TaskState, Results
<1>3. \A i \in 1 .. n - 1 : i \in AnyTarget
  BY <1>1, TargetsAreTargets
<1>4. IF x = "cancelled" THEN Tally(b, tk2, n, e, s, c)
      ELSE IF t \in k THEN Tally(b, tk2, n, e, s \cup {t}, Plus(c, 1, Bad(x)))
      ELSE Tally(b, tk2, n, e \cup {t}, s, c)
  <2> DEFINE V == {"failed", "refused"}
  <2>1. CASE t = n
    <3>1. t \notin k /\ \A i \in 1 .. n - 1 : tk2[i] = tk[i]
      BY <1>1, <1>2, <1>3, <2>1
    <3>2. Ends(tk2, n, Results) = Ends(tk, n, Results) /\ Ends(tk2, n, Final) = Ends(tk, n, Final)
          /\ Ends(tk2, n, V) = Ends(tk, n, V)
      BY <3>1 DEF Ends
    <3>3. e = {} /\ {i \in {n} : i <= Total[b] /\ tk2[i] \in Results} = IF x = "cancelled" THEN {} ELSE {t}
      <4>1. e = {} /\ tk2[n] = x /\ n <= Total[b]
        BY <1>1, <1>2, <2>1 DEF Tally, Results
      <4>2. x \in Results <=> x # "cancelled"
        BY DEF Results
      <4>3. CASE x = "cancelled"
        BY <4>1, <4>2, <4>3
      <4>4. CASE x # "cancelled"
        BY <2>1, <4>1, <4>2, <4>4
      <4> QED BY <4>1, <4>3, <4>4
    <3> QED BY <3>1, <3>2, <3>3 DEF Tally
  <2>2. CASE t < n
    <3>1. t \in k /\ t \in 1 .. n - 1 /\ \A i \in 1 .. n - 1 : i # t => tk2[i] = tk[i]
      BY <1>1, <1>2, <1>3, <2>2
    <3>2. n <= Total[b] => n \in AnyTarget /\ tk2[n] = tk[n]
      BY <1>1, <1>2, <2>2, TargetsAreTargets
    <3>3. e = {i \in {n} : i <= Total[b] /\ tk2[i] \in Results}
      BY <3>2 DEF Tally
    <3>4. Ends(tk2, n, Results) = IF x = "cancelled" THEN s ELSE s \cup {t}
      <4>1. s = {i \in 1 .. n - 1 : tk[i] \in Results}
        BY DEF Tally, Ends
      <4>2. x \in Results <=> x # "cancelled"
        BY DEF Results
      <4>3. tk[t] \notin Results
        BY DEF Results
      <4>4. CASE x = "cancelled"
        BY <1>2, <3>1, <4>1, <4>2, <4>3, <4>4 DEF Ends
      <4>5. CASE x # "cancelled"
        BY <1>2, <3>1, <4>1, <4>2, <4>5 DEF Ends
      <4> QED BY <4>4, <4>5
    <3>5. /\ Cardinality(Ends(tk2, n, Final)) =
                Cardinality(Ends(tk, n, Final)) + (IF x \in Final THEN 1 ELSE 0)
          /\ Cardinality(Ends(tk2, n, V)) =
                Cardinality(Ends(tk, n, V)) + (IF x \in V THEN 1 ELSE 0)
      <4>1. tk[t] \notin Final /\ tk[t] \notin V /\ n \in Nat /\ tk2[t] = x
        BY <1>1, <1>2 DEF Final, Results
      <4> HIDE DEF V
      <4>2. ASSUME NEW W, tk[t] \notin W
            PROVE  Cardinality(Ends(tk2, n, W)) =
                       Cardinality(Ends(tk, n, W)) + (IF tk2[t] \in W THEN 1 ELSE 0)
        BY ONLY <3>1, <4>1, <4>2, EndCounts
      <4> QED BY <4>1, <4>2
    <3>6. /\ c = [completed |-> Cardinality(Ends(tk, n, Final)), failed |-> Cardinality(Ends(tk, n, V))]
          /\ Cardinality(Ends(tk, n, Final)) \in Nat /\ Cardinality(Ends(tk, n, V)) \in Nat
      <4>1. n \in Nat
        BY <1>1
      <4>2. \A W : Cardinality(Ends(tk, n, W)) \in Nat
        BY <4>1, EndsFinite
      <4> QED BY <4>2 DEF Tally
    <3>7. (IF x = "cancelled" THEN c ELSE Plus(c, 1, Bad(x)))
             = [completed |-> Cardinality(Ends(tk2, n, Final)), failed |-> Cardinality(Ends(tk2, n, V))]
      <4>1. (x \in Final <=> x # "cancelled") /\ (x \in V <=> x = "failed")
        BY DEF Final, Results
      <4> QED BY <3>5, <3>6, <4>1 DEF Plus, Bad
    <3> QED BY <3>1, <3>3, <3>4, <3>7 DEF Tally
  <2> QED BY <1>1, <2>1, <2>2
<1> QED BY <1>4

(* What a tally counts; and its results are of tasks the run knows. *)
LEMMA TallyCounts ==
    ASSUME NEW b \in Batch, NEW tk, NEW n, NEW k, Started(b, tk, n, k),
           NEW e, NEW s, NEW c, Tally(b, tk, n, e, s, c)
    PROVE  /\ c \in [completed : Nat, failed : Nat]
           /\ c.completed = Cardinality(Ends(tk, n, Final))
           /\ n \in Nat /\ k \subseteq Nat /\ e \subseteq {n} /\ s \subseteq k
<1>1. n \in Nat
  BY TargetsAreTargets DEF Started
<1>2. \A V : Cardinality(Ends(tk, n, V)) \in Nat
  BY <1>1, EndsFinite
<1>3. k \subseteq Nat /\ e \subseteq {n} /\ s \subseteq k
  BY <1>1 DEF Started, Tally, Ends, Results
<1> QED BY <1>1, <1>2, <1>3 DEF Tally

-----------------------------------------------------------------------------
(* What becomes of the runs and rows a step is not about.                  *)
NoneStays == \A b \in Batch : job[b].status # "none" => job'[b].status # "none"

Untouched(q) ==
    /\ of'[q] = of[q] /\ next'[q] = next[q] /\ task'[q] = task[q] /\ known'[q] = known[q]
    /\ early'[q] = early[q] /\ settled'[q] = settled[q] /\ count'[q] = count[q]
    /\ q \in emitted' <=> q \in emitted

(* A restart may have cut a started run off. *)
LEMMA RunKeeps ==
    ASSUME NEW q \in Run, RunOK(q), Untouched(q), NoneStays,
           q \in dead => q \in dead', of[q] = None => (q \in dead' <=> q \in dead)
    PROVE  RunOK(q)'
<1>1. CASE of[q] = None /\ NotStarted(q)
  BY <1>1 DEF RunOK, NotStarted, Untouched
<1>2. CASE of[q] \in Batch /\ Running(q)
  <2> DEFINE b == of[q]
  <2>1. of'[q] = b /\ b \in Batch /\ job'[b].status # "none"
    BY <1>2 DEF Running, Untouched, NoneStays
  <2>2. Started(b, task'[q], next'[q], known'[q]) /\ early'[q] \subseteq {next'[q]} /\ settled'[q] \subseteq known'[q]
    BY <1>2 DEF Running, Untouched
  <2>3. q \notin dead' => /\ Tally(b, task'[q], next'[q], early'[q], settled'[q], count'[q])
                          /\ q \in emitted' <=> count'[q].completed >= Total[b]
    BY <1>2 DEF Running, Untouched
  <2>4. q \in emitted' => \A t \in Targets(b) : task'[q][t] \in Final
    BY <1>2 DEF Running, Untouched
  <2> HIDE DEF b
  <2> QED BY <2>1, <2>2, <2>3, <2>4 DEF RunOK, Running
<1> QED BY <1>1, <1>2 DEF RunOK

RowOK(r, b) ==
    /\ of[r] = b /\ \A q \in Run : of[q] = b => q = r
    /\ job[b].status \in {"running", "done"} /\ schedules = 0
    => job[b] = Row(IF r \in emitted THEN "done" ELSE "running", count[r])

(* A step of run r, or one that starts it, which writes no row but b's.    *)
LEMMA RowsKeep ==
    ASSUME RowIsCount, NEW r \in Run, NEW b \in Batch, of'[r] = b, of[r] \in {None, b},
           \A q \in Run \ {r} : Untouched(q), dead \subseteq dead',
           schedules' = schedules, \A d \in Batch \ {b} : job'[d] = job[d],
           r \notin dead' => RowOK(r, b)'
    PROVE  RowIsCount'
<1> SUFFICES ASSUME NEW q \in Run \ dead', NEW d \in Batch PROVE RowOK(q, d)'
  BY DEF RowIsCount, RowOK
<1>1. CASE q = r
  <2>1. CASE d = b
    BY <1>1, <2>1
  <2>2. CASE d # b
    BY <1>1, <2>2 DEF RowOK
  <2> QED BY <2>1, <2>2
<1>2. CASE q # r /\ d = b
  BY <1>2 DEF RowOK
<1>3. CASE q # r /\ d # b
  <2>1. RowOK(q, d)
    BY DEF RowIsCount, RowOK
  <2>2. \A p \in Run : of[p] = d => of'[p] = d
    BY <1>3 DEF Untouched
  <2> QED BY <1>3, <2>1, <2>2 DEF RowOK, Row, Untouched
<1> QED BY <1>1, <1>2, <1>3

(* A step of a batch: its row is left alone or is no longer a count.       *)
LEMMA RowsStay ==
    ASSUME RowIsCount, \A q \in Run : Untouched(q), dead \subseteq dead',
           schedules' = 0 => schedules = 0,
           schedules' = 0 => \A d \in Batch : job'[d] = job[d] \/ job'[d].status \notin {"running", "done"}
    PROVE  RowIsCount'
<1> SUFFICES ASSUME NEW q \in Run \ dead', NEW d \in Batch PROVE RowOK(q, d)'
  BY DEF RowIsCount, RowOK
<1>1. RowOK(q, d)
  BY DEF RowIsCount, RowOK
<1>2. \A p \in Run : of[p] = d => of'[p] = d
  BY DEF Untouched
<1> QED BY <1>1, <1>2 DEF RowOK, Row, Untouched

(* updateBatchState writes the row of b and no other. *)
LEMMA Saves ==
    ASSUME Shape, NEW b \in Batch, NEW c \in [completed : Nat, failed : Nat], SaveCount(b, c)
    PROVE  /\ job' \in [Batch -> Jobs] /\ NoneStays /\ \A d \in Batch \ {b} : job'[d] = job[d]
           /\ \/ job'[b] = Row(IF c.completed >= Total[b] THEN "done" ELSE "running", c)
              \/ job'[b].status \notin {"running", "done"}
<1> DEFINE row == Row(IF c.completed >= Total[b] THEN "done" ELSE "running", c)
<1>1. CASE Exists(b)
  <2>1. row \in Jobs /\ row.status # "none"
    BY DEF Row, Jobs
  <2>2. job' = [job EXCEPT ![b] = row] /\ job \in [Batch -> Jobs]
    BY <1>1 DEF SaveCount, Shape
  <2> HIDE DEF row
  <2>3. job' \in [Batch -> Jobs] /\ job'[b] = row /\ \A d \in Batch \ {b} : job'[d] = job[d]
    BY <2>1, <2>2
  <2> QED BY <2>1, <2>3 DEF NoneStays, row
<1>2. CASE ~ Exists(b)
  <2>1. job' = job /\ job[b].status \in {"none", "deleted"}
    BY <1>2 DEF SaveCount, Exists
  <2> QED BY <2>1 DEF Shape, NoneStays
<1> QED BY <1>1, <1>2

-----------------------------------------------------------------------------
(* Run r is left with its loop at n, tasks tk, known k, early e, settled s *)
(* and count c.                                                            *)
Left(r, n, tk, k, e, s, c) ==
    /\ next' = [next EXCEPT ![r] = n] /\ task' = [task EXCEPT ![r] = tk]
    /\ known' = [known EXCEPT ![r] = k] /\ early' = [early EXCEPT ![r] = e]
    /\ settled' = [settled EXCEPT ![r] = s] /\ count' = [count EXCEPT ![r] = c]

LEMMA LeftFields ==
    ASSUME Shape, NEW r \in Run, NEW n, NEW tk, NEW k, NEW e, NEW s, NEW c,
           Left(r, n, tk, k, e, s, c)
    PROVE  /\ next'[r] = n /\ task'[r] = tk /\ known'[r] = k
           /\ early'[r] = e /\ settled'[r] = s /\ count'[r] = c
           /\ \A q \in Run \ {r} :
                 /\ next'[q] = next[q] /\ task'[q] = task[q] /\ known'[q] = known[q]
                 /\ early'[q] = early[q] /\ settled'[q] = settled[q] /\ count'[q] = count[q]
           /\ /\ n \in Nat /\ tk \in [AnyTarget -> TaskState] /\ k \in SUBSET Nat
              /\ e \in SUBSET Nat /\ s \in SUBSET Nat /\ c \in [completed : Nat, failed : Nat]
              => /\ next' \in [Run -> Nat] /\ task' \in [Run -> [AnyTarget -> TaskState]]
                 /\ known' \in [Run -> SUBSET Nat] /\ early' \in [Run -> SUBSET Nat]
                 /\ settled' \in [Run -> SUBSET Nat]
                 /\ count' \in [Run -> [completed : Nat, failed : Nat]]
<1>1. next'[r] = n /\ \A q \in Run \ {r} : next'[q] = next[q]
  BY DEF Left, Shape
<1>2. task'[r] = tk /\ \A q \in Run \ {r} : task'[q] = task[q]
  BY DEF Left, Shape
<1>3. known'[r] = k /\ \A q \in Run \ {r} : known'[q] = known[q]
  BY DEF Left, Shape
<1>4. early'[r] = e /\ \A q \in Run \ {r} : early'[q] = early[q]
  BY DEF Left, Shape
<1>5. settled'[r] = s /\ \A q \in Run \ {r} : settled'[q] = settled[q]
  BY DEF Left, Shape
<1>6. count'[r] = c /\ \A q \in Run \ {r} : count'[q] = count[q]
  BY DEF Left, Shape
<1>7. n \in Nat => next' \in [Run -> Nat]
  BY DEF Left, Shape
<1>8. tk \in [AnyTarget -> TaskState] => task' \in [Run -> [AnyTarget -> TaskState]]
  BY DEF Left, Shape
<1>9. /\ k \in SUBSET Nat => known' \in [Run -> SUBSET Nat]
      /\ e \in SUBSET Nat => early' \in [Run -> SUBSET Nat]
      /\ s \in SUBSET Nat => settled' \in [Run -> SUBSET Nat]
  BY DEF Left, Shape
<1>10. c \in [completed : Nat, failed : Nat] => count' \in [Run -> [completed : Nat, failed : Nat]]
  BY DEF Left, Shape
<1> QED BY <1>1, <1>2, <1>3, <1>4, <1>5, <1>6, <1>7, <1>8, <1>9, <1>10

(* The count of a listening run is what it heard: its row, and the         *)
(* 'batch-complete' it may send, follow.                                   *)
LEMMA CountedKeeps ==
    ASSUME BatchInv, NEW r \in Run, r \notin dead, NEW b \in Batch, of[r] = b,
           NEW n, NEW tk, NEW k, NEW e, NEW s, NEW c,
           Left(r, n, tk, k, e, s, c), Started(b, tk, n, k), Tally(b, tk, n, e, s, c),
           Counted(r, b, c), c.completed >= count[r].completed,
           of' = of, dead' = dead, schedules' = schedules
    PROVE  BatchInv'
<1> USE DEF BatchInv
<1>1. /\ c \in [completed : Nat, failed : Nat] /\ c.completed = Cardinality(Ends(tk, n, Final))
      /\ n \in Nat /\ k \in SUBSET Nat /\ e \subseteq {n} /\ s \subseteq k
      /\ tk \in [AnyTarget -> TaskState] /\ Total[b] \in Nat
  <2>1. /\ c \in [completed : Nat, failed : Nat] /\ c.completed = Cardinality(Ends(tk, n, Final))
        /\ n \in Nat /\ k \subseteq Nat /\ e \subseteq {n} /\ s \subseteq k
    BY TallyCounts
  <2>2. tk \in [AnyTarget -> TaskState] /\ Total[b] \in Nat
    BY TargetsAreTargets DEF Started
  <2> QED BY <2>1, <2>2
<1>2. count[r] \in [completed : Nat, failed : Nat] /\ (r \in emitted <=> count[r].completed >= Total[b])
      /\ job[b].status # "none"
  BY DEF Shape, RunOK, Running
<1>3. /\ r \in emitted' <=> c.completed >= Total[b]
      /\ emitted' \subseteq Run /\ \A q \in Run \ {r} : q \in emitted' <=> q \in emitted
  BY <1>1, <1>2 DEF Counted, Shape
<1>4. /\ next'[r] = n /\ task'[r] = tk /\ known'[r] = k
      /\ early'[r] = e /\ settled'[r] = s /\ count'[r] = c
      /\ \A q \in Run \ {r} : Untouched(q)
  BY <1>3, LeftFields DEF Untouched
<1>5. /\ job' \in [Batch -> Jobs] /\ NoneStays /\ \A d \in Batch \ {b} : job'[d] = job[d]
      /\ RowOK(r, b)'
  <2>1. CASE SaveCount(b, c)
    <3>1. /\ job' \in [Batch -> Jobs] /\ NoneStays /\ \A d \in Batch \ {b} : job'[d] = job[d]
          /\ \/ job'[b] = Row(IF c.completed >= Total[b] THEN "done" ELSE "running", c)
             \/ job'[b].status \notin {"running", "done"}
      BY <1>1, <2>1, Saves
    <3> QED BY <1>3, <1>4, <3>1 DEF RowOK
  <2>2. CASE c = count[r] /\ emitted' = emitted /\ job' = job
    <3>1. RowOK(r, b)
      BY DEF RowIsCount, RowOK
    <3> QED BY <1>4, <2>2, <3>1 DEF RowOK, Row, NoneStays, Shape
  <2> QED BY <2>1, <2>2 DEF Counted
<1>6. Shape'
  <2>1. e \in SUBSET Nat /\ s \in SUBSET Nat
    BY <1>1
  <2> QED BY <1>1, <1>3, <1>5, <2>1, LeftFields DEF Shape
<1>7. RowIsCount'
  BY <1>4, <1>5, RowsKeep
<1>8. ASSUME NEW q \in Run PROVE RunOK(q)'
  <2>1. CASE q = r
    <3>1. r \in emitted' => \A t \in Targets(b) : tk[t] \in Final
      BY <1>1, <1>3, CompleteCounts
    <3>2. job'[b].status # "none"
      BY <1>2, <1>5 DEF NoneStays
    <3> QED BY <1>1, <1>3, <1>4, <2>1, <3>1, <3>2 DEF RunOK, Running
  <2>2. CASE q # r
    BY <1>4, <1>5, <2>2, RunKeeps
  <2> QED BY <2>1, <2>2
<1> QED BY <1>6, <1>7, <1>8

(* A step of a run that counts nothing. *)
LEMMA SilentKeeps ==
    ASSUME BatchInv, NEW r \in Run, NEW b \in Batch, of[r] = b,
           NEW tk, NEW e, Left(r, next[r], tk, known[r], e, settled[r], count[r]),
           Started(b, tk, next[r], known[r]), e \subseteq {next[r]},
           r \notin dead => Tally(b, tk, next[r], e, settled[r], count[r]),
           r \in emitted => \A t \in Targets(b) : tk[t] \in Final,
           of' = of, dead' = dead, schedules' = schedules, emitted' = emitted, job' = job
    PROVE  BatchInv'
<1> USE DEF BatchInv
<1> DEFINE n == next[r]
           k == known[r]
           s == settled[r]
           c == count[r]
<1>1. /\ n \in Nat /\ k \in SUBSET Nat /\ s \in SUBSET Nat /\ c \in [completed : Nat, failed : Nat]
      /\ s \subseteq k /\ tk \in [AnyTarget -> TaskState] /\ job[b].status # "none"
      /\ r \notin dead => (r \in emitted <=> c.completed >= Total[b])
  BY DEF Started, Shape, RunOK, Running
<1> HIDE DEF n, k, s, c
<1>2. Left(r, n, tk, k, e, s, c)
  BY DEF n, k, s, c
<1>3. /\ next'[r] = n /\ task'[r] = tk /\ known'[r] = k
      /\ early'[r] = e /\ settled'[r] = s /\ count'[r] = c
      /\ \A q \in Run \ {r} : Untouched(q)
  BY <1>2, LeftFields DEF Untouched
<1>4. Shape'
  <2>1. e \in SUBSET Nat
    BY <1>1 DEF n
  <2> QED BY <1>1, <1>2, <2>1, LeftFields DEF Shape
<1>5. RowIsCount'
  <2>1. RowOK(r, b) \/ r \in dead
    BY DEF RowIsCount, RowOK
  <2>2. r \notin dead' => RowOK(r, b)'
    BY <1>3, <2>1 DEF RowOK, Row, c
  <2> QED BY <1>3, <2>2, RowsKeep
<1>6. ASSUME NEW q \in Run PROVE RunOK(q)'
  <2>1. CASE q = r
    <3>1. Started(b, tk, n, k) /\ e \subseteq {n} /\ (r \notin dead => Tally(b, tk, n, e, s, c))
      BY DEF n, k, s, c
    <3> QED BY <1>1, <1>3, <2>1, <3>1 DEF RunOK, Running
  <2>2. CASE q # r
    BY <1>3, <2>2, RunKeeps DEF NoneStays
  <2> QED BY <2>1, <2>2
<1> QED BY <1>4, <1>5, <1>6

-----------------------------------------------------------------------------
(* The actions. *)
LEMMA ExecuteKeeps ==
    ASSUME BatchInv, NEW r \in Run, NEW b \in Batch, Execute(r, b)
    PROVE  BatchInv'
<1> USE DEF BatchInv
<1>1. PICK m \in 1 .. Total[b] + 1 :
          /\ next' = [next EXCEPT ![r] = m]
          /\ task' = [task EXCEPT ![r] = [i \in AnyTarget |->
                 IF i < m THEN "refused" ELSE IF i = m /\ i <= Total[b] THEN "queued" ELSE "none"]]
          /\ count' = [count EXCEPT ![r] = Plus(Zero, m - 1, m - 1)]
          /\ emitted' = IF m > Total[b] THEN emitted \cup {r} ELSE emitted
          /\ SaveCount(b, Plus(Zero, m - 1, m - 1))
  BY DEF Execute
<1> DEFINE tk == [i \in AnyTarget |->
                      IF i < m THEN "refused" ELSE IF i = m /\ i <= Total[b] THEN "queued" ELSE "none"]
           c == Plus(Zero, m - 1, m - 1)
<1>2. Started(b, tk, m, {}) /\ Tally(b, tk, m, {}, {}, c)
  BY FirstOffers
<1>3. c.completed = m - 1 /\ Total[b] \in Nat /\ m \in Nat
  BY TargetsAreTargets DEF Plus, Zero
<1>4. /\ of[r] = None /\ None \notin Batch /\ Exists(b) /\ of' = [of EXCEPT ![r] = b]
      /\ known' = known /\ early' = early /\ settled' = settled
      /\ dead' = dead /\ schedules' = schedules
  BY DEF Execute
<1>5. /\ r \notin emitted /\ r \notin dead
      /\ known[r] = {} /\ early[r] = {} /\ settled[r] = {}
  BY <1>4 DEF RunOK, NotStarted
<1>6. Left(r, m, tk, {}, {}, {}, c)
  BY <1>1, <1>4, <1>5 DEF Left, Shape
<1> HIDE DEF tk, c
<1>7. /\ c \in [completed : Nat, failed : Nat] /\ tk \in [AnyTarget -> TaskState]
      /\ c.completed = Cardinality(Ends(tk, m, Final))
  BY <1>2, TallyCounts DEF Started
<1>8. /\ r \in emitted' <=> c.completed >= Total[b]
      /\ emitted' \subseteq Run /\ \A q \in Run \ {r} : q \in emitted' <=> q \in emitted
  BY <1>1, <1>3, <1>5 DEF Shape
<1>9. /\ of' \in [Run -> Batch \cup {None}] /\ of'[r] = b
      /\ next'[r] = m /\ task'[r] = tk /\ known'[r] = {}
      /\ early'[r] = {} /\ settled'[r] = {} /\ count'[r] = c
      /\ \A q \in Run \ {r} : Untouched(q)
  <2>1. of' \in [Run -> Batch \cup {None}] /\ of'[r] = b /\ \A q \in Run \ {r} : of'[q] = of[q]
    BY <1>4 DEF Shape
  <2> QED BY <1>6, <1>8, <2>1, LeftFields DEF Untouched
<1>10. /\ job' \in [Batch -> Jobs] /\ NoneStays /\ \A d \in Batch \ {b} : job'[d] = job[d]
       /\ \/ job'[b] = Row(IF c.completed >= Total[b] THEN "done" ELSE "running", c)
          \/ job'[b].status \notin {"running", "done"}
  <2>1. SaveCount(b, c)
    BY <1>1 DEF c
  <2> QED BY <1>7, <2>1, Saves
<1>11. RowOK(r, b)'
  BY <1>8, <1>9, <1>10 DEF RowOK
<1>12. Shape'
  <2>1. {} \in SUBSET Nat
    OBVIOUS
  <2>2. /\ next' \in [Run -> Nat] /\ task' \in [Run -> [AnyTarget -> TaskState]]
        /\ known' \in [Run -> SUBSET Nat] /\ early' \in [Run -> SUBSET Nat]
        /\ settled' \in [Run -> SUBSET Nat]
        /\ count' \in [Run -> [completed : Nat, failed : Nat]]
    BY <1>3, <1>6, <1>7, <2>1, LeftFields
  <2> QED BY <1>4, <1>8, <1>9, <1>10, <2>2 DEF Shape
<1>13. RowIsCount'
  BY <1>4, <1>9, <1>10, <1>11, RowsKeep
<1>14. ASSUME NEW q \in Run PROVE RunOK(q)'
  <2>1. CASE q = r
    <3>1. r \in emitted' => \A t \in Targets(b) : tk[t] \in Final
      BY <1>2, <1>7, <1>8, CompleteCounts
    <3>2. job'[b].status # "none"
      BY <1>4, <1>10 DEF NoneStays, Exists
    <3> QED BY <1>2, <1>8, <1>9, <2>1, <3>1, <3>2 DEF RunOK, Running
  <2>2. CASE q # r
    BY <1>4, <1>9, <1>10, <2>2, RunKeeps
  <2> QED BY <2>1, <2>2
<1> QED BY <1>12, <1>13, <1>14

LEMMA AcceptKeeps ==
    ASSUME BatchInv, NEW r \in Run, Accept(r)
    PROVE  BatchInv'
<1> DEFINE b == of[r]
           n == next[r]
           tk == task[r]
           k == known[r]
           e == early[r]
           s == settled[r]
           c == count[r]
           x == IF n \in e THEN Plus(c, 1, Bad(tk[n])) ELSE c
           s2 == IF n \in e THEN s \cup {n} ELSE s
<1>1. /\ b \in Batch /\ r \notin dead /\ n \in Targets(b) /\ of' = of /\ dead' = dead
      /\ schedules' = schedules
      /\ known' = [known EXCEPT ![r] = k \cup {n}] /\ early' = [early EXCEPT ![r] = e \ {n}]
      /\ settled' = [settled EXCEPT ![r] = s2] /\ Offers(r, b, n + 1, x)
  <2>1. b \in Batch
    BY DEF Accept, BatchInv, Shape
  <2>2. CASE n \in e
    BY <2>1, <2>2 DEF Accept, BatchInv, Shape
  <2>3. CASE n \notin e
    BY <2>1, <2>3 DEF Accept, BatchInv, Shape
  <2> QED BY <2>2, <2>3
<1>2. PICK m \in n + 1 .. Total[b] + 1 :
          /\ next' = [next EXCEPT ![r] = m]
          /\ task' = [task EXCEPT ![r] = [i \in AnyTarget |->
                 IF i \in n + 1 .. m - 1 THEN "refused"
                 ELSE IF i = m /\ i <= Total[b] THEN "queued" ELSE @[i]]]
          /\ Counted(r, b, Plus(x, m - (n + 1), m - (n + 1)))
  BY <1>1 DEF Offers
<1> DEFINE tk2 == [i \in AnyTarget |-> IF i \in n + 1 .. m - 1 THEN "refused"
                      ELSE IF i = m /\ i <= Total[b] THEN "queued" ELSE tk[i]]
           c2 == Plus(x, m - (n + 1), m - (n + 1))
<1>3. Left(r, m, tk2, k \cup {n}, e \ {n}, s2, c2)
  <2>1. task' = [task EXCEPT ![r] = tk2]
    BY <1>2 DEF BatchInv, Shape
  <2>2. count' = [count EXCEPT ![r] = c2]
    BY <1>2 DEF Counted
  <2> QED BY <1>1, <1>2, <2>1, <2>2 DEF Left
<1>4. /\ Started(b, tk, n, k) /\ Tally(b, tk, n, e, s, c)
      /\ c \in [completed : Nat, failed : Nat]
  BY <1>1 DEF BatchInv, RunOK, Running, Shape
<1>5. n \in Nat /\ n <= Total[b] /\ Total[b] \in Nat /\ m \in Nat /\ m - (n + 1) \in Nat
  BY <1>1, TargetsAreTargets
<1>6. c2.completed >= c.completed
  <2> HIDE DEF n, c, e, tk
  <2>1. x.completed \in Nat /\ x.completed >= c.completed
    BY <1>4 DEF Plus
  <2> HIDE DEF x
  <2> QED BY <1>4, <1>5, <2>1 DEF Plus
<1> HIDE DEF b, n, tk, k, e, s, c
<1>7. Started(b, tk2, m, k \cup {n}) /\ Tally(b, tk2, m, e \ {n}, s2, c2)
  <2> HIDE DEF tk2
  <2>1. /\ Started(b, tk2, m, k \cup {n})
        /\ Tally(b, tk, n, e, s, c) =>
               IF n \in e
               THEN Tally(b, tk2, m, e \ {n}, s \cup {n},
                          Plus(Plus(c, 1, Bad(tk[n])), m - (n + 1), m - (n + 1)))
               ELSE Tally(b, tk2, m, e \ {n}, s, Plus(c, m - (n + 1), m - (n + 1)))
    BY <1>1, <1>4, <1>5, OffersGo DEF tk2
  <2> QED BY <1>4, <2>1
<1> HIDE DEF tk2, c2, s2, x
<1>8. Counted(r, b, c2) /\ of[r] = b /\ c2.completed >= count[r].completed
  BY <1>2, <1>6 DEF c2, b, c
<1> QED BY <1>1, <1>3, <1>7, <1>8, CountedKeeps

LEMMA TaskEndsKeeps ==
    ASSUME BatchInv, NEW r \in Run, NEW t \in AnyTarget, NEW x \in Results \cup {"cancelled"},
           TaskEnds(r, t, x)
    PROVE  BatchInv'
<1> DEFINE b == of[r]
           n == next[r]
           tk == task[r]
           k == known[r]
           e == early[r]
           s == settled[r]
           c == count[r]
           tk2 == [tk EXCEPT ![t] = x]
<1>1. /\ tk[t] = "queued" /\ task' = [task EXCEPT ![r] = tk2]
      /\ next' = [next EXCEPT ![r] = n] /\ known' = [known EXCEPT ![r] = k]
      /\ of' = of /\ dead' = dead /\ schedules' = schedules
  BY DEF TaskEnds, BatchInv, Shape
<1>2. /\ b \in Batch /\ Started(b, tk, n, k) /\ e \subseteq {n} /\ s \subseteq k
      /\ r \notin dead => Tally(b, tk, n, e, s, c)
      /\ r \in emitted => \A i \in Targets(b) : tk[i] \in Final
      /\ c \in [completed : Nat, failed : Nat]
  <2>1. b # None
    BY <1>1 DEF BatchInv, RunOK, NotStarted
  <2> QED BY <2>1 DEF BatchInv, RunOK, Running, Shape
<1>3. r \notin emitted
  <2>1. t \in Targets(b)
    BY <1>1, <1>2, TargetsAreTargets, AnyTargetIsNat DEF Started
  <2> QED BY <1>1, <1>2, <2>1 DEF Final, Results
<1> HIDE DEF b, n, tk, k, e, s, c
<1>ended. tk2 = Ended(tk, t, x)
  BY DEF Ended
<1> HIDE DEF tk2
<1>4. /\ Started(b, tk2, n, k) /\ t <= Total[b] /\ (t \in k \/ t = n)
      /\ Tally(b, tk, n, e, s, c) =>
             IF x = "cancelled" THEN Tally(b, tk2, n, e, s, c)
             ELSE IF t \in k THEN Tally(b, tk2, n, e, s \cup {t}, Plus(c, 1, Bad(x)))
             ELSE Tally(b, tk2, n, e \cup {t}, s, c)
  <2>1. /\ b \in Batch /\ Started(b, tk, n, k) /\ t \in AnyTarget /\ tk[t] = "queued"
        /\ x \in Results \cup {"cancelled"} /\ tk2 = Ended(tk, t, x)
    BY <1>1, <1>2, <1>ended
  <2>2. Started(b, tk2, n, k) /\ t <= Total[b] /\ (t \in k \/ t = n)
    BY <2>1, TaskGoes
  <2>3. ASSUME Tally(b, tk, n, e, s, c)
        PROVE  /\ x = "cancelled" => Tally(b, tk2, n, e, s, c)
               /\ x # "cancelled" /\ t \in k => Tally(b, tk2, n, e, s \cup {t}, Plus(c, 1, Bad(x)))
               /\ x # "cancelled" /\ t \notin k => Tally(b, tk2, n, e \cup {t}, s, c)
    BY <2>1, <2>3, TaskTally
  <2> QED BY <2>2, <2>3
<1>5. of[r] = b
  BY DEF b
<1>6. CASE r \in dead \/ x = "cancelled"
  <2>1. Left(r, n, tk2, k, e, s, c) /\ emitted' = emitted /\ job' = job
    BY <1>1, <1>6 DEF TaskEnds, Left, BatchInv, Shape, e, s, c
  <2>2. r \notin dead => Tally(b, tk2, n, e, s, c)
    BY <1>2, <1>4, <1>6
  <2> QED BY <1>1, <1>2, <1>3, <1>4, <1>5, <2>1, <2>2, SilentKeeps DEF n, k, e, s, c
<1>7. CASE r \notin dead /\ x # "cancelled" /\ t \in k
  <2> DEFINE c2 == Plus(c, 1, Bad(x))
             s2 == s \cup {t}
  <2>1. Counted(r, b, c2) /\ settled' = [settled EXCEPT ![r] = s2] /\ early' = [early EXCEPT ![r] = e]
    BY <1>7 DEF TaskEnds, BatchInv, Shape, e, s, c, k, b
  <2>2. Left(r, n, tk2, k, e, s2, c2)
    BY <1>1, <2>1 DEF Left, Counted
  <2>3. Tally(b, tk2, n, e, s2, c2)
    BY <1>2, <1>4, <1>7
  <2>4. c2.completed >= count[r].completed
    BY <1>2 DEF Plus, c
  <2> HIDE DEF c2, s2
  <2> QED BY <1>1, <1>2, <1>4, <1>5, <1>7, <2>1, <2>2, <2>3, <2>4, CountedKeeps
<1>8. CASE r \notin dead /\ x # "cancelled" /\ t \notin k
  <2> DEFINE e2 == e \cup {t}
  <2>1. Left(r, n, tk2, k, e2, s, c) /\ emitted' = emitted /\ job' = job
    BY <1>1, <1>8 DEF TaskEnds, Left, BatchInv, Shape, e, s, c, k
  <2>2. Tally(b, tk2, n, e2, s, c) /\ e2 \subseteq {n}
    BY <1>2, <1>4, <1>8
  <2> HIDE DEF e2
  <2> QED BY <1>1, <1>2, <1>3, <1>4, <1>5, <2>1, <2>2, SilentKeeps DEF n, k, s, c
<1> QED BY <1>6, <1>7, <1>8

(* A restart: the runs that started no longer listen. *)
LEMMA RestartKeeps ==
    ASSUME BatchInv, Restart
    PROVE  BatchInv'
<1> USE DEF BatchInv
<1>1. /\ dead' = {r \in Run : of[r] # None}
      /\ <<job, of, next, task, known, early, settled, count, emitted, schedules>>'
         = <<job, of, next, task, known, early, settled, count, emitted, schedules>>
  BY DEF Restart
<1>2. /\ dead \subseteq dead' /\ dead' \subseteq Run
      /\ \A q \in Run : of[q] = None => q \notin dead /\ q \notin dead'
  BY <1>1 DEF RunOK, NotStarted, Shape
<1>3. NoneStays /\ \A q \in Run : Untouched(q)
  BY <1>1 DEF Untouched, NoneStays
<1>4. Shape'
  BY <1>1, <1>2 DEF Shape
<1>5. RowIsCount'
  BY <1>1, <1>2, <1>3, RowsStay
<1>6. ASSUME NEW q \in Run PROVE RunOK(q)'
  BY <1>2, <1>3, RunKeeps
<1> QED BY <1>4, <1>5, <1>6

(* A batch is created, scheduled, cancelled or deleted. *)
LEMMA BatchKeeps ==
    ASSUME BatchInv, NEW b \in Batch, Create(b) \/ Schedule(b) \/ CancelBatch(b) \/ Delete(b)
    PROVE  BatchInv'
<1> USE DEF BatchInv
<1>1. runVars' = runVars /\ \A q \in Run : Untouched(q)
  BY DEF Create, Schedule, CancelBatch, Delete, runVars, Untouched
<1>2. schedules' \in Nat /\ (schedules' = 0 => schedules = 0 /\ ~ Schedule(b))
  BY DEF Create, Schedule, CancelBatch, Delete, Shape
<1>3. /\ job' \in [Batch -> Jobs] /\ NoneStays
      /\ \A d \in Batch : \/ job'[d] = job[d] \/ Schedule(b)
                           \/ job'[d].status \notin {"running", "done"}
  <2>1. job \in [Batch -> Jobs] /\ Row("pending", Zero) \in Jobs
    BY DEF Shape, Row, Zero, Jobs
  <2>2. CASE Create(b)
    <3>1. Row("pending", Zero).status = "pending"
      BY DEF Row
    <3> QED BY <2>1, <2>2, <3>1 DEF Create, NoneStays
  <2>3. ASSUME NEW x \in {"scheduled", "cancelled", "deleted"},
               job' = [job EXCEPT ![b].status = x]
        PROVE  /\ job' \in [Batch -> Jobs] /\ NoneStays
               /\ \A d \in Batch : job'[d] = job[d] \/ job'[d].status \notin {"running", "done"}
    <3>1. /\ [job[b] EXCEPT !.status = x] \in Jobs
          /\ [job[b] EXCEPT !.status = x].status = x
      BY <2>1 DEF Jobs
    <3> DEFINE row == [job[b] EXCEPT !.status = x]
    <3>2. job' = [job EXCEPT ![b] = row]
      BY <2>3
    <3> HIDE DEF row
    <3>3. row \in Jobs /\ row.status = x
      BY <3>1 DEF row
    <3> QED BY <2>1, <3>2, <3>3 DEF NoneStays
  <2>4. CASE Schedule(b)
    <3>1. job' = job \/ job' = [job EXCEPT ![b].status = "scheduled"]
      BY <2>4 DEF Schedule
    <3>2. CASE job' = job
      BY <2>1, <2>4, <3>2 DEF NoneStays
    <3> QED BY <2>3, <2>4, <3>1, <3>2
  <2>5. CASE CancelBatch(b)
    BY <2>3, <2>5 DEF CancelBatch
  <2>6. CASE Delete(b)
    BY <2>3, <2>6 DEF Delete
  <2> QED BY <2>2, <2>4, <2>5, <2>6
<1>4. Shape'
  BY <1>1, <1>2, <1>3 DEF Shape, runVars
<1>5. RowIsCount'
  BY <1>1, <1>2, <1>3, RowsStay DEF runVars
<1>6. ASSUME NEW q \in Run PROVE RunOK(q)'
  BY <1>1, <1>3, RunKeeps DEF runVars
<1> QED BY <1>4, <1>5, <1>6

-----------------------------------------------------------------------------
LEMMA BatchInvInit == Init => BatchInv
<1> SUFFICES ASSUME Init PROVE BatchInv
  OBVIOUS
<1>1. Shape
  <2>1. Row("none", Zero) \in Jobs /\ Zero \in [completed : Nat, failed : Nat]
    BY DEF Row, Zero, Jobs
  <2>2. "none" \in TaskState
    BY DEF TaskState
  <2> QED BY <2>1, <2>2 DEF Init, Shape
<1>2. \A r \in Run : of[r] = None /\ NotStarted(r)
  BY DEF Init, NotStarted
<1>3. RowIsCount
  BY <1>2 DEF RowIsCount
<1> QED BY <1>1, <1>2, <1>3 DEF BatchInv, RunOK

LEMMA BatchInvKept == BatchInv /\ [Next]_batchVars => BatchInv'
<1> SUFFICES ASSUME BatchInv, [Next]_batchVars PROVE BatchInv'
  OBVIOUS
<1>1. ASSUME NEW b \in Batch, Create(b) \/ Schedule(b) \/ CancelBatch(b) \/ Delete(b) PROVE BatchInv'
  BY <1>1, BatchKeeps
<1>2. ASSUME NEW r \in Run, NEW b \in Batch, Execute(r, b) PROVE BatchInv'
  BY <1>2, ExecuteKeeps
<1>3. ASSUME NEW r \in Run, Accept(r) PROVE BatchInv'
  BY <1>3, AcceptKeeps
<1>4. ASSUME NEW r \in Run, NEW t \in AnyTarget, NEW x \in Results \cup {"cancelled"},
             TaskEnds(r, t, x)
      PROVE  BatchInv'
  BY <1>4, TaskEndsKeeps
<1>5. CASE Restart
  BY <1>5, RestartKeeps
<1>6. CASE UNCHANGED batchVars
  BY <1>6 DEF batchVars, runVars, BatchInv, Shape, RowIsCount, RunOK, NotStarted, Running
<1> QED BY <1>1, <1>2, <1>3, <1>4, <1>5, <1>6 DEF Next

LEMMA BatchInvAlways == ManagerSpec => []BatchInv
  BY BatchInvInit, BatchInvKept, PTL DEF ManagerSpec

(* What a listening run counts is exactly the refusals, and the results of *)
(* the tasks whose id it was given.                                        *)
LEMMA TallyIsResults ==
    ASSUME NEW b \in Batch, NEW tk, NEW n, NEW k, Started(b, tk, n, k),
           NEW e, NEW s, NEW c, Tally(b, tk, n, e, s, c), NEW heard, NEW refused,
           heard = {t \in k : tk[t] \in Results},
           refused = {t \in AnyTarget : tk[t] = "refused"}
    PROVE  /\ c.completed = Cardinality(heard) + Cardinality(refused)
           /\ c.failed = Cardinality({t \in heard : tk[t] = "failed"}) + Cardinality(refused)
<1> DEFINE bad == {t \in heard : tk[t] = "failed"}
<1>1. /\ Total[b] \in Nat /\ n \in 1 .. Total[b] + 1 /\ n \in Nat
      /\ k = {t \in 1 .. n - 1 : tk[t] # "refused"}
      /\ \A t \in 1 .. Total[b] : t \in AnyTarget
  BY TargetsAreTargets DEF Started
<1>2. refused = {t \in 1 .. n - 1 : tk[t] = "refused"}
  <2>1. ASSUME NEW t \in AnyTarget, tk[t] = "refused" PROVE t \in 1 .. n - 1
    <3>1. t \in Nat \ {0} /\ ~ (t > n \/ t > Total[b])
      BY <2>1, AnyTargetIsNat DEF Started
    <3> QED BY <1>1, <2>1, <3>1 DEF Started
  <2> QED BY <1>1, <2>1
<1>3. /\ Ends(tk, n, Final) = heard \cup refused
      /\ Ends(tk, n, {"failed", "refused"}) = bad \cup refused
  BY <1>1, <1>2 DEF Ends, Final, Results
<1>4. heard \cap refused = {} /\ bad \cap refused = {}
  BY DEF Results
<1>5. IsFiniteSet(heard) /\ IsFiniteSet(bad) /\ IsFiniteSet(refused)
  <2>1. heard \in SUBSET (1 .. n - 1) /\ bad \in SUBSET (1 .. n - 1) /\ refused \in SUBSET (1 .. n - 1)
    BY <1>1, <1>2
  <2>2. IsFiniteSet(1 .. n - 1)
    BY <1>1, FS_Interval
  <2> QED BY <2>1, <2>2, FS_Subset
<1> HIDE DEF bad
<1>6. ASSUME NEW A, NEW B, IsFiniteSet(A), IsFiniteSet(B), A \cap B = {}
      PROVE  Cardinality(A \cup B) = Cardinality(A) + Cardinality(B)
  <2>1. Cardinality(A) \in Nat /\ Cardinality(B) \in Nat /\ Cardinality(A \cap B) = 0
    BY <1>6, FS_CardinalityType, FS_EmptySet
  <2>2. Cardinality(A \cup B) = Cardinality(A) + Cardinality(B) - Cardinality(A \cap B)
    BY <1>6, FS_Union
  <2> QED BY <2>1, <2>2
<1>7. c.completed = Cardinality(heard \cup refused) /\ c.failed = Cardinality(bad \cup refused)
  BY <1>3 DEF Tally
<1>8. /\ Cardinality(heard \cup refused) = Cardinality(heard) + Cardinality(refused)
      /\ Cardinality(bad \cup refused) = Cardinality(bad) + Cardinality(refused)
  BY ONLY <1>4, <1>5, <1>6
<1> QED BY <1>7, <1>8 DEF bad

(* However early a result arrives, and whatever restarts, deletes or       *)
(* schedules a batch meanwhile, an execution counts each refusal and each  *)
(* result it heard once, and the row of its batch says so.                 *)
THEOREM CountsAreResults == ManagerSpec => []CountIsResults
<1>1. ASSUME BatchInv PROVE CountIsResults
  <2>1. JobTypeOK
    <3>1. \A b \in Batch : job[b].status \in
              {"none", "pending", "running", "done", "scheduled", "cancelled", "deleted"}
      BY <1>1 DEF BatchInv, Shape, Jobs
    <3>2. ASSUME NEW r \in Run
          PROVE  known[r] \subseteq 1 .. next[r] /\ settled[r] \subseteq known[r] /\ early[r] \subseteq {next[r]}
      <4>1. CASE NotStarted(r)
        BY <4>1 DEF NotStarted
      <4>2. CASE of[r] \in Batch /\ Running(r)
        BY <4>2, TargetsAreTargets DEF Running, Started
      <4> QED BY <1>1, <4>1, <4>2 DEF BatchInv, RunOK
    <3> QED BY <1>1, <3>1, <3>2 DEF JobTypeOK, BatchInv, Shape
  <2>2. ASSUME NEW r \in Run \ dead, of[r] # None
        PROVE  LET heard == {t \in known[r] : task[r][t] \in Results}
                   refused == {t \in AnyTarget : task[r][t] = "refused"}
               IN  /\ count[r].completed = Cardinality(heard) + Cardinality(refused)
                   /\ count[r].failed = Cardinality({t \in heard : task[r][t] = "failed"}) + Cardinality(refused)
    <3>1. /\ of[r] \in Batch /\ Started(of[r], task[r], next[r], known[r])
          /\ Tally(of[r], task[r], next[r], early[r], settled[r], count[r])
      BY <1>1, <2>2 DEF BatchInv, RunOK, Running
    <3> DEFINE heard == {t \in known[r] : task[r][t] \in Results}
               refused == {t \in AnyTarget : task[r][t] = "refused"}
    <3>2. /\ heard = {t \in known[r] : task[r][t] \in Results}
          /\ refused = {t \in AnyTarget : task[r][t] = "refused"}
      OBVIOUS
    <3> HIDE DEF heard, refused
    <3>3. /\ count[r].completed = Cardinality(heard) + Cardinality(refused)
          /\ count[r].failed = Cardinality({t \in heard : task[r][t] = "failed"}) + Cardinality(refused)
      BY <3>1, <3>2, TallyIsResults
    <3> QED BY <3>3 DEF heard, refused
  <2> QED BY <1>1, <2>1, <2>2 DEF CountIsResults, BatchInv
<1> QED BY <1>1, BatchInvAlways, PTL

(* 'batch-complete' is sent only when every target of the batch was        *)
(* refused or has its result.                                              *)
THEOREM CompletesWhole == ManagerSpec => []CompleteIsWhole
<1>1. ASSUME BatchInv PROVE CompleteIsWhole
  <2> SUFFICES ASSUME NEW r \in emitted, NEW t \in Targets(of[r])
               PROVE  task[r][t] \in Final
    BY DEF CompleteIsWhole, Final
  <2>1. r \in Run /\ Running(r)
    BY <1>1 DEF BatchInv, Shape, RunOK, NotStarted
  <2> QED BY <2>1 DEF Running
<1> QED BY <1>1, BatchInvAlways, PTL

=============================================================================
