-------------------------- MODULE TaskQueueProofs ---------------------------
(* The task queue implements the guard's specification: whatever the queue   *)
(* does with retries, timeouts, late answers, cancellations, users and       *)
(* shutdown, every attempt is started when the guard allows it and settled   *)
(* at most once.  The guard's theorems then hold of the queue.  Next come    *)
(* the queue's own invariants: channels and users, rollbacks, the places of  *)
(* the tasks, the snapshots; and last the process around it.                 *)
EXTENDS PublishProcess, PublishIntervalGuardProofs, SequenceTheorems,
        FiniteSetTheorems

(* What the refinement rests on.  QueueShape: the loop's head is a task and  *)
(* the counters of its tasks are in range.  HoldsMatch: a task in flight has *)
(* exactly one hold that is not settled, its current one, and a dispatch not *)
(* yet made has none.                                                        *)
QueueShape ==
    /\ queue \in Seq(Task)
    /\ scan \in 0..Len(queue)
    /\ running \subseteq Task
    /\ task \in [Task -> TaskRec]

HoldsMatch ==
    /\ \A t \in running : task[t].tries >= 1 /\ holds[Current(t)].state = "open"
    /\ \A t \in Task, n \in 1..MaxTries :
          n > task[t].tries => holds[<<t, n>>].state = "none"

QueueInv == GuardTypeOK /\ QueueShape /\ HoldsMatch

----------------------------------------------------------------------------
(* Sequences and counters                                                    *)

LEMMA KickInQueue ==
    ASSUME NEW q \in Seq(Task), NEW r, NEW stopped
    PROVE  Kick(q, r, stopped) \in 0..Len(q)
  BY LenProperties DEF Kick

LEMMA PutFirst ==
    ASSUME NEW q \in Seq(Task), NEW t \in Task
    PROVE  <<t>> \o q \in Seq(Task)
  BY ConcatProperties

LEMMA CutIsSeq ==
    ASSUME NEW q \in Seq(Task), NEW m \in Int, NEW n \in Int, m >= 1, n <= Len(q)
    PROVE  SubSeq(q, m, n) \in Seq(Task)
  <1>1. Len(q) \in Nat /\ \A j \in 1..Len(q) : q[j] \in Task
    BY LenProperties, ElementOfSeq
  <1>2. \A j \in m..n : q[j] \in Task
    BY <1>1
  <1> QED
    BY <1>2, SubSeqProperties

LEMMA WithoutSeq ==
    ASSUME NEW q \in Seq(Task), NEW t \in ToSet(q)
    PROVE  Without(q, t) \in Seq(Task)
  <1> DEFINE i == CHOOSE j \in DOMAIN q : q[j] = t
  <1>1. Len(q) \in Nat /\ DOMAIN q = 1..Len(q)
    BY LenProperties
  <1>2. i \in 1..Len(q)
    BY <1>1 DEF ToSet
  <1> HIDE DEF i
  <1>3. i \in Int /\ i - 1 \in Int /\ i - 1 <= Len(q) /\ i + 1 \in Int /\ i + 1 >= 1
    BY <1>1, <1>2
  <1>4. SubSeq(q, 1, i - 1) \in Seq(Task)
    BY <1>3, CutIsSeq
  <1>5. SubSeq(q, i + 1, Len(q)) \in Seq(Task)
    BY <1>1, <1>3, CutIsSeq
  <1> QED
    BY <1>4, <1>5, ConcatProperties DEF Without, i

(* The queue entries of one user.                                            *)
LEMMA OwnedByParts ==
    ASSUME NEW q \in Seq(Task), NEW o
    PROVE  /\ OwnedBy(q, o) \in Seq(Task)
           /\ ToSet(OwnedBy(q, o)) = {t \in ToSet(q) : OwnerOf[t] = o}
           /\ IsInjective(q) => IsInjective(OwnedBy(q, o))
  <1> DEFINE mine == {i \in DOMAIN q : OwnerOf[q[i]] = o}
             Upto(i) == {j \in mine : j <= i}
             Rank(i) == Cardinality(Upto(i))
             c == Cardinality(mine)
             f == [i \in mine |-> Rank(i)]
             At(n) == CHOOSE i \in mine : Rank(i) = n
  <1>1. Len(q) \in Nat /\ DOMAIN q = 1..Len(q) /\ q \in [1..Len(q) -> Task]
    BY LenProperties
  <1>2. mine \subseteq 1..Len(q) /\ IsFiniteSet(mine) /\ c \in Nat
    <2>1. mine \subseteq 1..Len(q)
      BY <1>1
    <2>2. IsFiniteSet(1..Len(q))
      BY <1>1, FS_Interval
    <2>3. IsFiniteSet(mine)
      BY <2>1, <2>2, FS_Subset
    <2> QED
      BY <2>1, <2>3, FS_CardinalityType
  <1> HIDE DEF mine
  <1>3. ASSUME NEW i \in mine PROVE Rank(i) \in 1..c /\ IsFiniteSet(Upto(i))
    <2>1. Upto(i) \in SUBSET mine /\ i \in Upto(i)
      BY <1>2
    <2> HIDE DEF Upto
    <2>2. IsFiniteSet(Upto(i)) /\ Rank(i) <= c
      BY <1>2, <2>1, FS_Subset
    <2>3. Rank(i) \in Nat
      BY <2>2, FS_CardinalityType
    <2>4. Rank(i) # 0
      BY <2>1, <2>2, FS_EmptySet
    <2> QED
      BY <1>2, <2>2, <2>3, <2>4
  <1>4. ASSUME NEW i \in mine, NEW j \in mine, i < j PROVE Rank(i) # Rank(j)
    <2>1. Upto(i) \in SUBSET Upto(j) /\ j \in Upto(j) /\ j \notin Upto(i)
      <3>1. \A k \in mine : k \in Int
        BY <1>1, <1>2
      <3>2. \A k \in mine : k <= i => k <= j
        BY <1>4, <3>1
      <3>3. j <= j /\ ~(j <= i)
        BY <1>4, <3>1
      <3> QED
        BY <3>2, <3>3
    <2>2. IsFiniteSet(Upto(j))
      BY <1>3
    <2> HIDE DEF Upto
    <2> QED
      BY <2>1, <2>2, FS_Subset
  <1>5. f \in Injection(mine, 1..c)
    <2>1. f \in [mine -> 1..c]
      BY <1>3
    <2>2. ASSUME NEW i \in mine, NEW j \in mine, i # j PROVE f[i] # f[j]
      <3>1. i < j \/ j < i
        BY <1>2, <2>2
      <3> QED
        BY <1>4, <3>1
    <2> HIDE DEF f
    <2> QED
      BY <2>1, <2>2 DEF Injection, IsInjective
  <1>6. IsFiniteSet(1..c) /\ Cardinality(1..c) = c
    BY <1>2, FS_Interval
  <1>7. f \in Surjection(mine, 1..c)
    BY <1>5, <1>6, FS_Injection
  <1>8. ASSUME NEW n \in 1..c PROVE At(n) \in mine /\ Rank(At(n)) = n
    <2>1. \E i \in mine : f[i] = n
      BY <1>7 DEF Surjection
    <2>2. \E i \in mine : Rank(i) = n
      BY <2>1
    <2> HIDE DEF Rank
    <2> QED
      BY <2>2
  <1> DEFINE s == [n \in 1..c |-> q[At(n)]]
  <1>9. OwnedBy(q, o) = s
    BY DEF OwnedBy, mine
  <1> HIDE DEF At, Rank
  <1>10. \A n \in 1..c : s[n] \in Task
    BY <1>1, <1>2, <1>8
  <1>11. s \in Seq(Task)
    BY <1>2, <1>10, SeqDef
  <1>12. DOMAIN s = 1..c
    OBVIOUS
  <1>13. ASSUME NEW t \in ToSet(s) PROVE t \in ToSet(q) /\ OwnerOf[t] = o
    <2>1. PICK n \in 1..c : t = s[n]
      BY <1>12, <1>13 DEF ToSet
    <2> QED
      BY <1>8, <2>1 DEF ToSet, mine
  <1>14. ASSUME NEW t \in ToSet(q), OwnerOf[t] = o PROVE t \in ToSet(s)
    <2>1. PICK i \in mine : t = q[i]
      BY <1>14 DEF ToSet, mine
    <2>2. f[i] \in 1..c /\ f[i] = Rank(i)
      BY <1>3
    <2>3. At(Rank(i)) = i
      <3>1. At(Rank(i)) \in mine /\ Rank(At(Rank(i))) = Rank(i)
        BY <1>8, <2>2
      <3>2. f[At(Rank(i))] = f[i]
        BY <3>1
      <3> HIDE DEF f
      <3> QED
        BY <1>5, <3>1, <3>2 DEF Injection, IsInjective
    <2> QED
      BY <2>1, <2>2, <2>3, <1>12 DEF ToSet
  <1>15. ASSUME IsInjective(q) PROVE IsInjective(s)
    <2>1. ASSUME NEW m \in 1..c, NEW n \in 1..c, s[m] = s[n] PROVE m = n
      <3>1. At(m) \in DOMAIN q /\ At(n) \in DOMAIN q /\ q[At(m)] = q[At(n)]
        BY <1>8, <2>1 DEF mine
      <3>2. At(m) = At(n)
        BY <1>15, <3>1 DEF IsInjective
      <3> QED
        BY <1>8, <3>2
    <2> HIDE DEF s
    <2> QED
      BY <1>12, <2>1 DEF IsInjective
  <1> QED
    BY <1>9, <1>11, <1>13, <1>14, <1>15

LEMMA BoundedSeqIsSeq ==
    ASSUME NEW n \in Nat, NEW q \in SeqOf(Task, n)
    PROVE  q \in Seq(Task)
  <1>1. PICK m \in 0..n : q \in [1..m -> Task]
    BY DEF SeqOf
  <1> QED
    BY <1>1, SeqDef

(* The task the loop looks at.                                               *)
LEMMA HeadIsTask ==
    ASSUME QueueShape, Scanning
    PROVE  /\ Head(queue) \in Task /\ Tail(queue) \in Seq(Task)
           /\ Len(Tail(queue)) = Len(queue) - 1
           /\ scan - 1 \in 0..Len(Tail(queue))
  <1>1. queue # <<>>
    BY EmptySeq DEF QueueShape, Scanning
  <1> QED
    BY <1>1, HeadTailProperties, LenProperties DEF QueueShape, Scanning

LEMMA CurrentIsAttempt ==
    ASSUME QueueShape, HoldsMatch, NEW t \in running
    PROVE  t \in Task /\ Current(t) \in Attempt /\ task[t].tries \in 1..MaxTries
  BY QueueConstants DEF QueueShape, HoldsMatch, Current, TaskRec

----------------------------------------------------------------------------
(* Handlers that leave the guard alone                                       *)

SameTries == \A t \in Task : task'[t].tries = task[t].tries

LEMMA QuietStep ==
    ASSUME QueueInv, UNCHANGED guardVars, QueueShape', running' \subseteq running, SameTries
    PROVE  [GuardNext]_guardVars /\ QueueInv'
  <1>1. GuardTypeOK'
    BY GuardNextType DEF QueueInv
  <1>2. holds' = holds
    BY DEF guardVars
  <1>3. HoldsMatch'
    BY <1>2 DEF QueueInv, QueueShape, HoldsMatch, SameTries, Current
  <1> QED
    BY <1>1, <1>3 DEF QueueInv

LEMMA SkipStep == QueueInv /\ Skip => [GuardNext]_guardVars /\ QueueInv'
  <1> SUFFICES ASSUME QueueInv, Skip PROVE [GuardNext]_guardVars /\ QueueInv'
    OBVIOUS
  <1>1. /\ UNCHANGED guardVars /\ running' = running /\ task' = task
        /\ queue' = Append(Tail(queue), Head(queue)) /\ scan' = scan - 1 /\ Scanning
    BY DEF Skip
  <1>2. queue' \in Seq(Task) /\ Len(queue') = Len(queue)
    BY <1>1, HeadIsTask, AppendProperties, LenProperties DEF QueueInv, QueueShape
  <1>3. QueueShape'
    BY <1>1, <1>2, LenProperties DEF QueueInv, QueueShape, Scanning
  <1> QED
    BY <1>1, <1>3, QuietStep DEF SameTries

LEMMA PostponeStep == QueueInv /\ Postpone => [GuardNext]_guardVars /\ QueueInv'
  <1> SUFFICES ASSUME QueueInv, Postpone PROVE [GuardNext]_guardVars /\ QueueInv'
    OBVIOUS
  <1>1. /\ UNCHANGED guardVars /\ running' = running /\ task' = task
        /\ queue' = Tail(queue) /\ scan' = scan - 1 /\ Scanning
    BY DEF Postpone
  <1>2. QueueShape'
    BY <1>1, HeadIsTask DEF QueueInv, QueueShape
  <1> QED
    BY <1>1, <1>2, QuietStep DEF SameTries

(* A handler that settles the current attempt of a task in flight.           *)
LEMMA SettleStep ==
    ASSUME QueueInv, NEW t \in running,
           ReleaseWindow(Current(t)) \/ KeepWindow(Current(t)),
           QueueShape', running' = running \ {t}, SameTries
    PROVE  [GuardNext]_guardVars /\ QueueInv'
  <1>1. t \in Task /\ Current(t) \in Attempt /\ holds[Current(t)].state = "open"
    BY CurrentIsAttempt DEF QueueInv, HoldsMatch
  <1>2. GuardNext
    BY <1>1 DEF GuardNext, Release, Keep
  <1>3. GuardTypeOK'
    BY <1>2, GuardNextType DEF QueueInv
  <1>4. \A i \in Attempt : i # Current(t) => holds'[i] = holds[i]
    BY DEF ReleaseWindow, KeepWindow, QueueInv, GuardTypeOK
  <1>5. ASSUME NEW u \in running'
        PROVE  task'[u].tries >= 1 /\ holds'[Current(u)'].state = "open"
    <2>1. u \in running /\ u # t /\ u \in Task
      BY <1>5 DEF QueueInv, QueueShape
    <2>2. task'[u].tries = task[u].tries /\ Current(u)' = Current(u)
      BY <2>1 DEF SameTries, Current
    <2>3. Current(u) # Current(t) /\ Current(u) \in Attempt
      BY <2>1, CurrentIsAttempt DEF Current, QueueInv
    <2> QED
      BY <1>4, <2>1, <2>2, <2>3 DEF QueueInv, HoldsMatch
  <1>6. ASSUME NEW u \in Task, NEW n \in 1..MaxTries, n > task'[u].tries
        PROVE  holds'[<<u, n>>].state = "none"
    <2>1. <<u, n>> \in Attempt /\ n > task[u].tries
      BY <1>6, QueueConstants DEF SameTries
    <2>2. task[t].tries \in Nat /\ n \in Nat
      BY <1>1, QueueConstants DEF QueueInv, QueueShape, TaskRec
    <2>3. <<u, n>> # Current(t)
      BY <2>1, <2>2 DEF Current
    <2> QED
      BY <1>4, <2>1, <2>3 DEF QueueInv, HoldsMatch
  <1> QED
    BY <1>2, <1>3, <1>5, <1>6 DEF QueueInv, HoldsMatch

----------------------------------------------------------------------------
(* Dispatch                                                                  *)

LEMMA ExecuteStarts ==
    ASSUME QueueInv, Execute
    PROVE  LET t == Head(queue) n == task[t].tries + 1 IN
           /\ t \in Task /\ n \in 1..MaxTries
           /\ Start(<<t, n>>, PlatformOf[t], AccountOf[t])
           /\ <<t, n>> \in Attempt
  <1> DEFINE t == Head(queue) n == task[t].tries + 1
  <1>1. t \in Task
    BY HeadIsTask DEF Execute, QueueInv
  <1>2. n \in 1..MaxTries
    BY <1>1, QueueConstants DEF Execute, QueueInv, QueueShape, TaskRec
  <1>3. task[t].tries \in Nat
    BY <1>1, QueueConstants DEF QueueInv, QueueShape, TaskRec
  <1>4. holds[<<t, n>>].state = "none"
    BY <1>1, <1>2, <1>3 DEF QueueInv, HoldsMatch
  <1>5. <<t, n>> \in Attempt
    BY <1>1, <1>2, QueueConstants
  <1> QED
    BY <1>1, <1>2, <1>4, <1>5 DEF Execute, Start

LEMMA ExecuteStep == QueueInv /\ Execute => [GuardNext]_guardVars /\ QueueInv'
  <1> SUFFICES ASSUME QueueInv, Execute PROVE [GuardNext]_guardVars /\ QueueInv'
    OBVIOUS
  <1> DEFINE t == Head(queue) n == task[t].tries + 1
  <1>1. /\ t \in Task /\ n \in 1..MaxTries /\ <<t, n>> \in Attempt
        /\ Start(<<t, n>>, PlatformOf[t], AccountOf[t])
    BY ExecuteStarts
  <1>2. PlatformOf[t] \in Platform /\ AccountOf[t] \in Account \union {NoAccount}
    BY <1>1, QueueConstants
  <1>3. GuardNext
    BY <1>1, <1>2 DEF GuardNext
  <1>4. GuardTypeOK'
    BY <1>3, GuardNextType DEF QueueInv
  <1>5. /\ holds'[<<t, n>>].state = "open"
        /\ \A i \in Attempt : i # <<t, n>> => holds'[i] = holds[i]
    BY <1>1 DEF Start, RecordPublish, HoldFor, QueueInv, GuardTypeOK
  <1>6. /\ running' = running \union {t} /\ queue' = Tail(queue)
        /\ scan' = IF SlotFree(running') THEN scan - 1 ELSE 0
        /\ task' = [task EXCEPT ![t].status = "running", ![t].tries = n,
                                ![t].attempted = FALSE, ![t].submitted = FALSE]
    BY DEF Execute
  <1>7. task' \in [Task -> TaskRec]
    BY <1>1, <1>6 DEF QueueInv, QueueShape, TaskRec, Status
  <1>8. QueueShape'
    <2>1. Tail(queue) \in Seq(Task) /\ scan - 1 \in 0..Len(Tail(queue)) /\ Len(Tail(queue)) \in Nat
      BY HeadIsTask, LenProperties DEF Execute, QueueInv
    <2> QED
      BY <1>1, <1>6, <1>7, <2>1 DEF QueueInv, QueueShape
  <1>9. /\ task'[t].tries = n
        /\ \A u \in Task : u # t => task'[u] = task[u]
    BY <1>1, <1>6 DEF QueueInv, QueueShape, TaskRec
  <1>10. task[t].tries \in Nat /\ n \in Nat
    BY <1>1, QueueConstants DEF QueueInv, QueueShape, TaskRec
  <1>11. ASSUME NEW u \in running'
         PROVE  task'[u].tries >= 1 /\ holds'[Current(u)'].state = "open"
    <2>1. CASE u = t
      <3>1. Current(u)' = <<t, n>>
        BY <1>9, <2>1 DEF Current
      <3> QED
        BY <1>1, <1>5, <1>9, <2>1, <3>1
    <2>2. CASE u # t
      <3>1. u \in running /\ u \in Task
        BY <1>6, <1>11, <2>2 DEF QueueInv, QueueShape
      <3>2. task'[u] = task[u] /\ Current(u)' = Current(u)
        BY <1>9, <2>2, <3>1 DEF Current
      <3>3. Current(u) # <<t, n>> /\ Current(u) \in Attempt
        BY <2>2, <3>1, CurrentIsAttempt DEF Current, QueueInv
      <3> QED
        BY <1>5, <3>1, <3>2, <3>3 DEF QueueInv, HoldsMatch
    <2> QED
      BY <2>1, <2>2
  <1>12. ASSUME NEW u \in Task, NEW m \in 1..MaxTries, m > task'[u].tries
         PROVE  holds'[<<u, m>>].state = "none"
    <2>1. <<u, m>> \in Attempt /\ <<u, m>> # <<t, n>> /\ m > task[u].tries
      BY <1>9, <1>10, <1>12, QueueConstants
    <2> QED
      BY <1>5, <2>1 DEF QueueInv, HoldsMatch
  <1> QED
    BY <1>3, <1>4, <1>8, <1>11, <1>12 DEF QueueInv, HoldsMatch

----------------------------------------------------------------------------
(* The executor's answers and the timeout                                    *)

(* What a change of status, counter or mark keeps of a task.                 *)
LEMMA MarkedTaskType ==
    ASSUME NEW r \in TaskRec, NEW s \in Status
    PROVE  LET done == [r EXCEPT !.status = s, !.attempted = TRUE, !.submitted = TRUE]
               seen == [r EXCEPT !.attempted = TRUE, !.submitted = TRUE] IN
           /\ done \in TaskRec /\ done.tries = r.tries
           /\ seen \in TaskRec /\ seen.tries = r.tries
  BY DEF TaskRec

LEMMA FailureStep ==
    ASSUME QueueInv, NEW t \in running, NEW attempted \in BOOLEAN,
           NEW notSent \in BOOLEAN, NEW noRetry \in BOOLEAN, Failure(t, attempted, notSent, noRetry)
    PROVE  [GuardNext]_guardVars /\ QueueInv'
  <1> DEFINE again == ~noRetry /\ task[t].left > 0
             l == IF again THEN task[t].left - 1 ELSE task[t].left
             s == IF again THEN "pending" ELSE "failed"
             back == RollsBack(t, attempted, notSent)
             r == [task[t] EXCEPT !.attempted = attempted, !.status = s, !.left = l]
  <1>1. t \in Task /\ task \in [Task -> TaskRec] /\ queue \in Seq(Task)
    BY DEF QueueInv, QueueShape
  <1>2. /\ IF back THEN ReleaseWindow(Current(t)) ELSE KeepWindow(Current(t))
        /\ task' = [task EXCEPT ![t] = r]
        /\ queue' = IF again /\ ~back THEN Append(queue, t) ELSE queue
        /\ running' = running \ {t}
        /\ scan' = Kick(queue', running', paused)
    BY <1>1 DEF Failure
  <1>3. r \in TaskRec /\ r.tries = task[t].tries
    <2>1. task[t] \in TaskRec /\ s \in Status
      BY <1>1 DEF Status
    <2>2. task[t].left \in 0..Retry + 1 /\ Retry \in Nat
      BY <2>1, QueueConstants DEF TaskRec
    <2>3. l \in 0..Retry + 1
      <3>1. l = task[t].left \/ (task[t].left > 0 /\ l = task[t].left - 1)
        OBVIOUS
      <3> HIDE DEF l
      <3> QED
        BY <2>2, <3>1
    <2> HIDE DEF again, s, l
    <2> QED
      BY <2>1, <2>3 DEF TaskRec
  <1> HIDE DEF again, l, s, back, r
  <1>4. queue' \in Seq(Task)
    BY <1>1, <1>2, AppendProperties
  <1>5. QueueShape'
    BY <1>1, <1>2, <1>3, <1>4, KickInQueue DEF QueueInv, QueueShape
  <1>6. SameTries
    BY <1>1, <1>2, <1>3 DEF SameTries
  <1> QED
    BY <1>2, <1>5, <1>6, SettleStep

LEMMA SuccessStep ==
    ASSUME QueueInv, NEW t \in running, Success(t)
    PROVE  [GuardNext]_guardVars /\ QueueInv'
  <1>1. t \in Task /\ task \in [Task -> TaskRec] /\ queue \in Seq(Task)
    BY DEF QueueInv, QueueShape
  <1> DEFINE r == [task[t] EXCEPT !.status = "success",
                                  !.attempted = TRUE, !.submitted = TRUE]
  <1>2. /\ KeepWindow(Current(t)) /\ queue' = queue /\ running' = running \ {t}
        /\ task' = [task EXCEPT ![t] = r]
        /\ scan' = Kick(queue, running', paused)
    BY <1>1 DEF Success
  <1>3. r \in TaskRec /\ r.tries = task[t].tries
    BY <1>1, MarkedTaskType DEF Status
  <1> HIDE DEF r
  <1>4. task' \in [Task -> TaskRec] /\ SameTries
    BY <1>1, <1>2, <1>3 DEF SameTries
  <1>5. QueueShape'
    BY <1>1, <1>2, <1>4, KickInQueue DEF QueueInv, QueueShape
  <1> QED
    BY <1>2, <1>5, <1>4, SettleStep

(* An answer nobody waits for changes marks of a task at most.               *)
LEMMA LateAnswerStep ==
    ASSUME QueueInv, task' \in [Task -> TaskRec], SameTries,
           UNCHANGED <<guardVars, placeVars, scan>>
    PROVE  [GuardNext]_guardVars /\ QueueInv'
  <1>1. UNCHANGED guardVars /\ queue' = queue /\ running' = running /\ scan' = scan
    BY DEF placeVars
  <1>2. QueueShape'
    BY <1>1 DEF QueueInv, QueueShape
  <1> QED
    BY <1>1, <1>2, QuietStep

LEMMA ReturnsStep ==
    ASSUME QueueInv, NEW e, ExecutorReturns(e)
    PROVE  [GuardNext]_guardVars /\ QueueInv'
  <1>1. CASE Awaited(e)
    BY <1>1, SuccessStep DEF ExecutorReturns, Awaited
  <1>2. CASE ~Awaited(e)
    <2>1. UNCHANGED <<guardVars, placeVars, scan>>
      BY <1>2 DEF ExecutorReturns
    <2>2. task' = IF e.task \in running
                  THEN [task EXCEPT ![e.task].attempted = TRUE, ![e.task].submitted = TRUE]
                  ELSE task
      BY <1>2 DEF ExecutorReturns
    <2>3. task' \in [Task -> TaskRec] /\ SameTries
      <3> DEFINE r == [task[e.task] EXCEPT !.attempted = TRUE, !.submitted = TRUE]
      <3>1. task \in [Task -> TaskRec] /\ running \subseteq Task
        BY DEF QueueInv, QueueShape
      <3>2. e.task \in Task => r \in TaskRec /\ r.tries = task[e.task].tries
        BY <3>1, "new" \in Status, MarkedTaskType DEF Status
      <3>3. task' = IF e.task \in running THEN [task EXCEPT ![e.task] = r] ELSE task
        BY <2>2, <3>1
      <3> HIDE DEF r
      <3> QED
        BY <3>1, <3>2, <3>3 DEF SameTries
    <2> QED
      BY <2>1, <2>3, LateAnswerStep
  <1> QED
    BY <1>1, <1>2

LEMMA ThrowsStep ==
    ASSUME QueueInv, NEW e, NEW notSent \in BOOLEAN, NEW noRetry \in BOOLEAN,
           ExecutorThrows(e, notSent, noRetry)
    PROVE  [GuardNext]_guardVars /\ QueueInv'
  <1>1. CASE Awaited(e)
    <2>1. e.task \in running /\ (task[e.task].attempted \/ ~notSent) \in BOOLEAN
      BY <1>1 DEF Awaited
    <2>2. Failure(e.task, task[e.task].attempted \/ ~notSent, notSent, noRetry)
      BY <1>1 DEF ExecutorThrows
    <2> QED
      BY <2>1, <2>2, FailureStep
  <1>2. CASE ~Awaited(e)
    <2>1. UNCHANGED <<guardVars, placeVars, scan>>
      BY <1>2 DEF ExecutorThrows
    <2>2. task' = IF e.task \in running /\ ~notSent
                  THEN [task EXCEPT ![e.task].attempted = TRUE] ELSE task
      BY <1>2 DEF ExecutorThrows
    <2>3. task' \in [Task -> TaskRec] /\ SameTries
      <3> DEFINE r == [task[e.task] EXCEPT !.attempted = TRUE]
      <3>1. task \in [Task -> TaskRec] /\ running \subseteq Task
        BY DEF QueueInv, QueueShape
      <3>2. e.task \in Task => r \in TaskRec /\ r.tries = task[e.task].tries
        BY <3>1 DEF TaskRec
      <3>3. task' = IF e.task \in running /\ ~notSent
                    THEN [task EXCEPT ![e.task] = r] ELSE task
        BY <2>2, <3>1
      <3> HIDE DEF r
      <3> QED
        BY <3>1, <3>2, <3>3 DEF SameTries
    <2> QED
      BY <2>1, <2>3, LateAnswerStep
  <1> QED
    BY <1>1, <1>2

LEMMA RefusesStep ==
    ASSUME QueueInv, NEW e, NEW noRetry \in BOOLEAN, ExecutorRefuses(e, noRetry)
    PROVE  [GuardNext]_guardVars /\ QueueInv'
  <1>1. CASE Awaited(e)
    <2>1. e.task \in running /\ Failure(e.task, task[e.task].attempted, FALSE, noRetry)
      BY <1>1 DEF Awaited, ExecutorRefuses
    <2>2. task[e.task].attempted \in BOOLEAN
      BY <2>1 DEF QueueInv, QueueShape, TaskRec
    <2> QED
      BY <2>1, <2>2, FailureStep
  <1>2. CASE ~Awaited(e)
    <2>1. UNCHANGED <<guardVars, placeVars, scan>> /\ task' = task
      BY <1>2 DEF ExecutorRefuses
    <2>2. task' \in [Task -> TaskRec] /\ SameTries
      BY <2>1 DEF QueueInv, QueueShape, SameTries
    <2> QED
      BY <2>1, <2>2, LateAnswerStep
  <1> QED
    BY <1>1, <1>2

LEMMA TimeoutStep ==
    ASSUME QueueInv, NEW t, Timeout(t)
    PROVE  [GuardNext]_guardVars /\ QueueInv'
  <1>1. t \in running /\ Failure(t, task[t].attempted, FALSE, FALSE)
    BY DEF Timeout
  <1>2. task[t].attempted \in BOOLEAN
    BY <1>1 DEF QueueInv, QueueShape, TaskRec
  <1> QED
    BY <1>1, <1>2, FailureStep

LEMMA WriteStep ==
    ASSUME QueueInv, NEW e, PlatformWrite(e)
    PROVE  [GuardNext]_guardVars /\ QueueInv'
  <1>1. UNCHANGED <<guardVars, placeVars, scan>> /\ task' = task
    BY DEF PlatformWrite
  <1>2. task' \in [Task -> TaskRec] /\ SameTries
    BY <1>1 DEF QueueInv, QueueShape, SameTries
  <1> QED
    BY <1>1, <1>2, LateAnswerStep

----------------------------------------------------------------------------
(* The other handlers leave the attempts alone: they move tasks and mark     *)
(* them.  KickedShape: _processNext() at their end scans the new queue.      *)

KickedShape ==
    /\ queue' \in Seq(Task)
    /\ scan' = 0 \/ \E r, stopped : scan' = Kick(queue', r, stopped)

LEMMA QuietCall ==
    ASSUME QueueInv, UNCHANGED guardVars, KickedShape, running' \subseteq running,
           task' \in [Task -> TaskRec], SameTries
    PROVE  [GuardNext]_guardVars /\ QueueInv'
  <1>1. scan' \in 0..Len(queue')
    BY KickInQueue, LenProperties DEF KickedShape
  <1>2. QueueShape'
    BY <1>1 DEF KickedShape, QueueInv, QueueShape
  <1> QED
    BY <1>2, QuietStep

LEMMA SameTask ==
    ASSUME QueueInv, task' = task
    PROVE  task' \in [Task -> TaskRec] /\ SameTries
  BY DEF QueueInv, QueueShape, SameTries

(* A new status for a set of tasks.                                          *)
LEMMA RestatedTasks ==
    ASSUME QueueInv, NEW S, NEW s \in Status,
           task' = [t \in Task |-> IF t \in S THEN [task[t] EXCEPT !.status = s] ELSE task[t]]
    PROVE  task' \in [Task -> TaskRec] /\ SameTries
  <1>1. \A t \in Task : task[t] \in TaskRec
    BY DEF QueueInv, QueueShape
  <1>2. \A t \in Task : /\ [task[t] EXCEPT !.status = s] \in TaskRec
                        /\ [task[t] EXCEPT !.status = s].tries = task[t].tries
    BY <1>1 DEF TaskRec
  <1> QED
    BY <1>1, <1>2 DEF SameTries

(* A task entered in the queue, by add() or by the retry of another.         *)
LEMMA PendingTaskType ==
    ASSUME QueueInv, NEW u \in Task
    PROVE  LET r == [task[u] EXCEPT !.status = "pending", !.left = Retry] IN
           r \in TaskRec /\ r.tries = task[u].tries
  <1>1. task[u] \in TaskRec /\ Retry \in 0..Retry + 1 /\ "pending" \in Status
    BY QueueConstants DEF QueueInv, QueueShape, Status
  <1> QED
    BY <1>1 DEF TaskRec

LEMMA AddStep ==
    ASSUME QueueInv, NEW t \in Task, Add(t)
    PROVE  [GuardNext]_guardVars /\ QueueInv'
  <1> DEFINE r == [task[t] EXCEPT !.status = "pending", !.left = Retry]
  <1>1. queue \in Seq(Task) /\ task \in [Task -> TaskRec]
    BY DEF QueueInv, QueueShape
  <1>2. /\ UNCHANGED guardVars /\ running' = running
        /\ queue' = Append(queue, t) /\ scan' = Kick(queue', running, paused)
        /\ task' = [task EXCEPT ![t] = r]
    BY <1>1 DEF Add
  <1>3. r \in TaskRec /\ r.tries = task[t].tries
    BY PendingTaskType
  <1> HIDE DEF r
  <1>4. task' \in [Task -> TaskRec] /\ SameTries
    BY <1>1, <1>2, <1>3 DEF SameTries
  <1>5. KickedShape
    BY <1>1, <1>2, AppendProperties DEF KickedShape
  <1> QED
    BY <1>2, <1>4, <1>5, QuietCall

LEMMA ManualRetryStep ==
    ASSUME QueueInv, NEW t \in Task, NEW u \in Task, ManualRetry(t, u)
    PROVE  [GuardNext]_guardVars /\ QueueInv'
  <1> DEFINE r == [task[u] EXCEPT !.status = "pending", !.left = Retry]
             f == [task[t] EXCEPT !.retriedAs = u]
  <1>1. queue \in Seq(Task) /\ task \in [Task -> TaskRec] /\ t # u
    BY DEF QueueInv, QueueShape, ManualRetry
  <1>2. /\ UNCHANGED guardVars /\ running' = running
        /\ queue' = Append(queue, u) /\ scan' = Kick(queue', running, paused)
        /\ task' = [task EXCEPT ![u] = r, ![t] = f]
    BY <1>1 DEF ManualRetry
  <1>3. r \in TaskRec /\ r.tries = task[u].tries
    BY PendingTaskType
  <1>4. f \in TaskRec /\ f.tries = task[t].tries
    BY <1>1 DEF TaskRec
  <1> HIDE DEF r, f
  <1>5. task' \in [Task -> TaskRec] /\ SameTries
    BY <1>1, <1>2, <1>3, <1>4 DEF SameTries
  <1>6. KickedShape
    BY <1>1, <1>2, AppendProperties DEF KickedShape
  <1> QED
    BY <1>2, <1>5, <1>6, QuietCall

LEMMA DelayOverStep ==
    ASSUME QueueInv, NEW t \in Task, DelayOver(t) \/ GraceOver(t)
    PROVE  [GuardNext]_guardVars /\ QueueInv'
  <1>1. /\ UNCHANGED guardVars /\ running' = running /\ task' = task
        /\ queue' = <<t>> \o queue /\ scan' = Kick(queue', running, paused)
    BY DEF DelayOver, GraceOver
  <1>2. KickedShape
    BY <1>1, PutFirst DEF KickedShape, QueueInv, QueueShape
  <1> QED
    BY <1>1, <1>2, SameTask, QuietCall

LEMMA CancelWaitingStep ==
    ASSUME QueueInv, NEW t \in Task, CancelWaiting(t)
    PROVE  [GuardNext]_guardVars /\ QueueInv'
  <1>1. /\ UNCHANGED guardVars /\ running' = running /\ scan' = scan /\ scan = 0
        /\ task' = [task EXCEPT ![t].status = "cancelled"]
        /\ queue' = queue \/ (t \in ToSet(queue) /\ queue' = Without(queue, t))
    BY DEF CancelWaiting, Idle
  <1>2. KickedShape
    BY <1>1, WithoutSeq DEF KickedShape, QueueInv, QueueShape
  <1>3. task' = [u \in Task |-> IF u \in {t} THEN [task[u] EXCEPT !.status = "cancelled"]
                                           ELSE task[u]]
    BY <1>1 DEF QueueInv, QueueShape
  <1>4. task' \in [Task -> TaskRec] /\ SameTries
    BY <1>3, RestatedTasks, "cancelled" \in Status DEF Status
  <1> QED
    BY <1>1, <1>2, <1>4, QuietCall

LEMMA CancelRunningStep ==
    ASSUME QueueInv, NEW t \in Task, CancelRunning(t)
    PROVE  [GuardNext]_guardVars /\ QueueInv'
  <1>1. /\ UNCHANGED guardVars /\ running' = running \ {t} /\ queue' = queue
        /\ task' = [task EXCEPT ![t].status = "cancelled"]
        /\ scan' = Kick(queue, running', paused)
    BY DEF CancelRunning
  <1>2. KickedShape
    BY <1>1 DEF KickedShape, QueueInv, QueueShape
  <1>3. task' = [u \in Task |-> IF u \in {t} THEN [task[u] EXCEPT !.status = "cancelled"]
                                           ELSE task[u]]
    BY <1>1 DEF QueueInv, QueueShape
  <1>4. task' \in [Task -> TaskRec] /\ SameTries
    BY <1>3, RestatedTasks, "cancelled" \in Status DEF Status
  <1> QED
    BY <1>1, <1>2, <1>4, QuietCall

LEMMA ClearPendingStep == QueueInv /\ ClearPending => [GuardNext]_guardVars /\ QueueInv'
  <1> SUFFICES ASSUME QueueInv, ClearPending PROVE [GuardNext]_guardVars /\ QueueInv'
    OBVIOUS
  <1> DEFINE cleared == {t \in ToSet(queue) \union delayed : Owned(t)}
  <1>1. /\ UNCHANGED guardVars /\ running' = running /\ scan' = scan /\ scan = 0
        /\ queue' \in SeqOf(Task, Len(queue))
        /\ task' = [t \in Task |-> IF t \in cleared THEN [task[t] EXCEPT !.status = "removed"]
                                                   ELSE task[t]]
    BY DEF ClearPending, Idle
  <1>2. queue' \in Seq(Task)
    BY <1>1, BoundedSeqIsSeq, LenProperties DEF QueueInv, QueueShape
  <1>3. KickedShape
    BY <1>1, <1>2 DEF KickedShape
  <1> HIDE DEF cleared
  <1>4. task' \in [Task -> TaskRec] /\ SameTries
    BY <1>1, RestatedTasks, "removed" \in Status DEF Status
  <1> QED
    BY <1>1, <1>3, <1>4, QuietCall

LEMMA SwitchOwnerStep ==
    ASSUME QueueInv, NEW o, SwitchOwner(o)
    PROVE  [GuardNext]_guardVars /\ QueueInv'
  <1>1. /\ UNCHANGED guardVars /\ running' = running \ Foreign(o) /\ queue' = queue
        /\ task' = [t \in Task |-> IF t \in Foreign(o) THEN [task[t] EXCEPT !.status = "cancelled"]
                                                      ELSE task[t]]
        /\ scan' = Kick(queue, running', paused)
    BY DEF SwitchOwner
  <1>2. KickedShape
    BY <1>1 DEF KickedShape, QueueInv, QueueShape
  <1>3. task' \in [Task -> TaskRec] /\ SameTries
    BY <1>1, RestatedTasks, "cancelled" \in Status DEF Status
  <1> QED
    BY <1>1, <1>2, <1>3, QuietCall

LEMMA ShutdownStep == QueueInv /\ Shutdown => [GuardNext]_guardVars /\ QueueInv'
  <1> SUFFICES ASSUME QueueInv, Shutdown PROVE [GuardNext]_guardVars /\ QueueInv'
    OBVIOUS
  <1> DEFINE dropped == ToSet(queue) \union delayed \union running
  <1>1. /\ UNCHANGED guardVars /\ running' = {} /\ scan' = scan /\ scan = 0 /\ queue' = <<>>
        /\ task' = [t \in Task |-> IF t \in dropped THEN [task[t] EXCEPT !.status = "cancelled"]
                                                   ELSE task[t]]
    BY DEF Shutdown, Idle
  <1>2. KickedShape
    BY <1>1, EmptySeq DEF KickedShape
  <1> HIDE DEF dropped
  <1>3. task' \in [Task -> TaskRec] /\ SameTries
    BY <1>1, RestatedTasks, "cancelled" \in Status DEF Status
  <1> QED
    BY <1>1, <1>2, <1>3, QuietCall

(* pause(), resume() and the settings page's button for the rollbacks.       *)
LEMMA ModeStep ==
    ASSUME QueueInv, NEW p, Pause \/ Resume \/ ClearRollbackDisabled(p)
    PROVE  [GuardNext]_guardVars /\ QueueInv'
  <1>1. /\ UNCHANGED guardVars /\ running' = running /\ task' = task /\ queue' = queue
        /\ scan' = 0 \/ scan' = Kick(queue, running, FALSE)
    BY DEF Pause, Resume, ClearRollbackDisabled, placeVars, Idle
  <1>2. KickedShape
    BY <1>1 DEF KickedShape, QueueInv, QueueShape
  <1> QED
    BY <1>1, <1>2, SameTask, QuietCall

----------------------------------------------------------------------------
(* emergencyRelease() and the clock                                          *)

(* Steps of the guard that settle nothing.                                   *)
LEMMA UnsettledStep ==
    ASSUME QueueInv, GuardNext, QueueShape', running' = running, task' = task,
           \A i \in Attempt : holds'[i].state = holds[i].state
    PROVE  [GuardNext]_guardVars /\ QueueInv'
  <1>1. GuardTypeOK'
    BY GuardNextType DEF QueueInv
  <1>2. ASSUME NEW t \in running'
        PROVE  task'[t].tries >= 1 /\ holds'[Current(t)'].state = "open"
    <2>1. t \in running /\ Current(t)' = Current(t)
      BY <1>2 DEF Current
    <2>2. Current(t) \in Attempt
      BY <2>1, CurrentIsAttempt DEF QueueInv
    <2> QED
      BY <2>1, <2>2 DEF QueueInv, HoldsMatch
  <1>3. ASSUME NEW t \in Task, NEW n \in 1..MaxTries, n > task'[t].tries
        PROVE  holds'[<<t, n>>].state = "none"
    <2>1. <<t, n>> \in Attempt
      BY QueueConstants
    <2> QED
      BY <1>3, <2>1 DEF QueueInv, HoldsMatch
  <1> QED
    BY <1>1, <1>2, <1>3 DEF QueueInv, HoldsMatch

LEMMA ClearKeepsStates ==
    ASSUME GuardTypeOK, NEW p, NEW a, ClearWindow(p, a), NEW i \in Attempt
    PROVE  holds'[i].state = holds[i].state
  <1>1. CASE holds[i].state = "none" \/ holds[i].platform # p
    BY <1>1 DEF ClearWindow
  <1>2. CASE ~(holds[i].state = "none" \/ holds[i].platform # p)
    <2>1. holds[i] \in Hold
      BY <1>2, OpenIsHold
    <2>2. holds'[i] = [holds[i] EXCEPT !.onPlatform = FALSE,
                                       !.onAccount = @ /\ holds[i].account # a]
      BY <1>2 DEF ClearWindow
    <2> QED
      BY <2>1, <2>2 DEF Hold
  <1> QED
    BY <1>1, <1>2

LEMMA EmergencyReleaseStep ==
    ASSUME QueueInv, NEW t \in Task, EmergencyRelease(t)
    PROVE  [GuardNext]_guardVars /\ QueueInv'
  <1>1. /\ running' = running /\ task' = task
        /\ queue' = <<t>> \o queue /\ scan' = Kick(queue', running, paused)
    BY DEF EmergencyRelease
  <1>2. KickedShape
    BY <1>1, PutFirst DEF KickedShape, QueueInv, QueueShape
  <1>3. CASE UNCHANGED guardVars
    BY <1>1, <1>2, <1>3, SameTask, QuietCall
  <1>4. CASE \E p \in OwnView(PlatformName(t)) : EmergencyClear(p, AccountOf[t])
    <2>1. PICK p \in Platform : EmergencyClear(p, AccountOf[t])
      BY <1>4 DEF OwnView
    <2>2. AccountOf[t] \in Account \union {NoAccount}
      BY QueueConstants
    <2>3. GuardNext
      BY <2>1, <2>2 DEF GuardNext
    <2>4. \A i \in Attempt : holds'[i].state = holds[i].state
      BY <2>1, ClearKeepsStates DEF EmergencyClear, QueueInv
    <2>5. QueueShape'
      BY <1>1, <1>2, KickInQueue DEF KickedShape, QueueInv, QueueShape
    <2> QED
      BY <1>1, <2>3, <2>4, <2>5, UnsettledStep
  <1> QED
    BY <1>3, <1>4 DEF EmergencyRelease

LEMMA ClockStep == QueueInv /\ Clock => [GuardNext]_guardVars /\ QueueInv'
  <1> SUFFICES ASSUME QueueInv, Clock PROVE [GuardNext]_guardVars /\ QueueInv'
    OBVIOUS
  <1>1. /\ running' = running /\ task' = task /\ queue' = queue /\ scan' = scan
        /\ GuardNext /\ holds' = holds
    BY DEF Clock, queueVars, placeVars, GuardNext, Tick, Midnight
  <1>2. QueueShape'
    BY <1>1 DEF QueueInv, QueueShape
  <1> QED
    BY <1>1, <1>2, UnsettledStep

----------------------------------------------------------------------------
(* The theorems                                                              *)

LEMMA QueueInitInv == Init => GuardInit /\ QueueInv
  <1> SUFFICES ASSUME Init PROVE GuardInit /\ QueueInv
    OBVIOUS
  <1>1. GuardInit /\ GuardTypeOK
    BY GuardInitType DEF Init
  <1>2. queue \in Seq(Task) /\ Len(queue) = 0 /\ scan = 0 /\ running = {}
    BY EmptySeq DEF Init
  <1>3. \A t \in Task : task[t] \in TaskRec
    BY QueueConstants DEF Init, TaskRec, Status
  <1>4. task \in [Task -> TaskRec]
    BY <1>3 DEF Init
  <1>5. \A i \in Attempt : holds[i].state = "none"
    BY <1>1 DEF GuardInit, NoHold
  <1>6. HoldsMatch
    BY <1>2, <1>5, QueueConstants DEF HoldsMatch
  <1> QED
    BY <1>1, <1>2, <1>4, <1>6 DEF QueueInv, QueueShape

LEMMA QueueNextInv == QueueInv /\ [Next]_vars => [GuardNext]_guardVars /\ QueueInv'
  <1> SUFFICES ASSUME QueueInv, [Next]_vars PROVE [GuardNext]_guardVars /\ QueueInv'
    OBVIOUS
  <1>1. CASE ProcessNext
    BY <1>1, SkipStep, PostponeStep, ExecuteStep DEF ProcessNext
  <1>2. CASE Timers
    BY <1>2, DelayOverStep, TimeoutStep DEF Timers
  <1>3. CASE Executors
    BY <1>3, WriteStep, ReturnsStep, RefusesStep, ThrowsStep DEF Executors
  <1>4. CASE Calls
    BY <1>4, AddStep, CancelWaitingStep, CancelRunningStep, EmergencyReleaseStep,
       ManualRetryStep, ClearPendingStep, ModeStep, ShutdownStep, SwitchOwnerStep DEF Calls
  <1>5. CASE Clock
    BY <1>5, ClockStep
  <1>6. CASE UNCHANGED vars
    <2>1. /\ UNCHANGED guardVars /\ running' = running /\ task' = task
          /\ queue' = queue /\ scan' = scan
      BY <1>6 DEF vars, queueVars, placeVars
    <2>2. QueueShape'
      BY <2>1 DEF QueueInv, QueueShape
    <2> QED
      BY <2>1, <2>2, SameTask, QuietStep
  <1> QED
    BY <1>1, <1>2, <1>3, <1>4, <1>5, <1>6 DEF Next

(* Every behaviour of the queue is, for the windows, counts and holds, a     *)
(* behaviour of the guard's specification: task-queue.js books an attempt    *)
(* only when check() allows it, books each attempt once, and rolls back or   *)
(* keeps it once, whatever answers, timeouts, cancellations, switches and    *)
(* retries happen in between.                                                *)
THEOREM QueueRefinesGuard == Spec => GuardSpec
  <1> QED
    BY QueueInitInv, QueueNextInv, PTL DEF Spec, GuardSpec

(* A task in flight has an unsettled hold, in every state of the queue, so   *)
(* that _maybeRollback() works on the attempt it is about.                   *)
THEOREM QueueHoldsMatch == Spec => []HoldsMatch
  <1>1. QueueInv => HoldsMatch
    BY DEF QueueInv
  <1> QED
    BY <1>1, QueueInitInv, QueueNextInv, PTL DEF Spec

(* The queue keeps the account interval between any two attempts of an       *)
(* account that were not rolled back.                                        *)
THEOREM QueueAccountSpacing == Spec => []AccountSpacing
  <1> QED
    BY QueueRefinesGuard, GuardAccountSpacing, PTL

(* And the platform interval between any two attempts of a platform.         *)
THEOREM QueuePlatformSpacing == Spec => []PlatformSpacing
  <1> QED
    BY QueueRefinesGuard, GuardPlatformSpacing, PTL

(* Retries after rollbacks never book an account more often on a day than    *)
(* its quota, where the platform has an interval.                            *)
THEOREM QueueQuotaBound == Spec => []QuotaBound
  <1> QED
    BY QueueRefinesGuard, GuardQuotaBound, PTL

(* And never attempt more than the quota and the cap on rollbacks allow.     *)
THEOREM QueueAttemptsBounded == Spec => []AttemptsBounded
  <1> QED
    BY QueueRefinesGuard, GuardAttemptsBounded, PTL

----------------------------------------------------------------------------
(* Slots, channels and owners                                                *)

(* The loop inspects a task only while a slot is free.                       *)
SerialInv ==
    /\ IsFiniteSet(running)
    /\ scan > 0 => SlotFree(running)
    /\ ChannelSerial
    /\ RunningOwned

(* What every step but a dispatch does to the tasks in flight: it takes some *)
(* out at most, starts the loop only if a slot is free, and drops the tasks  *)
(* of a user who left.                                                       *)
Thinned ==
    /\ running' \subseteq running
    /\ \/ scan' = 0
       \/ running' = running /\ (scan' = scan \/ scan > 0)
       \/ \E q, stopped : scan' = Kick(q, running', stopped)
    /\ owner' = owner \/ running' = running \ Foreign(owner')

LEMMA ThinnedStep == QueueShape /\ SerialInv /\ Thinned => SerialInv'
  <1> SUFFICES ASSUME QueueShape, SerialInv, Thinned PROVE SerialInv'
    OBVIOUS
  <1>1. IsFiniteSet(running') /\ Cardinality(running') <= Cardinality(running)
    BY FS_Subset DEF SerialInv, Thinned
  <1>2. Cardinality(running') \in Nat /\ Cardinality(running) \in Nat /\ MaxConcurrent \in Nat
    BY <1>1, FS_CardinalityType, QueueConstants DEF SerialInv
  <1>3. scan' > 0 => SlotFree(running')
    BY DEF Thinned, SerialInv, Kick
  <1>4. ChannelSerial'
    BY <1>1, <1>2 DEF Thinned, SerialInv, ChannelSerial, Channel, PlatformName
  <1>5. RunningOwned'
    BY DEF Thinned, SerialInv, RunningOwned, Owned, Foreign
  <1> QED
    BY <1>1, <1>3, <1>4, <1>5 DEF SerialInv

LEMMA DispatchSerial == QueueInv /\ SerialInv /\ Execute => SerialInv'
  <1> SUFFICES ASSUME QueueInv, SerialInv, Execute PROVE SerialInv'
    OBVIOUS
  <1> DEFINE t == Head(queue)
  <1>1. /\ running' = running \union {t} /\ owner' = owner
        /\ scan' = IF SlotFree(running') THEN scan - 1 ELSE 0
        /\ scan > 0 /\ Eligible(t)
    BY DEF Execute, modeVars, Scanning
  <1> HIDE DEF t
  <1>2. /\ IsFiniteSet(running') /\ Cardinality(running) \in Nat
        /\ Cardinality(running') \in {Cardinality(running), Cardinality(running) + 1}
    BY <1>1, FS_AddElement, FS_CardinalityType DEF SerialInv
  <1>3. Cardinality(running) < MaxConcurrent /\ MaxConcurrent \in Nat
    BY <1>1, QueueConstants DEF SerialInv, SlotFree
  <1>4. Cardinality(running') <= MaxConcurrent
    BY <1>2, <1>3
  <1>5. ChannelSerial'
    BY <1>1, <1>4 DEF SerialInv, ChannelSerial, Channel, PlatformName, Eligible, ChannelFree
  <1>6. RunningOwned'
    BY <1>1 DEF SerialInv, RunningOwned, Owned, Eligible
  <1>7. scan' > 0 => SlotFree(running')
    BY <1>1
  <1> QED
    BY <1>2, <1>5, <1>6, <1>7 DEF SerialInv

LEMMA OthersThin == [Next]_vars /\ ~Execute => Thinned
  <1> SUFFICES ASSUME [Next]_vars, ~Execute PROVE Thinned
    OBVIOUS
  <1> USE DEF Idle, modeVars, placeVars
  <1>1. CASE Skip \/ Postpone
    BY <1>1 DEF Skip, Postpone, Scanning, Thinned
  <1>2. ASSUME NEW t, DelayOver(t) \/ GraceOver(t) PROVE Thinned
    BY <1>2 DEF DelayOver, GraceOver, Thinned
  <1>3. ASSUME NEW t, NEW a, NEW n, NEW r, Failure(t, a, n, r) PROVE Thinned
    BY <1>3 DEF Failure, Thinned
  <1>4. ASSUME NEW t, Timeout(t) PROVE Thinned
    BY <1>3, <1>4 DEF Timeout
  <1>5. ASSUME NEW e, PlatformWrite(e) PROVE Thinned
    BY <1>5 DEF PlatformWrite, Thinned
  <1>6. ASSUME NEW e, ExecutorReturns(e) PROVE Thinned
    BY <1>6 DEF ExecutorReturns, Success, Thinned
  <1>7. ASSUME NEW e, NEW n, NEW r, ExecutorThrows(e, n, r) PROVE Thinned
    BY <1>3, <1>7 DEF ExecutorThrows, Thinned
  <1>8. ASSUME NEW e, NEW r, ExecutorRefuses(e, r) PROVE Thinned
    BY <1>3, <1>8 DEF ExecutorRefuses, Thinned
  <1>9. ASSUME NEW t, NEW u, Add(t) \/ ManualRetry(t, u) PROVE Thinned
    BY <1>9 DEF Add, ManualRetry, Thinned
  <1>10. ASSUME NEW t, CancelWaiting(t) \/ CancelRunning(t) \/ EmergencyRelease(t) PROVE Thinned
    BY <1>10 DEF CancelWaiting, CancelRunning, EmergencyRelease, Thinned
  <1>11. ASSUME NEW p, ClearPending \/ Pause \/ Resume \/ ClearRollbackDisabled(p) PROVE Thinned
    BY <1>11 DEF ClearPending, Pause, Resume, ClearRollbackDisabled, Thinned
  <1>12. CASE Shutdown
    BY <1>12 DEF Shutdown, Thinned
  <1>13. ASSUME NEW o, SwitchOwner(o) PROVE Thinned
    BY <1>13 DEF SwitchOwner, Thinned
  <1>14. CASE Clock \/ UNCHANGED vars
    BY <1>14 DEF Clock, vars, queueVars, Thinned
  <1> QED
    BY <1>1, <1>2, <1>4, <1>5, <1>6, <1>7, <1>8, <1>9, <1>10, <1>11, <1>12, <1>13, <1>14
    DEF Next, ProcessNext, Timers, Executors, Calls

LEMMA SerialInit == Init => SerialInv
  BY FS_EmptySet, QueueConstants DEF Init, SerialInv, ChannelSerial, RunningOwned

LEMMA SerialNext == QueueInv /\ SerialInv /\ [Next]_vars => SerialInv'
  BY DispatchSerial, OthersThin, ThinnedStep DEF QueueInv

(* Never more tasks in flight than slots and never two of one channel: the   *)
(* checks of _processNext() are enough, whatever moves tasks around it.      *)
THEOREM QueueChannelSerial == Spec => []ChannelSerial
  <1>1. SerialInv => ChannelSerial
    BY DEF SerialInv
  <1> QED
    BY <1>1, QueueInitInv, QueueNextInv, SerialInit, SerialNext, PTL DEF Spec

(* A task in flight belongs to the user logged in, through every login,      *)
(* logout and switch (setOwnerSubjectProvider() cancels the others').        *)
THEOREM QueueRunningOwned == Spec => []RunningOwned
  <1>1. SerialInv => RunningOwned
    BY DEF SerialInv
  <1> QED
    BY <1>1, QueueInitInv, QueueNextInv, SerialInit, SerialNext, PTL DEF Spec

----------------------------------------------------------------------------
(* The window of an attempt that wrote to the platform is given back only if *)
(* the attempt had timed out: _maybeRollback() decides from the marks the    *)
(* executor left on the task, and an executor may outlive the attempt.       *)

IdOf(e) == <<e.task, e.n>>

(* An attempt has one executor at most, which has written exactly if its     *)
(* stage says so, and only attempts already dispatched have written.         *)
ExecShape ==
    /\ execs \subseteq [task : Task, n : 1..MaxTries, stage : Stage]
    /\ \A e \in execs : e.n <= task[e.task].tries
    /\ \A e, f \in execs : IdOf(e) = IdOf(f) => e = f
    /\ \A e \in execs : e.stage # "wrote" => IdOf(e) \notin sent
    /\ sent \subseteq Attempt
    /\ \A t \in Task, n \in 1..MaxTries : <<t, n>> \in sent => n <= task[t].tries

(* An attempt rolled back for another reason than its timeout has not        *)
(* written, and no executor is left that could.                              *)
Unsent(i) == i \notin sent /\ \A e \in execs : IdOf(e) # i

ReleasedUnsent ==
    \A i \in Attempt \ expired : holds[i].state = "released" => Unsent(i)

ExecInv == ExecShape /\ ReleasedUnsent

----------------------------------------------------------------------------
(* What every step but a dispatch and a platform write does to the           *)
(* executors: it ends some at most, and gives back no window but of an       *)
(* attempt it has counted as timed out or that has not written and cannot.   *)
Settles ==
    /\ SameTries /\ execs' \subseteq execs /\ sent' = sent /\ expired \subseteq expired'
    /\ \A i \in Attempt \ expired' :
          holds'[i].state = "released" => holds[i].state = "released" \/ Unsent(i)'

LEMMA SettlesStep == ExecInv /\ Settles => ExecInv'
  <1> SUFFICES ASSUME ExecInv, Settles PROVE ExecInv'
    OBVIOUS
  <1>1. \A e \in execs' : e \in execs /\ e.task \in Task
    BY DEF ExecInv, ExecShape, Settles
  <1>2. \A e \in execs' : e.n <= task'[e.task].tries
    BY <1>1 DEF ExecInv, ExecShape, Settles, SameTries
  <1>3. ExecShape'
    BY <1>1, <1>2 DEF ExecInv, ExecShape, Settles, SameTries, IdOf
  <1>4. ASSUME NEW i \in Attempt \ expired', holds'[i].state = "released"
        PROVE  Unsent(i)'
    <2>1. CASE holds[i].state = "released"
      <3>1. i \in Attempt \ expired
        BY DEF Settles
      <3>2. Unsent(i)
        BY <2>1, <3>1 DEF ExecInv, ReleasedUnsent
      <3> QED
        BY <1>1, <3>2 DEF Settles, Unsent, IdOf
    <2> QED
      BY <1>4, <2>1 DEF Settles
  <1> QED
    BY <1>3, <1>4 DEF ExecInv, ReleasedUnsent

LEMMA SameHolds ==
    ASSUME SameTries, execs' \subseteq execs, sent' = sent, expired' = expired,
           \A i \in Attempt : holds'[i].state = holds[i].state
    PROVE  Settles
  BY DEF Settles

LEMMA SameGuard ==
    ASSUME SameTries, execs' \subseteq execs, UNCHANGED histVars, UNCHANGED guardVars
    PROVE  Settles
  <1>1. holds' = holds /\ sent' = sent /\ expired' = expired
    BY DEF guardVars, histVars
  <1> QED
    BY <1>1, SameHolds

----------------------------------------------------------------------------
(* A platform write and a dispatch                                           *)

LEMMA WriteKeeps ==
    ASSUME ExecInv, NEW e, PlatformWrite(e)
    PROVE  ExecInv'
  <1> DEFINE w == [e EXCEPT !.stage = "wrote"]
  <1>1. /\ e \in execs /\ execs' = (execs \ {e}) \union {w} /\ sent' = sent \union {IdOf(e)}
        /\ task' = task /\ holds' = holds /\ expired' = expired
    BY DEF PlatformWrite, guardVars, IdOf
  <1>2. /\ e \in [task : Task, n : 1..MaxTries, stage : Stage]
        /\ w \in [task : Task, n : 1..MaxTries, stage : Stage]
        /\ w.task = e.task /\ w.n = e.n /\ w.stage = "wrote"
    BY <1>1 DEF ExecInv, ExecShape, Stage
  <1> HIDE DEF w
  <1>3. IdOf(e) \in Attempt /\ IdOf(w) = IdOf(e)
    BY <1>2, QueueConstants DEF IdOf
  <1>4. execs' \subseteq [task : Task, n : 1..MaxTries, stage : Stage]
    BY <1>1, <1>2 DEF ExecInv, ExecShape
  <1>5. \A f \in execs' : f.n <= task'[f.task].tries
    BY <1>1, <1>2 DEF ExecInv, ExecShape
  <1>6. \A f \in execs \ {e} : IdOf(f) # IdOf(e)
    BY <1>1 DEF ExecInv, ExecShape
  <1>7. \A f, g \in execs' : IdOf(f) = IdOf(g) => f = g
    BY <1>1, <1>3, <1>6 DEF ExecInv, ExecShape
  <1>8. \A f \in execs' : f.stage # "wrote" => IdOf(f) \notin sent'
    BY <1>1, <1>2, <1>6 DEF ExecInv, ExecShape
  <1>9. sent' \subseteq Attempt
    BY <1>1, <1>3 DEF ExecInv, ExecShape
  <1>10. \A t \in Task, n \in 1..MaxTries : <<t, n>> \in sent' => n <= task'[t].tries
    BY <1>1 DEF ExecInv, ExecShape, IdOf
  <1>11. ExecShape'
    BY <1>4, <1>5, <1>7, <1>8, <1>9, <1>10 DEF ExecShape, IdOf
  <1>12. ASSUME NEW i \in Attempt \ expired', holds'[i].state = "released"
         PROVE  Unsent(i)'
    <2>1. Unsent(i)
      BY <1>1, <1>12 DEF ExecInv, ReleasedUnsent
    <2>2. IdOf(e) # i
      BY <1>1, <2>1 DEF Unsent
    <2>3. i \notin sent' /\ \A f \in execs' : IdOf(f) # i
      BY <1>1, <1>3, <2>1, <2>2 DEF Unsent
    <2> QED
      BY <2>3 DEF Unsent, IdOf
  <1> QED
    BY <1>11, <1>12 DEF ExecInv, ReleasedUnsent

LEMMA DispatchKeeps == QueueInv /\ ExecInv /\ Execute => ExecInv'
  <1> SUFFICES ASSUME QueueInv, ExecInv, Execute PROVE ExecInv'
    OBVIOUS
  <1> DEFINE t == Head(queue) n == task[t].tries + 1
  <1>1. /\ t \in Task /\ n \in 1..MaxTries /\ <<t, n>> \in Attempt
        /\ Start(<<t, n>>, PlatformOf[t], AccountOf[t])
    BY ExecuteStarts
  <1>2. /\ holds'[<<t, n>>].state = "open"
        /\ \A i \in Attempt : i # <<t, n>> => holds'[i] = holds[i]
    BY <1>1 DEF Start, RecordPublish, HoldFor, QueueInv, GuardTypeOK
  <1>3. PICK s \in {"refused", "publishing"} :
            execs' = execs \union {[task |-> t, n |-> n, stage |-> s]}
    BY DEF Execute
  <1> DEFINE e == [task |-> t, n |-> n, stage |-> s]
  <1>4. /\ e \in [task : Task, n : 1..MaxTries, stage : Stage]
        /\ e.task = t /\ e.n = n /\ IdOf(e) = <<t, n>>
    BY <1>1 DEF Stage, IdOf
  <1>5. sent' = sent /\ expired' = expired /\ execs' = execs \union {e}
    BY <1>3 DEF Execute, histVars
  <1>6. task[t].tries \in Nat /\ task'[t].tries = n /\ \A u \in Task : u # t => task'[u] = task[u]
    BY <1>1, QueueConstants DEF Execute, QueueInv, QueueShape, TaskRec
  <1>7. n \in Nat /\ ~(n <= task[t].tries) /\ task[t].tries <= n
    BY <1>6
  <1> HIDE DEF t, n, e
  <1>8. \A u \in Task, m \in 1..MaxTries : m <= task[u].tries => m <= task'[u].tries
    <2>1. \A m \in 1..MaxTries : m <= task[t].tries => m <= n
      BY <1>6, <1>7, QueueConstants
    <2> QED
      BY <1>6, <2>1
  <1>9. \A f \in execs : /\ f.task \in Task /\ f.n \in 1..MaxTries
                         /\ f.n <= task[f.task].tries /\ IdOf(f) # <<t, n>>
    BY <1>7 DEF ExecInv, ExecShape, IdOf
  <1>10. <<t, n>> \notin sent
    BY <1>1, <1>7 DEF ExecInv, ExecShape
  <1>11. execs' \subseteq [task : Task, n : 1..MaxTries, stage : Stage]
    BY <1>4, <1>5 DEF ExecInv, ExecShape
  <1>12. \A f \in execs' : f.n <= task'[f.task].tries
    <2>1. e.n <= task'[e.task].tries
      BY <1>4, <1>6, <1>7
    <2> QED
      BY <1>5, <1>8, <1>9, <2>1
  <1>13. \A f, g \in execs' : IdOf(f) = IdOf(g) => f = g
    BY <1>4, <1>5, <1>9 DEF ExecInv, ExecShape
  <1>14. \A f \in execs' : f.stage # "wrote" => IdOf(f) \notin sent'
    BY <1>4, <1>5, <1>10 DEF ExecInv, ExecShape
  <1>15. \A u \in Task, m \in 1..MaxTries : <<u, m>> \in sent' => m <= task'[u].tries
    BY <1>5, <1>8 DEF ExecInv, ExecShape
  <1>16. ExecShape'
    BY <1>5, <1>11, <1>12, <1>13, <1>14, <1>15 DEF ExecInv, ExecShape, IdOf
  <1>17. ASSUME NEW i \in Attempt \ expired', holds'[i].state = "released"
         PROVE  Unsent(i)'
    <2>1. i # <<t, n>>
      BY <1>2, <1>17
    <2>2. Unsent(i)
      BY <1>2, <1>5, <1>17, <2>1 DEF ExecInv, ReleasedUnsent
    <2>3. i \notin sent' /\ \A f \in execs' : IdOf(f) # i
      BY <1>4, <1>5, <2>1, <2>2 DEF Unsent
    <2> QED
      BY <2>3 DEF Unsent, IdOf
  <1> QED
    BY <1>16, <1>17 DEF ExecInv, ReleasedUnsent

----------------------------------------------------------------------------
(* Answers and timeouts                                                      *)

(* Only the current attempt's hold is settled, and given back only if        *)
(* nothing was submitted as far as the task's mark and the answer say.       *)
LEMMA OtherHolds ==
    ASSUME GuardTypeOK, NEW c \in Attempt, ReleaseWindow(c) \/ KeepWindow(c)
    PROVE  \A i \in Attempt : i # c => holds'[i] = holds[i]
  BY DEF ReleaseWindow, KeepWindow, GuardTypeOK

LEMMA KeptHold ==
    ASSUME GuardTypeOK, NEW c \in Attempt, holds[c].state = "open", KeepWindow(c)
    PROVE  \A i \in Attempt : holds'[i].state = "released" => holds[i].state = "released"
  <1>1. holds[c] \in Hold
    BY OpenIsHold
  <1>2. holds'[c] = [holds[c] EXCEPT !.state = "kept"]
    BY DEF KeepWindow, GuardTypeOK
  <1>3. holds'[c].state = "kept"
    BY <1>1, <1>2 DEF Hold
  <1> QED
    BY <1>3, OtherHolds

(* The attempt a task in flight is about.                                    *)
LEMMA FlightHold ==
    ASSUME QueueInv, NEW t \in running
    PROVE  GuardTypeOK /\ Current(t) \in Attempt /\ holds[Current(t)].state = "open"
  BY CurrentIsAttempt DEF QueueInv, HoldsMatch

LEMMA FailureTries ==
    ASSUME QueueInv, NEW t \in running, NEW a \in BOOLEAN, NEW m \in BOOLEAN, NEW r,
           Failure(t, a, m, r)
    PROVE  SameTries
  BY DEF Failure, QueueInv, QueueShape, TaskRec, SameTries

LEMMA FailureHolds ==
    ASSUME QueueInv, NEW t \in running, NEW a \in BOOLEAN, NEW m \in BOOLEAN, NEW r,
           Failure(t, a, m, r)
    PROVE  /\ Current(t) \in Attempt
           /\ \A i \in Attempt : i # Current(t) => holds'[i] = holds[i]
           /\ a /\ ~m => \A i \in Attempt :
                            holds'[i].state = "released" => holds[i].state = "released"
  <1>1. GuardTypeOK /\ Current(t) \in Attempt /\ holds[Current(t)].state = "open"
    BY FlightHold
  <1>2. ReleaseWindow(Current(t)) \/ KeepWindow(Current(t))
    BY DEF Failure
  <1>3. a /\ ~m => KeepWindow(Current(t))
    BY DEF Failure, RollsBack, NeverSubmitted
  <1>4. \A i \in Attempt : i # Current(t) => holds'[i] = holds[i]
    BY <1>1, <1>2, OtherHolds
  <1>5. ASSUME a /\ ~m
        PROVE  \A i \in Attempt : holds'[i].state = "released" => holds[i].state = "released"
    BY <1>1, <1>3, <1>5, KeptHold
  <1> QED
    BY <1>1, <1>4, <1>5

LEMMA TimeoutSettles ==
    ASSUME QueueInv, NEW t, Timeout(t)
    PROVE  Settles
  <1>1. /\ t \in running /\ Failure(t, task[t].attempted, FALSE, FALSE)
        /\ execs' = execs /\ sent' = sent /\ expired' = expired \union {Current(t)}
    BY DEF Timeout
  <1>2. task[t].attempted \in BOOLEAN
    BY <1>1 DEF QueueInv, QueueShape, TaskRec
  <1>3. SameTries
    BY <1>1, <1>2, FailureTries
  <1>4. \A i \in Attempt \ expired' : holds'[i] = holds[i]
    BY <1>1, <1>2, FailureHolds
  <1> QED
    BY <1>1, <1>3, <1>4 DEF Settles

(* The executor answers in time.  If its answer lets the window go, it has   *)
(* not written, and it was the attempt's only executor.                      *)
LEMMA FailureSettles ==
    ASSUME QueueInv, ExecInv, NEW e \in execs, Awaited(e), NEW a \in BOOLEAN,
           NEW m \in BOOLEAN, NEW r,
           Failure(e.task, a, m, r), execs' = execs \ {e}, UNCHANGED histVars,
           e.stage # "wrote" \/ (a /\ ~m)
    PROVE  Settles
  <1>1. e.task \in running /\ Current(e.task) = IdOf(e) /\ sent' = sent /\ expired' = expired
    BY DEF Awaited, Current, IdOf, histVars
  <1>2. SameTries
    BY <1>1, FailureTries
  <1>3. CASE a /\ ~m
    <2>1. \A i \in Attempt : holds'[i].state = "released" => holds[i].state = "released"
      BY <1>1, <1>3, FailureHolds
    <2> QED
      BY <1>1, <1>2, <2>1 DEF Settles
  <1>4. CASE e.stage # "wrote"
    <2>1. IdOf(e) \notin sent' /\ \A f \in execs' : IdOf(f) # IdOf(e)
      BY <1>1, <1>4 DEF ExecInv, ExecShape
    <2>2. Unsent(IdOf(e))'
      BY <2>1 DEF Unsent, IdOf
    <2>3. \A i \in Attempt : i = IdOf(e) \/ holds'[i] = holds[i]
      BY <1>1, FailureHolds
    <2>4. \A i \in Attempt : i = IdOf(e) => Unsent(i)'
      BY <2>1 DEF Unsent, IdOf
    <2> QED
      BY <1>1, <1>2, <2>3, <2>4 DEF Settles
  <1> QED
    BY <1>3, <1>4

LEMMA SuccessSettles ==
    ASSUME QueueInv, NEW t \in running, Success(t), execs' \subseteq execs, UNCHANGED histVars
    PROVE  Settles
  <1>1. SameTries
    BY DEF Success, QueueInv, QueueShape, TaskRec, SameTries
  <1>2. \A i \in Attempt : holds'[i].state = "released" => holds[i].state = "released"
    BY FlightHold, KeptHold DEF Success
  <1> QED
    BY <1>1, <1>2 DEF Settles, histVars

LEMMA LateSettles ==
    ASSUME QueueInv, UNCHANGED guardVars, UNCHANGED histVars, execs' \subseteq execs, NEW u,
           \/ task' = task
           \/ task' = [task EXCEPT ![u].attempted = TRUE, ![u].submitted = TRUE]
           \/ task' = [task EXCEPT ![u].attempted = TRUE]
    PROVE  Settles
  <1>1. SameTries
    BY DEF QueueInv, QueueShape, TaskRec, SameTries
  <1> QED
    BY <1>1, SameGuard

LEMMA AnswerSettles ==
    ASSUME QueueInv, ExecInv, NEW e, NEW m \in BOOLEAN, NEW r \in BOOLEAN,
           ExecutorReturns(e) \/ ExecutorThrows(e, m, r) \/ ExecutorRefuses(e, r)
    PROVE  Settles
  <1>1. e \in execs /\ execs' = execs \ {e} /\ UNCHANGED histVars
    BY DEF ExecutorReturns, ExecutorThrows, ExecutorRefuses
  <1>2. CASE ~Awaited(e)
    <2>1. /\ UNCHANGED guardVars
          /\ \/ task' = task
             \/ task' = [task EXCEPT ![e.task].attempted = TRUE, ![e.task].submitted = TRUE]
             \/ task' = [task EXCEPT ![e.task].attempted = TRUE]
      BY <1>2 DEF ExecutorReturns, ExecutorThrows, ExecutorRefuses
    <2> QED
      BY <1>1, <2>1, LateSettles
  <1>3. CASE Awaited(e) /\ ExecutorReturns(e)
    BY <1>1, <1>3, SuccessSettles DEF ExecutorReturns, Awaited
  <1>4. CASE Awaited(e) /\ ExecutorThrows(e, m, r)
    <2>1. /\ Failure(e.task, task[e.task].attempted \/ ~m, m, r)
          /\ m => e.stage = "publishing"
      BY <1>4 DEF ExecutorThrows
    <2>2. (task[e.task].attempted \/ ~m) \in BOOLEAN
      OBVIOUS
    <2>3. e.stage # "wrote" \/ ((task[e.task].attempted \/ ~m) /\ ~m)
      BY <2>1
    <2> QED
      BY <1>1, <1>4, <2>1, <2>2, <2>3, FailureSettles
  <1>5. CASE Awaited(e) /\ ExecutorRefuses(e, r)
    <2>1. Failure(e.task, task[e.task].attempted, FALSE, r) /\ e.stage # "wrote"
      BY <1>5 DEF ExecutorRefuses
    <2>2. task[e.task].attempted \in BOOLEAN
      BY <1>5 DEF Awaited, QueueInv, QueueShape, TaskRec
    <2> QED
      BY <1>1, <1>5, <2>1, <2>2, FailureSettles
  <1> QED
    BY <1>2, <1>3, <1>4, <1>5

----------------------------------------------------------------------------
(* The other handlers                                                        *)

LEMMA EmergencyHolds ==
    ASSUME QueueInv, NEW t \in Task, EmergencyRelease(t)
    PROVE  Settles
  <1>1. task' = task /\ execs' = execs /\ sent' = sent /\ expired' = expired
    BY DEF EmergencyRelease, histVars
  <1>2. \A i \in Attempt : holds'[i].state = holds[i].state
    BY ClearKeepsStates DEF EmergencyRelease, EmergencyClear, OwnView, QueueInv, guardVars
  <1> QED
    BY <1>1, <1>2, SameHolds DEF SameTries

LEMMA ClockHolds == QueueInv /\ Clock => Settles
  <1> SUFFICES ASSUME QueueInv, Clock PROVE Settles
    OBVIOUS
  <1>1. task' = task /\ execs' = execs /\ sent' = sent /\ expired' = expired /\ holds' = holds
    BY DEF Clock, queueVars, histVars, Tick, Midnight
  <1> QED
    BY <1>1, SameHolds DEF SameTries

(* Handlers that leave the guard, the executors and the histories alone.     *)
LEMMA QuietSettles ==
    ASSUME QueueInv, NEW t, NEW u, NEW p, NEW o,
           \/ Skip \/ Postpone \/ DelayOver(t) \/ GraceOver(t) \/ Add(t) \/ ManualRetry(t, u)
           \/ CancelWaiting(t) \/ CancelRunning(t) \/ ClearPending \/ Pause \/ Resume
           \/ Shutdown \/ ClearRollbackDisabled(p) \/ SwitchOwner(o) \/ UNCHANGED vars
    PROVE  Settles
  <1>1. UNCHANGED guardVars /\ execs' = execs /\ UNCHANGED histVars
    BY DEF Skip, Postpone, DelayOver, GraceOver, Add, ManualRetry, CancelWaiting, CancelRunning,
           ClearPending, Pause, Resume, Shutdown, ClearRollbackDisabled, SwitchOwner, vars,
           queueVars
  <1>2. \A v \in Task : task[v] \in TaskRec
    BY DEF QueueInv, QueueShape
  <1>3. CASE task' = task
    BY <1>1, <1>3, SameGuard DEF SameTries
  <1>4. CASE Add(t) \/ ManualRetry(t, u)
    <2>1. task \in [Task -> TaskRec]
      BY DEF QueueInv, QueueShape
    <2>2. CASE Add(t)
      <3>1. task' = [task EXCEPT ![t].status = "pending", ![t].left = Retry]
        BY <2>2 DEF Add
      <3>2. SameTries
        BY <2>1, <3>1 DEF TaskRec, SameTries
      <3> QED
        BY <1>1, <3>2, SameGuard
    <2>3. CASE ManualRetry(t, u)
      <3>1. task' = [task EXCEPT ![u].status = "pending", ![u].left = Retry, ![t].retriedAs = u]
        BY <2>3 DEF ManualRetry
      <3>2. SameTries
        BY <2>1, <3>1 DEF TaskRec, SameTries
      <3> QED
        BY <1>1, <3>2, SameGuard
    <2> QED
      BY <1>4, <2>2, <2>3
  <1>5. CASE CancelWaiting(t) \/ CancelRunning(t)
    <2>1. SameTries
      BY <1>5 DEF CancelWaiting, CancelRunning, QueueInv, QueueShape, TaskRec, SameTries
    <2> QED
      BY <1>1, <2>1, SameGuard
  <1>6. CASE ClearPending \/ Shutdown \/ SwitchOwner(o)
    <2>1. PICK S, s : task' = [v \in Task |-> IF v \in S THEN [task[v] EXCEPT !.status = s]
                                                        ELSE task[v]]
      BY <1>6 DEF ClearPending, Shutdown, SwitchOwner
    <2>2. SameTries
      BY <1>2, <2>1 DEF TaskRec, SameTries
    <2> QED
      BY <1>1, <2>2, SameGuard
  <1>7. \/ task' = task \/ Add(t) \/ ManualRetry(t, u) \/ CancelWaiting(t)
        \/ CancelRunning(t) \/ ClearPending \/ Shutdown \/ SwitchOwner(o)
    BY DEF Skip, Postpone, DelayOver, GraceOver, Pause, Resume, ClearRollbackDisabled, vars,
           queueVars
  <1> QED
    BY <1>3, <1>4, <1>5, <1>6, <1>7

----------------------------------------------------------------------------
(* The theorem                                                               *)

LEMMA ExecInit == Init => ExecInv
  <1> SUFFICES ASSUME Init PROVE ExecInv
    OBVIOUS
  <1>1. execs = {} /\ sent = {} /\ GuardInit
    BY DEF Init
  <1> QED
    BY <1>1 DEF ExecInv, ExecShape, ReleasedUnsent, Unsent

(* Every step settles executors, except a dispatch and a platform write.     *)
LEMMA StepSettles ==
    QueueInv /\ ExecInv /\ [Next]_vars => Settles \/ Execute \/ \E e : PlatformWrite(e)
  <1> SUFFICES ASSUME QueueInv, ExecInv, [Next]_vars, ~Execute, ~\E e : PlatformWrite(e)
               PROVE  Settles
    OBVIOUS
  <1>1. ASSUME NEW t, NEW u, NEW p, NEW o,
               \/ Skip \/ Postpone \/ DelayOver(t) \/ GraceOver(t) \/ Add(t) \/ ManualRetry(t, u)
               \/ CancelWaiting(t) \/ CancelRunning(t) \/ ClearPending \/ Pause \/ Resume
               \/ Shutdown \/ ClearRollbackDisabled(p) \/ SwitchOwner(o) \/ UNCHANGED vars
        PROVE  Settles
    BY <1>1, QuietSettles
  <1>2. CASE ProcessNext
    BY <1>1, <1>2 DEF ProcessNext
  <1>3. CASE Timers
    BY <1>1, <1>3, TimeoutSettles DEF Timers
  <1>4. CASE Executors
    <2>1. ASSUME NEW e, NEW m \in BOOLEAN, NEW r \in BOOLEAN,
                 ExecutorReturns(e) \/ ExecutorThrows(e, m, r) \/ ExecutorRefuses(e, r)
          PROVE  Settles
      BY <2>1, AnswerSettles
    <2> QED
      BY <1>4, <2>1 DEF Executors
  <1>5. CASE Calls
    BY <1>1, <1>5, EmergencyHolds DEF Calls
  <1>6. CASE Clock \/ UNCHANGED vars
    BY <1>1, <1>6, ClockHolds
  <1> QED
    BY <1>2, <1>3, <1>4, <1>5, <1>6 DEF Next

LEMMA ExecNext == QueueInv /\ ExecInv /\ [Next]_vars => ExecInv'
  BY StepSettles, SettlesStep, DispatchKeeps, WriteKeeps

(* The window of an attempt that wrote to the platform is given back only if *)
(* the queue had given the attempt up by timeout: no error, refusal or late  *)
(* answer makes _maybeRollback() free a window that was used.                *)
THEOREM QueueRollbackOnlyUnsent == Spec => []RollbackOnlyUnsent
  <1>1. ExecInv => RollbackOnlyUnsent
    BY DEF ExecInv, ExecShape, ReleasedUnsent, Unsent, RollbackOnlyUnsent
  <1> QED
    BY <1>1, QueueInitInv, QueueNextInv, ExecInit, ExecNext, PTL DEF Spec

----------------------------------------------------------------------------
(* The queue neither loses nor doubles a task, and a cancelled task stays    *)
(* cancelled: task-queue.js keeps a waiting task in _queue, in _delayed or   *)
(* in a back-off timer, each handler moves it by separate removals and       *)
(* insertions, and its status is a field of its own.                         *)

Waiting == ToSet(queue) \union delayed \union grace

(* Disjoint: the three places share no task, and the queue lists none twice.    *)
Disjoint ==
    /\ IsInjective(queue)
    /\ delayed \subseteq Task /\ grace \subseteq Task
    /\ ToSet(queue) \intersect delayed = {}
    /\ ToSet(queue) \intersect grace = {}
    /\ delayed \intersect grace = {}

(* Matched: where a task is and what its status says agree.                  *)
Matched ==
    \A t \in Task :
        /\ t \in running <=> task[t].status = "running"
        /\ t \in Waiting => task[t].status = "pending"
        /\ task[t].status = "pending" /\ ~shut => t \in Waiting

PlaceInv == Disjoint /\ Matched

CancelledKept ==
    \A t \in Task : task[t].status = "cancelled" => task'[t].status = "cancelled"

Good == PlaceInv' /\ CancelledKept

(* The statuses after a handler that gives the tasks of S the status s.      *)
Restated(S, s) ==
    \A t \in Task : task'[t].status = IF t \in S THEN s ELSE task[t].status

----------------------------------------------------------------------------
(* What the handlers do to the queue's sequence                              *)

LEMMA InQueue ==
    ASSUME NEW q \in Seq(Task)
    PROVE  /\ Len(q) \in Nat /\ DOMAIN q = 1..Len(q)
           /\ ToSet(q) = {q[i] : i \in 1..Len(q)}
           /\ ToSet(q) \subseteq Task
  <1>1. Len(q) \in Nat /\ DOMAIN q = 1..Len(q) /\ \A i \in 1..Len(q) : q[i] \in Task
    BY LenProperties, ElementOfSeq
  <1> QED
    BY <1>1 DEF ToSet

LEMMA EmptyPlaces == ToSet(<<>>) = {} /\ IsInjective(<<>>)
  <1>1. <<>> \in Seq(Task) /\ Len(<<>>) = 0
    BY EmptySeq
  <1>2. 1..0 = {}
    OBVIOUS
  <1>3. DOMAIN <<>> = {}
    BY <1>1, <1>2, InQueue
  <1> QED
    BY <1>3 DEF IsInjective, ToSet

LEMMA TailPlaces ==
    ASSUME NEW q \in Seq(Task), q # <<>>, IsInjective(q)
    PROVE  /\ IsInjective(Tail(q))
           /\ Head(q) \in ToSet(q)
           /\ ToSet(Tail(q)) = ToSet(q) \ {Head(q)}
  <1>1. Len(q) \in Nat /\ DOMAIN q = 1..Len(q) /\ Len(q) > 0
    BY InQueue, EmptySeq
  <1>2. /\ Tail(q) \in Seq(Task) /\ Len(Tail(q)) = Len(q) - 1
        /\ \A i \in 1..Len(Tail(q)) : Tail(q)[i] = q[i + 1]
    BY HeadTailProperties
  <1>3. Head(q) = q[1]
    BY <1>1, LenProperties
  <1>4. DOMAIN Tail(q) = 1..Len(q) - 1
    BY <1>2, InQueue
  <1>5. ToSet(q) = {q[i] : i \in 1..Len(q)}
    BY InQueue
  <1>6. \A i \in 1..Len(q) - 1 : Tail(q)[i] = q[i + 1]
    BY <1>2
  <1>7. IsInjective(Tail(q))
    BY <1>1, <1>2, <1>4 DEF IsInjective
  <1>8. \A i \in 1..Len(q) - 1 : i + 1 \in 1..Len(q) /\ q[i + 1] # q[1]
    BY <1>1 DEF IsInjective
  <1>9. \A i \in 1..Len(q) : i = 1 \/ (i - 1 \in 1..Len(q) - 1 /\ (i - 1) + 1 = i)
    BY <1>1
  <1>10. 1 \in 1..Len(q)
    BY <1>1
  <1>11. ToSet(Tail(q)) \subseteq ToSet(q) \ {q[1]}
    BY <1>4, <1>5, <1>6, <1>8 DEF ToSet
  <1>12. ASSUME NEW x \in ToSet(q) \ {q[1]} PROVE x \in ToSet(Tail(q))
    <2>1. PICK i \in 1..Len(q) : x = q[i]
      BY <1>5
    <2>2. i - 1 \in 1..Len(q) - 1 /\ (i - 1) + 1 = i
      BY <1>9, <1>12, <2>1
    <2> QED
      BY <1>4, <1>6, <2>1, <2>2 DEF ToSet
  <1> QED
    BY <1>3, <1>5, <1>7, <1>10, <1>11, <1>12

LEMMA AppendPlaces ==
    ASSUME NEW q \in Seq(Task), NEW t \in Task, IsInjective(q), t \notin ToSet(q)
    PROVE  IsInjective(Append(q, t)) /\ ToSet(Append(q, t)) = ToSet(q) \union {t}
  <1>1. Len(q) \in Nat /\ DOMAIN q = 1..Len(q) /\ ToSet(q) = {q[i] : i \in 1..Len(q)}
    BY InQueue
  <1>2. /\ Append(q, t) \in Seq(Task) /\ Len(Append(q, t)) = Len(q) + 1
        /\ \A i \in 1..Len(q) : Append(q, t)[i] = q[i]
        /\ Append(q, t)[Len(q) + 1] = t
    BY AppendProperties
  <1>3. DOMAIN Append(q, t) = 1..Len(q) + 1
    BY <1>2, InQueue
  <1>4. ToSet(Append(q, t)) = {Append(q, t)[i] : i \in 1..Len(q) + 1}
    BY <1>2, InQueue
  <1>5. \A i \in 1..Len(q) + 1 : i \in 1..Len(q) \/ i = Len(q) + 1
    BY <1>1
  <1>6. 1..Len(q) \subseteq 1..Len(q) + 1 /\ Len(q) + 1 \in 1..Len(q) + 1
    BY <1>1
  <1>7. IsInjective(Append(q, t))
    <2>1. \A i \in 1..Len(q) : q[i] # t
      BY <1>1
    <2> QED
      BY <1>1, <1>2, <1>3, <1>5, <2>1 DEF IsInjective
  <1>8. ToSet(Append(q, t)) = ToSet(q) \union {t}
    BY <1>1, <1>2, <1>4, <1>5, <1>6
  <1> QED
    BY <1>7, <1>8

LEMMA FrontPlaces ==
    ASSUME NEW q \in Seq(Task), NEW t \in Task, IsInjective(q), t \notin ToSet(q)
    PROVE  IsInjective(<<t>> \o q) /\ ToSet(<<t>> \o q) = ToSet(q) \union {t}
  <1> DEFINE f == <<t>> \o q
  <1>1. Len(q) \in Nat /\ DOMAIN q = 1..Len(q) /\ ToSet(q) = {q[i] : i \in 1..Len(q)}
    BY InQueue
  <1>2. <<t>> \in Seq(Task) /\ Len(<<t>>) = 1 /\ <<t>>[1] = t
    OBVIOUS
  <1>3. /\ f \in Seq(Task) /\ Len(f) = 1 + Len(q)
        /\ \A i \in 1..1 + Len(q) : f[i] = IF i <= 1 THEN <<t>>[i] ELSE q[i - 1]
    BY <1>2, ConcatProperties
  <1> HIDE DEF f
  <1>4. DOMAIN f = 1..1 + Len(q) /\ ToSet(f) = {f[i] : i \in 1..1 + Len(q)}
    BY <1>3, InQueue
  <1>5. f[1] = t /\ \A i \in 1..Len(q) : f[i + 1] = q[i]
    BY <1>1, <1>2, <1>3
  <1>6. \A i \in 1..1 + Len(q) : i = 1 \/ (i - 1 \in 1..Len(q) /\ f[i] = q[i - 1])
    <2>1. \A i \in 1..1 + Len(q) : i = 1 \/ (i - 1 \in 1..Len(q) /\ (i - 1) + 1 = i)
      BY <1>1
    <2> QED
      BY <1>5, <2>1
  <1>7. \A i \in 1..Len(q) : i + 1 \in 1..1 + Len(q)
    BY <1>1
  <1>8. IsInjective(f)
    <2>1. ASSUME NEW i \in 1..1 + Len(q), NEW j \in 1..1 + Len(q), f[i] = f[j]
          PROVE  i = j
      <3>1. CASE i = 1 \/ j = 1
        <4>1. \A k \in 1..1 + Len(q) : k # 1 => f[k] \in ToSet(q)
          BY <1>1, <1>6
        <4> QED
          BY <1>5, <2>1, <3>1, <4>1
      <3>2. CASE i # 1 /\ j # 1
        <4>1. f[i] = q[i - 1] /\ f[j] = q[j - 1] /\ i - 1 \in 1..Len(q) /\ j - 1 \in 1..Len(q)
          BY <1>6, <3>2
        <4>2. i - 1 = j - 1
          BY <1>1, <2>1, <4>1 DEF IsInjective
        <4> QED
          BY <4>2
      <3> QED
        BY <3>1, <3>2
    <2> QED
      BY <1>4, <2>1 DEF IsInjective
  <1>9. ToSet(f) \subseteq ToSet(q) \union {t}
    <2>1. \A k \in 1..1 + Len(q) : f[k] \in ToSet(q) \union {t}
      BY <1>1, <1>5, <1>6
    <2> QED
      BY <1>4, <2>1
  <1>10. 1 \in 1..1 + Len(q)
    BY <1>1
  <1>11. ToSet(q) \union {t} \subseteq ToSet(f)
    BY <1>1, <1>4, <1>5, <1>7, <1>10
  <1> QED
    BY <1>8, <1>9, <1>11 DEF f

LEMMA WithoutPlaces ==
    ASSUME NEW q \in Seq(Task), NEW t \in ToSet(q), IsInjective(q)
    PROVE  IsInjective(Without(q, t)) /\ ToSet(Without(q, t)) = ToSet(q) \ {t}
  <1> DEFINE i == CHOOSE j \in DOMAIN q : q[j] = t
             l == SubSeq(q, 1, i - 1)
             r == SubSeq(q, i + 1, Len(q))
             w == Without(q, t)
  <1>1. Len(q) \in Nat /\ DOMAIN q = 1..Len(q) /\ ToSet(q) = {q[k] : k \in 1..Len(q)}
        /\ \A k \in 1..Len(q) : q[k] \in Task
    BY InQueue, ElementOfSeq
  <1>2. i \in 1..Len(q) /\ q[i] = t
    BY <1>1
  <1> HIDE DEF i
  <1>3. i \in Int /\ i - 1 \in Int /\ i + 1 \in Int
    BY <1>1, <1>2
  <1>4. /\ l \in Seq(Task) /\ Len(l) = i - 1
        /\ \A k \in 1..i - 1 : l[k] = q[k]
    <2>1. \A k \in 1..i - 1 : q[k] \in Task
      BY <1>1, <1>2
    <2>2. /\ l \in Seq(Task) /\ Len(l) = IF 1 <= i - 1 THEN i - 1 - 1 + 1 ELSE 0
          /\ \A k \in 1..i - 1 - 1 + 1 : l[k] = q[1 + k - 1]
      BY <1>3, <2>1, SubSeqProperties
    <2>3. (i - 1 - 1) + 1 = i - 1 /\ (\A k \in 1..i - 1 : 1 + k - 1 = k) /\ i >= 1
      BY <1>2, <1>3
    <2> HIDE DEF l
    <2> QED
      BY <1>3, <2>2, <2>3
  <1>5. /\ r \in Seq(Task) /\ Len(r) = Len(q) - i
        /\ \A k \in 1..Len(q) - i : r[k] = q[i + k]
    <2>1. \A k \in i + 1..Len(q) : q[k] \in Task
      BY <1>1, <1>2
    <2>2. /\ r \in Seq(Task) /\ Len(r) = IF i + 1 <= Len(q) THEN Len(q) - (i + 1) + 1 ELSE 0
          /\ \A k \in 1..Len(q) - (i + 1) + 1 : r[k] = q[i + 1 + k - 1]
      BY <1>1, <1>3, <2>1, SubSeqProperties
    <2>3. Len(q) - (i + 1) + 1 = Len(q) - i /\ \A k \in 1..Len(q) - i : i + 1 + k - 1 = i + k
      BY <1>1, <1>3
    <2>4. i + 1 <= Len(q) \/ (~(i + 1 <= Len(q)) /\ Len(q) - i = 0)
      <3>1. Len(q) \in Int /\ i \in Int /\ i <= Len(q)
        BY <1>1, <1>2, <1>3
      <3>2. \A m, n \in Int : m <= n => m + 1 <= n \/ (~(m + 1 <= n) /\ n - m = 0)
        OBVIOUS
      <3> QED
        BY <3>1, <3>2
    <2> HIDE DEF r
    <2> QED
      BY <2>2, <2>3, <2>4
  <1>6. w = l \o r
    BY DEF Without, i
  <1> HIDE DEF l, r, w
  <1>7. /\ w \in Seq(Task) /\ Len(w) = Len(q) - 1
        /\ \A k \in 1..Len(q) - 1 : w[k] = IF k <= i - 1 THEN l[k] ELSE r[k - (i - 1)]
    <2>1. Len(l) + Len(r) = Len(q) - 1
      BY <1>1, <1>3, <1>4, <1>5
    <2> QED
      BY <1>4, <1>5, <1>6, <2>1, ConcatProperties
  <1>8. \A k \in 1..Len(q) - 1 : w[k] = IF k < i THEN q[k] ELSE q[k + 1]
    <2>1. ASSUME NEW k \in 1..Len(q) - 1, k < i PROVE w[k] = q[k]
      <3>1. k \in 1..i - 1 /\ k <= i - 1
        BY <1>1, <1>3, <2>1
      <3> QED
        BY <1>4, <1>7, <3>1
    <2>2. ASSUME NEW k \in 1..Len(q) - 1, ~(k < i) PROVE w[k] = q[k + 1]
      <3>1. k - (i - 1) \in 1..Len(q) - i /\ i + (k - (i - 1)) = k + 1 /\ ~(k <= i - 1)
        BY <1>1, <1>3, <2>2
      <3>2. w[k] = r[k - (i - 1)]
        BY <1>7, <3>1
      <3> QED
        BY <1>5, <3>1, <3>2
    <2> QED
      BY <2>1, <2>2
  <1>9. DOMAIN w = 1..Len(q) - 1 /\ ToSet(w) = {w[k] : k \in 1..Len(q) - 1}
    BY <1>7, InQueue
  <1>10. IsInjective(w)
    <2>1. ASSUME NEW a \in 1..Len(q) - 1, NEW b \in 1..Len(q) - 1, w[a] = w[b] PROVE a = b
      <3> DEFINE x == IF a < i THEN a ELSE a + 1
                 y == IF b < i THEN b ELSE b + 1
      <3>1. x \in 1..Len(q) /\ y \in 1..Len(q) /\ q[x] = q[y]
        BY <1>1, <1>8, <2>1
      <3>2. x = y
        BY <1>1, <3>1 DEF IsInjective
      <3> QED
        BY <1>1, <1>3, <3>2
    <2> QED
      BY <1>9, <2>1 DEF IsInjective
  <1>11. ToSet(w) \subseteq ToSet(q) \ {t}
    <2>1. ASSUME NEW k \in 1..Len(q) - 1 PROVE w[k] \in ToSet(q) /\ w[k] # t
      <3> DEFINE x == IF k < i THEN k ELSE k + 1
      <3>1. x \in 1..Len(q) /\ x # i /\ w[k] = q[x]
        BY <1>1, <1>3, <1>8
      <3> HIDE DEF x
      <3> QED
        BY <1>1, <1>2, <3>1 DEF IsInjective
    <2> QED
      BY <1>9, <2>1
  <1>12. ASSUME NEW x \in ToSet(q) \ {t} PROVE x \in ToSet(w)
    <2>1. PICK k \in 1..Len(q) : x = q[k]
      BY <1>1
    <2>2. k # i
      BY <1>2, <1>12, <2>1
    <2>3. CASE k < i
      <3>1. k \in 1..Len(q) - 1 /\ w[k] = q[k]
        BY <1>1, <1>2, <1>8, <2>3
      <3> QED
        BY <1>9, <2>1, <3>1
    <2>4. CASE k > i
      <3>1. k - 1 \in 1..Len(q) - 1 /\ ~(k - 1 < i) /\ (k - 1) + 1 = k
        BY <1>1, <1>2, <2>4
      <3>2. w[k - 1] = q[k]
        BY <1>8, <3>1
      <3> QED
        BY <1>9, <2>1, <3>1, <3>2
    <2> QED
      BY <1>3, <2>1, <2>2, <2>3, <2>4
  <1> QED
    BY <1>10, <1>11, <1>12 DEF w

LEMMA OthersPlaces ==
    ASSUME NEW s \in Seq(Task), NEW q \in Seq(Task), IsInjective(s), Others(q, s)
    PROVE  IsInjective(q) /\ ToSet(q) = {t \in ToSet(s) : ~Owned(t)}
  <1>1. Len(q) \in Nat /\ DOMAIN q = 1..Len(q) /\ Len(s) \in Nat /\ DOMAIN s = 1..Len(s)
    BY InQueue
  <1>2. \A i, j \in 1..Len(q) : i < j => q[i] # q[j]
    BY <1>1 DEF Others, IsInjective
  <1>3. IsInjective(q)
    BY <1>1, <1>2 DEF IsInjective
  <1> QED
    BY <1>3 DEF Others

(* The loop's turn of the queue.                                             *)
LEMMA RotatedPlaces ==
    ASSUME NEW q \in Seq(Task), q # <<>>, IsInjective(q)
    PROVE  LET r == Append(Tail(q), Head(q)) IN IsInjective(r) /\ ToSet(r) = ToSet(q)
  <1>1. Tail(q) \in Seq(Task) /\ Head(q) \in Task
    BY HeadTailProperties
  <1>2. /\ IsInjective(Tail(q)) /\ Head(q) \in ToSet(q)
        /\ ToSet(Tail(q)) = ToSet(q) \ {Head(q)}
    BY TailPlaces
  <1>3. Head(q) \notin ToSet(Tail(q))
    BY <1>2
  <1>4. /\ IsInjective(Append(Tail(q), Head(q)))
        /\ ToSet(Append(Tail(q), Head(q))) = ToSet(Tail(q)) \union {Head(q)}
    BY <1>1, <1>2, <1>3, AppendPlaces
  <1>5. ToSet(Tail(q)) \union {Head(q)} = ToSet(q)
    BY <1>2
  <1> QED
    BY <1>4, <1>5

----------------------------------------------------------------------------
(* One step: a set of tasks takes a status and moves to the place for it     *)

LEMMA MovedStep ==
    ASSUME PlaceInv, NEW S, NEW s, Restated(S, s), Disjoint', shut' = shut,
           running' = (IF s = "running" THEN running \union S ELSE running \ S),
           Waiting' = (IF s = "pending" THEN Waiting \union S ELSE Waiting \ S),
           s = "cancelled" \/ \A t \in S \intersect Task : task[t].status # "cancelled"
    PROVE  Good
  <1>1. ASSUME NEW t \in Task
        PROVE  /\ t \in running' <=> task'[t].status = "running"
               /\ t \in Waiting' => task'[t].status = "pending"
               /\ task'[t].status = "pending" /\ ~shut' => t \in Waiting'
               /\ task[t].status = "cancelled" => task'[t].status = "cancelled"
    <2>1. /\ t \in running <=> task[t].status = "running"
          /\ t \in Waiting => task[t].status = "pending"
          /\ task[t].status = "pending" /\ ~shut => t \in Waiting
      BY DEF PlaceInv, Matched
    <2>2. task'[t].status = IF t \in S THEN s ELSE task[t].status
      BY DEF Restated
    <2> QED
      BY <2>1, <2>2
  <1> QED
    BY <1>1 DEF Good, PlaceInv, Matched, CancelledKept

(* No status changes and no task enters or leaves the waiting places.        *)
LEMMA SameStep ==
    ASSUME PlaceInv, Restated({}, "new"), Disjoint', shut' = shut,
           running' = running, Waiting' = Waiting
    PROVE  Good
  <1>1. running' = running \ {} /\ Waiting' = Waiting \ {}
    OBVIOUS
  <1>2. \A t \in {} \intersect Task : task[t].status # "cancelled"
    OBVIOUS
  <1> QED
    BY <1>1, <1>2, MovedStep

LEMMA StillStep ==
    ASSUME PlaceInv, Restated({}, "new"), shut' = shut, running' = running,
           queue' = queue, delayed' = delayed, grace' = grace
    PROVE  Good
  <1>1. Disjoint' /\ Waiting' = Waiting
    BY DEF PlaceInv, Disjoint, Waiting
  <1> QED
    BY <1>1, SameStep

LEMMA NoneRestated == task' = task => Restated({}, "new")
  BY DEF Restated

LEMMA OneRestated ==
    ASSUME QueueInv, NEW t \in Task, NEW r, task' = [task EXCEPT ![t] = r]
    PROVE  Restated({t}, r.status)
  BY DEF QueueInv, QueueShape, Restated

LEMMA SomeRestated ==
    ASSUME QueueInv, NEW S, NEW s,
           task' = [t \in Task |-> IF t \in S THEN [task[t] EXCEPT !.status = s] ELSE task[t]]
    PROVE  Restated(S, s)
  <1>1. \A t \in Task : task[t] \in TaskRec
    BY DEF QueueInv, QueueShape
  <1>2. \A t \in Task : [task[t] EXCEPT !.status = s].status = s
    BY <1>1 DEF TaskRec
  <1> QED
    BY <1>2 DEF Restated

----------------------------------------------------------------------------
(* The loop                                                                  *)

LEMMA LoopPlaces ==
    ASSUME QueueInv, PlaceInv, Scanning
    PROVE  LET t == Head(queue) IN
           /\ t \in Task /\ t \in ToSet(queue) /\ task[t].status = "pending"
           /\ IsInjective(Tail(queue)) /\ ToSet(Tail(queue)) = ToSet(queue) \ {t}
           /\ queue # <<>>
  <1>1. queue # <<>> /\ Head(queue) \in Task
    BY HeadIsTask, EmptySeq DEF QueueInv, QueueShape, Scanning
  <1>2. /\ IsInjective(Tail(queue)) /\ Head(queue) \in ToSet(queue)
        /\ ToSet(Tail(queue)) = ToSet(queue) \ {Head(queue)}
    BY <1>1, TailPlaces DEF QueueInv, QueueShape, PlaceInv, Disjoint
  <1> QED
    BY <1>1, <1>2 DEF PlaceInv, Matched, Waiting

LEMMA SkipPlaces == QueueInv /\ PlaceInv /\ Skip => Good
  <1> SUFFICES ASSUME QueueInv, PlaceInv, Skip PROVE Good
    OBVIOUS
  <1>1. /\ queue' = Append(Tail(queue), Head(queue)) /\ Scanning /\ task' = task
        /\ running' = running /\ delayed' = delayed /\ grace' = grace /\ shut' = shut
    BY DEF Skip, modeVars
  <1>2. IsInjective(queue') /\ ToSet(queue') = ToSet(queue)
    BY <1>1, LoopPlaces, RotatedPlaces DEF QueueInv, QueueShape, PlaceInv, Disjoint
  <1>3. Disjoint' /\ Waiting' = Waiting
    BY <1>1, <1>2 DEF PlaceInv, Disjoint, Waiting
  <1> QED
    BY <1>1, <1>3, NoneRestated, SameStep

LEMMA PostponePlaces == QueueInv /\ PlaceInv /\ Postpone => Good
  <1> SUFFICES ASSUME QueueInv, PlaceInv, Postpone PROVE Good
    OBVIOUS
  <1> DEFINE t == Head(queue)
  <1>1. /\ queue' = Tail(queue) /\ Scanning /\ task' = task /\ delayed' = delayed \union {t}
        /\ running' = running /\ grace' = grace /\ shut' = shut
    BY DEF Postpone, modeVars
  <1>2. /\ IsInjective(queue') /\ ToSet(queue') = ToSet(queue) \ {t}
        /\ t \in Task /\ t \in ToSet(queue)
    BY <1>1, LoopPlaces
  <1> HIDE DEF t
  <1>3. Disjoint' /\ Waiting' = Waiting
    BY <1>1, <1>2 DEF PlaceInv, Disjoint, Waiting
  <1> QED
    BY <1>1, <1>3, NoneRestated, SameStep

LEMMA ExecutePlaces == QueueInv /\ PlaceInv /\ Execute => Good
  <1> SUFFICES ASSUME QueueInv, PlaceInv, Execute PROVE Good
    OBVIOUS
  <1> DEFINE t == Head(queue)
             r == [task[t] EXCEPT !.status = "running", !.tries = task[t].tries + 1,
                                  !.attempted = FALSE, !.submitted = FALSE]
  <1>1. /\ queue' = Tail(queue) /\ Scanning /\ delayed' = delayed
        /\ running' = running \union {t} /\ grace' = grace /\ shut' = shut
    BY DEF Execute, modeVars
  <1>2. /\ IsInjective(queue') /\ ToSet(queue') = ToSet(queue) \ {t}
        /\ t \in Task /\ t \in ToSet(queue) /\ task[t].status = "pending"
    BY <1>1, LoopPlaces
  <1>3. task' = [task EXCEPT ![t] = r]
    BY <1>2 DEF Execute, QueueInv, QueueShape
  <1>4. r.status = "running"
    BY <1>2 DEF QueueInv, QueueShape, TaskRec
  <1> HIDE DEF t, r
  <1>5. Restated({t}, "running")
    BY <1>2, <1>3, <1>4, OneRestated
  <1>6. Disjoint' /\ Waiting' = Waiting \ {t}
    BY <1>1, <1>2 DEF PlaceInv, Disjoint, Waiting
  <1> QED
    BY <1>1, <1>2, <1>5, <1>6, MovedStep

----------------------------------------------------------------------------
(* Tasks that enter or come back                                             *)

LEMMA FrontStep ==
    ASSUME QueueInv, PlaceInv, NEW t \in Task, queue' = <<t>> \o queue, task' = task,
           running' = running, shut' = shut,
           \/ t \in delayed /\ delayed' = delayed \ {t} /\ grace' = grace
           \/ t \in grace /\ grace' = grace \ {t} /\ delayed' = delayed
    PROVE  Good
  <1>1. t \notin ToSet(queue)
    BY DEF PlaceInv, Disjoint
  <1>2. IsInjective(queue') /\ ToSet(queue') = ToSet(queue) \union {t}
    BY <1>1, FrontPlaces DEF QueueInv, QueueShape, PlaceInv, Disjoint
  <1>3. Disjoint' /\ Waiting' = Waiting
    BY <1>1, <1>2 DEF PlaceInv, Disjoint, Waiting
  <1> QED
    BY <1>3, NoneRestated, SameStep

LEMMA TimerPlaces ==
    ASSUME QueueInv, PlaceInv, NEW t \in Task, DelayOver(t) \/ GraceOver(t) \/ EmergencyRelease(t)
    PROVE  Good
  <1>1. CASE DelayOver(t) \/ EmergencyRelease(t)
    BY <1>1, FrontStep DEF DelayOver, EmergencyRelease, modeVars
  <1>2. CASE GraceOver(t)
    BY <1>2, FrontStep DEF GraceOver, modeVars
  <1> QED
    BY <1>1, <1>2

LEMMA EnterStep ==
    ASSUME QueueInv, PlaceInv, NEW t \in Task, task[t].status = "new",
           Restated({t}, "pending"), queue' = Append(queue, t),
           UNCHANGED <<running, delayed, grace, shut>>
    PROVE  Good
  <1>1. t \notin Waiting /\ t \notin running
    BY DEF PlaceInv, Matched
  <1>2. IsInjective(queue') /\ ToSet(queue') = ToSet(queue) \union {t}
    BY <1>1, AppendPlaces DEF QueueInv, QueueShape, PlaceInv, Disjoint, Waiting
  <1>3. Disjoint' /\ Waiting' = Waiting \union {t}
    BY <1>1, <1>2 DEF PlaceInv, Disjoint, Waiting
  <1>4. running' = running \ {t}
    BY <1>1
  <1> QED
    BY <1>3, <1>4, MovedStep

LEMMA AddPlaces ==
    ASSUME QueueInv, PlaceInv, NEW t \in Task, Add(t)
    PROVE  Good
  <1> DEFINE r == [task[t] EXCEPT !.status = "pending", !.left = Retry]
  <1>1. task' = [task EXCEPT ![t] = r]
    BY DEF Add, QueueInv, QueueShape
  <1>2. r.status = "pending"
    BY DEF QueueInv, QueueShape, TaskRec
  <1> HIDE DEF r
  <1>3. Restated({t}, "pending")
    BY <1>1, <1>2, OneRestated
  <1> QED
    BY <1>3, EnterStep DEF Add, modeVars

LEMMA ManualRetryPlaces ==
    ASSUME QueueInv, PlaceInv, NEW t \in Task, NEW u \in Task, ManualRetry(t, u)
    PROVE  Good
  <1> DEFINE r == [task[u] EXCEPT !.status = "pending", !.left = Retry]
             f == [task[t] EXCEPT !.retriedAs = u]
  <1>1. task \in [Task -> TaskRec] /\ t # u
    BY DEF QueueInv, QueueShape, ManualRetry
  <1>2. task' = [task EXCEPT ![u] = r, ![t] = f]
    BY <1>1 DEF ManualRetry
  <1>3. r.status = "pending" /\ f.status = task[t].status
    BY <1>1 DEF TaskRec
  <1> HIDE DEF r, f
  <1>4. Restated({u}, "pending")
    BY <1>1, <1>2, <1>3 DEF Restated
  <1> QED
    BY <1>4, EnterStep DEF ManualRetry, modeVars

----------------------------------------------------------------------------
(* The executor's answers and the timeout                                    *)

LEMMA SuccessPlaces ==
    ASSUME QueueInv, PlaceInv, NEW t \in running, Success(t)
    PROVE  Good
  <1> DEFINE r == [task[t] EXCEPT !.status = "success",
                                  !.attempted = TRUE, !.submitted = TRUE]
  <1>1. /\ t \in Task /\ task \in [Task -> TaskRec] /\ task[t].status = "running"
        /\ t \notin Waiting
    BY DEF QueueInv, QueueShape, PlaceInv, Matched
  <1>2. task' = [task EXCEPT ![t] = r]
    BY <1>1 DEF Success
  <1>3. r.status = "success"
    BY <1>1 DEF TaskRec
  <1> HIDE DEF r
  <1>4. Restated({t}, "success")
    BY <1>1, <1>2, <1>3, OneRestated
  <1>5. /\ running' = running \ {t} /\ queue' = queue /\ delayed' = delayed
        /\ grace' = grace /\ shut' = shut
    BY DEF Success, modeVars
  <1>6. Disjoint' /\ Waiting' = Waiting \ {t}
    BY <1>1, <1>5 DEF PlaceInv, Disjoint, Waiting
  <1> QED
    BY <1>1, <1>4, <1>5, <1>6, MovedStep

LEMMA FailurePlaces ==
    ASSUME QueueInv, PlaceInv, NEW t \in running, NEW attempted, NEW notSent, NEW noRetry,
           Failure(t, attempted, notSent, noRetry)
    PROVE  Good
  <1> DEFINE again == ~noRetry /\ task[t].left > 0
             l == IF again THEN task[t].left - 1 ELSE task[t].left
             s == IF again THEN "pending" ELSE "failed"
             back == RollsBack(t, attempted, notSent)
             r == [task[t] EXCEPT !.attempted = attempted, !.status = s, !.left = l]
  <1>1. /\ t \in Task /\ task \in [Task -> TaskRec] /\ task[t].status = "running"
        /\ t \notin Waiting /\ queue \in Seq(Task)
    BY DEF QueueInv, QueueShape, PlaceInv, Matched
  <1>2. /\ task' = [task EXCEPT ![t] = r]
        /\ queue' = IF again /\ ~back THEN Append(queue, t) ELSE queue
        /\ grace' = IF again /\ back THEN grace \union {t} ELSE grace
        /\ running' = running \ {t} /\ delayed' = delayed /\ shut' = shut
    BY <1>1 DEF Failure, modeVars
  <1>3. r.status = s
    BY <1>1 DEF TaskRec
  <1> HIDE DEF r, l, back
  <1>4. Restated({t}, s)
    BY <1>1, <1>2, <1>3, OneRestated
  <1>5. IsInjective(Append(queue, t)) /\ ToSet(Append(queue, t)) = ToSet(queue) \union {t}
    BY <1>1, AppendPlaces DEF PlaceInv, Disjoint, Waiting
  <1>6. CASE again
    <2>1. s = "pending"
      BY <1>6
    <2>2. Disjoint' /\ Waiting' = Waiting \union {t}
      BY <1>1, <1>2, <1>5, <1>6 DEF PlaceInv, Disjoint, Waiting
    <2> QED
      BY <1>1, <1>2, <1>4, <2>1, <2>2, MovedStep
  <1>7. CASE ~again
    <2>1. s = "failed"
      BY <1>7
    <2>2. Disjoint' /\ Waiting' = Waiting \ {t}
      BY <1>1, <1>2, <1>7 DEF PlaceInv, Disjoint, Waiting
    <2> QED
      BY <1>1, <1>2, <1>4, <2>1, <2>2, MovedStep
  <1> QED
    BY <1>6, <1>7

LEMMA TimeoutPlaces ==
    ASSUME QueueInv, PlaceInv, NEW t, Timeout(t)
    PROVE  Good
  BY FailurePlaces DEF Timeout

(* An answer nobody waits for marks a task and moves none.                   *)
LEMMA LatePlaces ==
    ASSUME QueueInv, PlaceInv, UNCHANGED <<placeVars, modeVars>>,
           \A t \in Task : task'[t].status = task[t].status
    PROVE  Good
  BY StillStep DEF placeVars, modeVars, Restated

LEMMA AnswerPlaces ==
    ASSUME QueueInv, PlaceInv, NEW e, NEW notSent, NEW noRetry,
           \/ ExecutorReturns(e) \/ ExecutorThrows(e, notSent, noRetry)
           \/ ExecutorRefuses(e, noRetry) \/ PlatformWrite(e)
    PROVE  Good
  <1>1. CASE PlatformWrite(e)
    BY <1>1, LatePlaces DEF PlatformWrite
  <1>2. CASE ~PlatformWrite(e) /\ Awaited(e)
    BY <1>2, SuccessPlaces, FailurePlaces
    DEF ExecutorReturns, ExecutorThrows, ExecutorRefuses, Awaited
  <1>3. CASE ~PlatformWrite(e) /\ ~Awaited(e)
    <2>1. UNCHANGED <<placeVars, modeVars>>
      BY <1>3 DEF ExecutorReturns, ExecutorThrows, ExecutorRefuses
    <2>2. \/ task' = task
          \/ task' = [task EXCEPT ![e.task].attempted = TRUE, ![e.task].submitted = TRUE]
          \/ task' = [task EXCEPT ![e.task].attempted = TRUE]
      BY <1>3 DEF ExecutorReturns, ExecutorThrows, ExecutorRefuses
    <2>3. \A t \in Task : task'[t].status = task[t].status
      BY <2>2 DEF QueueInv, QueueShape, TaskRec
    <2> QED
      BY <2>1, <2>3, LatePlaces
  <1> QED
    BY <1>1, <1>2, <1>3

----------------------------------------------------------------------------
(* cancel(), clearPending(), logins and shutdown()                           *)

LEMMA CancelWaitingPlaces ==
    ASSUME QueueInv, PlaceInv, NEW t \in Task, CancelWaiting(t)
    PROVE  Good
  <1>1. task' = [u \in Task |-> IF u \in {t} THEN [task[u] EXCEPT !.status = "cancelled"]
                                           ELSE task[u]]
    BY DEF CancelWaiting, QueueInv, QueueShape
  <1>2. Restated({t}, "cancelled")
    BY <1>1, SomeRestated
  <1>3. /\ running' = running /\ grace' = grace /\ shut' = shut
        /\ \/ t \in ToSet(queue) /\ queue' = Without(queue, t) /\ delayed' = delayed
           \/ t \in delayed /\ delayed' = delayed \ {t} /\ queue' = queue
    BY DEF CancelWaiting, modeVars
  <1>4. t \in Waiting /\ t \notin running
    BY <1>3 DEF PlaceInv, Matched, Waiting
  <1>5. t \in ToSet(queue) => /\ IsInjective(Without(queue, t))
                              /\ ToSet(Without(queue, t)) = ToSet(queue) \ {t}
    BY WithoutPlaces DEF QueueInv, QueueShape, PlaceInv, Disjoint
  <1>6. Disjoint' /\ Waiting' = Waiting \ {t}
    BY <1>3, <1>5 DEF PlaceInv, Disjoint, Waiting
  <1>7. running' = running \ {t}
    BY <1>3, <1>4
  <1> QED
    BY <1>2, <1>3, <1>6, <1>7, MovedStep

LEMMA CancelRunningPlaces ==
    ASSUME QueueInv, PlaceInv, NEW t \in Task, CancelRunning(t)
    PROVE  Good
  <1>1. task' = [u \in Task |-> IF u \in {t} THEN [task[u] EXCEPT !.status = "cancelled"]
                                           ELSE task[u]]
    BY DEF CancelRunning, QueueInv, QueueShape
  <1>2. Restated({t}, "cancelled")
    BY <1>1, SomeRestated
  <1>3. /\ t \in running /\ running' = running \ {t} /\ queue' = queue
        /\ delayed' = delayed /\ grace' = grace /\ shut' = shut
    BY DEF CancelRunning, modeVars
  <1>4. t \notin Waiting
    BY <1>3 DEF PlaceInv, Matched
  <1>5. Disjoint' /\ Waiting' = Waiting \ {t}
    BY <1>3, <1>4 DEF PlaceInv, Disjoint, Waiting
  <1> QED
    BY <1>2, <1>3, <1>5, MovedStep

LEMMA ClearPendingPlaces == QueueInv /\ PlaceInv /\ ClearPending => Good
  <1> SUFFICES ASSUME QueueInv, PlaceInv, ClearPending PROVE Good
    OBVIOUS
  <1> DEFINE cleared == {t \in ToSet(queue) \union delayed : Owned(t)}
  <1>1. /\ running' = running /\ grace' = grace /\ shut' = shut
        /\ delayed' = delayed \ cleared
        /\ queue' \in SeqOf(Task, Len(queue)) /\ Others(queue', queue)
        /\ task' = [t \in Task |-> IF t \in cleared THEN [task[t] EXCEPT !.status = "removed"]
                                                   ELSE task[t]]
    BY DEF ClearPending, modeVars
  <1>2. queue \in Seq(Task) /\ queue' \in Seq(Task)
    BY <1>1, BoundedSeqIsSeq, LenProperties DEF QueueInv, QueueShape
  <1>3. IsInjective(queue') /\ ToSet(queue') = {t \in ToSet(queue) : ~Owned(t)}
    BY <1>1, <1>2, OthersPlaces DEF PlaceInv, Disjoint
  <1>4. ToSet(queue') = ToSet(queue) \ cleared
    BY <1>3
  <1>5. cleared \subseteq ToSet(queue) \union delayed
    OBVIOUS
  <1> HIDE DEF cleared
  <1>6. Restated(cleared, "removed")
    BY <1>1, SomeRestated
  <1>7. cleared \subseteq Waiting /\ cleared \intersect grace = {}
    BY <1>5 DEF PlaceInv, Disjoint, Waiting
  <1>8. Disjoint' /\ Waiting' = Waiting \ cleared
    BY <1>1, <1>3, <1>4, <1>7 DEF PlaceInv, Disjoint, Waiting
  <1>9. \A t \in cleared \intersect Task : task[t].status # "cancelled" /\ t \notin running
    BY <1>7 DEF PlaceInv, Matched
  <1>10. running' = running \ cleared
    BY <1>1, <1>9 DEF QueueInv, QueueShape
  <1> QED
    BY <1>1, <1>6, <1>8, <1>9, <1>10, MovedStep

LEMMA SwitchOwnerPlaces ==
    ASSUME QueueInv, PlaceInv, NEW o, SwitchOwner(o)
    PROVE  Good
  <1>1. Restated(Foreign(o), "cancelled")
    BY SomeRestated DEF SwitchOwner
  <1>2. /\ running' = running \ Foreign(o) /\ queue' = queue
        /\ delayed' = delayed /\ grace' = grace /\ shut' = shut
    BY DEF SwitchOwner
  <1>3. \A t \in Foreign(o) : t \notin Waiting
    BY DEF Foreign, PlaceInv, Matched, QueueInv, QueueShape
  <1>4. Disjoint' /\ Waiting' = Waiting \ Foreign(o)
    BY <1>2, <1>3 DEF PlaceInv, Disjoint, Waiting
  <1> QED
    BY <1>1, <1>2, <1>4, MovedStep

LEMMA ShutdownPlaces == QueueInv /\ PlaceInv /\ Shutdown => Good
  <1> SUFFICES ASSUME QueueInv, PlaceInv, Shutdown PROVE Good
    OBVIOUS
  <1> DEFINE dropped == ToSet(queue) \union delayed \union running
  <1>1. /\ running' = {} /\ queue' = <<>> /\ delayed' = {} /\ grace' = {} /\ shut'
        /\ task' = [t \in Task |-> IF t \in dropped THEN [task[t] EXCEPT !.status = "cancelled"]
                                                   ELSE task[t]]
    BY DEF Shutdown
  <1>2. running \subseteq dropped
    OBVIOUS
  <1> HIDE DEF dropped
  <1>3. Restated(dropped, "cancelled")
    BY <1>1, SomeRestated
  <1>4. \A t \in Task : task'[t].status # "running"
    BY <1>2, <1>3 DEF Restated, PlaceInv, Matched
  <1>5. Disjoint' /\ Waiting' = {}
    BY <1>1, EmptyPlaces DEF Disjoint, Waiting
  <1> QED
    BY <1>1, <1>3, <1>4, <1>5 DEF Good, PlaceInv, Matched, CancelledKept, Restated

LEMMA ModePlaces ==
    ASSUME QueueInv, PlaceInv, NEW p,
           Pause \/ Resume \/ ClearRollbackDisabled(p) \/ Clock \/ UNCHANGED vars
    PROVE  Good
  <1>1. /\ task' = task /\ running' = running /\ queue' = queue
        /\ delayed' = delayed /\ grace' = grace /\ shut' = shut
    BY DEF Pause, Resume, ClearRollbackDisabled, Clock, vars, queueVars, placeVars, modeVars
  <1> QED
    BY <1>1, NoneRestated, StillStep

----------------------------------------------------------------------------
(* The theorems                                                              *)

LEMMA PlaceInit == Init => PlaceInv
  <1> SUFFICES ASSUME Init PROVE PlaceInv
    OBVIOUS
  <1>1. /\ queue = <<>> /\ running = {} /\ delayed = {} /\ grace = {}
        /\ \A t \in Task : task[t].status = "new"
    BY DEF Init
  <1>2. Disjoint /\ Waiting = {}
    BY <1>1, EmptyPlaces DEF Disjoint, Waiting
  <1> QED
    BY <1>1, <1>2 DEF PlaceInv, Matched

LEMMA PlaceNext == QueueInv /\ PlaceInv /\ [Next]_vars => Good
  <1> SUFFICES ASSUME QueueInv, PlaceInv, [Next]_vars PROVE Good
    OBVIOUS
  <1>1. CASE ProcessNext
    BY <1>1, SkipPlaces, PostponePlaces, ExecutePlaces DEF ProcessNext
  <1>2. CASE Timers
    BY <1>2, TimerPlaces, TimeoutPlaces DEF Timers
  <1>3. CASE Executors
    BY <1>3, AnswerPlaces DEF Executors
  <1>4. CASE Calls
    BY <1>4, AddPlaces, CancelWaitingPlaces, CancelRunningPlaces, TimerPlaces,
       ManualRetryPlaces, ClearPendingPlaces, ModePlaces, ShutdownPlaces, SwitchOwnerPlaces
    DEF Calls
  <1>5. CASE Clock \/ UNCHANGED vars
    BY <1>5, ModePlaces
  <1> QED
    BY <1>1, <1>2, <1>3, <1>4, <1>5 DEF Next

(* Cardinalities of the index sets of Places.                                *)
LEMMA PlaceInvConserves == QueueInv /\ PlaceInv => Conserved
  <1> SUFFICES ASSUME QueueInv, PlaceInv PROVE Conserved
    OBVIOUS
  <1>1. \A i, j \in DOMAIN queue : i # j => queue[i] # queue[j]
    BY DEF PlaceInv, Disjoint, IsInjective
  <1>2. ASSUME NEW t \in Task
        PROVE  LET in == {i \in 1..4 : Places(t)[i]} IN
               /\ Live(t) /\ ~shut => Cardinality(in) = 1
               /\ ~Live(t) => in = {}
               /\ t \in running <=> task[t].status = "running"
    <2> DEFINE in == {i \in 1..4 : Places(t)[i]}
    <2>1. 1..4 = {1, 2, 3, 4}
      OBVIOUS
    <2>2. /\ 1 \in in <=> t \in ToSet(queue)
          /\ 2 \in in <=> t \in running
          /\ 3 \in in <=> t \in delayed
          /\ 4 \in in <=> t \in grace
          /\ in \subseteq {1, 2, 3, 4}
      BY <2>1 DEF Places
    <2> HIDE DEF in
    <2>3. /\ t \in running <=> task[t].status = "running"
          /\ t \in Waiting => task[t].status = "pending"
          /\ task[t].status = "pending" /\ ~shut => t \in Waiting
      BY DEF PlaceInv, Matched
    <2>4. ~Live(t) => in = {}
      BY <2>2, <2>3 DEF Live, Waiting
    <2>5. Live(t) /\ ~shut => \E i \in {1, 2, 3, 4} : in = {i}
      BY <2>2, <2>3 DEF Live, Waiting, PlaceInv, Disjoint
    <2>6. \A i : Cardinality({i}) = 1
      BY FS_Singleton
    <2> QED
      BY <2>3, <2>4, <2>5, <2>6 DEF in
  <1> QED
    BY <1>1, <1>2 DEF Conserved

(* The places never lose or double a task: one the queue still owes an       *)
(* outcome is in exactly one of _queue, _running, _delayed and the back-off  *)
(* timers, and a finished one in none, after any number of retries,          *)
(* postponements, cancellations, switches and emergency releases.            *)
THEOREM QueueConserved == Spec => []Conserved
  <1>1. Good => PlaceInv'
    BY DEF Good
  <1> QED
    BY <1>1, QueueInitInv, QueueNextInv, PlaceInit, PlaceNext, PlaceInvConserves, PTL DEF Spec

(* cancel() is final: no answer, timer, timeout or retry that comes after it *)
(* gives a cancelled task another status.                                    *)
THEOREM QueueCancelFinal == Spec => CancelFinal
  <1>1. Good => /\ PlaceInv'
               /\ [\A t \in Task : task[t].status = "cancelled"
                                      => task'[t].status = "cancelled"]_vars
    BY DEF Good, CancelledKept
  <1> QED
    BY <1>1, QueueInitInv, QueueNextInv, PlaceInit, PlaceNext, PTL DEF Spec, CancelFinal

----------------------------------------------------------------------------
(* Types of the fields the other invariants do not name                      *)

RestOK ==
    /\ quotaBlocked \subseteq Task
    /\ due \in [Task -> [day : 1..MaxDay + 1, at : Nat]]
    /\ paused \in BOOLEAN /\ shut \in BOOLEAN /\ owner \in Logins
    /\ proven \subseteq Name /\ rollbackOff \subseteq Name
    /\ expired \subseteq Attempt

(* A handler that starts no timer and counts nothing as timed out.           *)
LEMMA RestStep ==
    ASSUME RestOK, UNCHANGED <<due, expired, paused, shut, owner>>,
           quotaBlocked' \subseteq quotaBlocked,
           proven' \subseteq Name, rollbackOff' \subseteq Name
    PROVE  RestOK'
  BY DEF RestOK

LEMMA WaitIsNat ==
    ASSUME GuardTypeOK, NEW p \in Platform, NEW a \in Account \union {NoAccount}
    PROVE  RemainingWait(p, a) \in Nat
  <1>1. \A x \in Nat, y \in Int : Monus(x, y) \in Nat
    BY DEF Monus
  <1>2. ASSUME NEW k \in Key, NEW m \in Nat PROVE Remaining(k, m) \in Nat
    <2>1. now - timeline[k] \in Int
      BY KeyType
    <2> QED
      BY <1>1, <2>1 DEF Remaining
  <1>3. <<p, Shared>> \in Key /\ (a # NoAccount => <<p, a>> \in Key)
    BY DEF Key
  <1>4. PlatformWait(p) \in Nat /\ AccountWait(p, a) \in Nat
    BY <1>2, <1>3, GuardConstants DEF PlatformWait, AccountWait
  <1> QED
    BY <1>4 DEF RemainingWait

LEMMA PostponeRest == QueueInv /\ RestOK /\ Postpone => RestOK'
  <1> SUFFICES ASSUME QueueInv, RestOK, Postpone PROVE RestOK'
    OBVIOUS
  <1> DEFINE t == Head(queue) p == PlatformOf[t] a == AccountOf[t]
             d == IF QuotaSpent(p, a) THEN [day |-> today + 1, at |-> now]
                  ELSE [day |-> 1, at |-> now + RemainingWait(p, a)]
  <1>1. /\ due' = [due EXCEPT ![t] = d]
        /\ quotaBlocked' = IF QuotaSpent(p, a) THEN quotaBlocked \union {t} ELSE quotaBlocked
        /\ UNCHANGED <<modeVars, trustVars, histVars>>
    BY DEF Postpone
  <1>2. t \in Task
    BY HeadIsTask DEF Postpone, QueueInv
  <1>3. p \in Platform /\ a \in Account \union {NoAccount}
    BY <1>2, QueueConstants
  <1>4. now \in Nat /\ today \in 1..MaxDay /\ MaxTime \in Nat /\ MaxDay \in Nat
    BY GuardConstants DEF QueueInv, GuardTypeOK, Days
  <1>5. RemainingWait(p, a) \in Nat
    BY <1>3, <1>4, WaitIsNat DEF QueueInv
  <1>6. d \in [day : 1..MaxDay + 1, at : Nat]
    <2>1. CASE QuotaSpent(p, a)
      BY <1>4, <2>1
    <2>2. CASE ~QuotaSpent(p, a)
      BY <1>4, <1>5, <2>2
    <2> QED
      BY <2>1, <2>2
  <1> HIDE DEF t, p, a, d
  <1> QED
    BY <1>1, <1>2, <1>6 DEF RestOK, modeVars, trustVars, histVars

LEMMA FailureRest ==
    ASSUME QueueInv, RestOK, NEW t \in running, NEW a, NEW m, NEW r, Failure(t, a, m, r),
           expired' = expired \/ expired' = expired \union {Current(t)}
    PROVE  RestOK'
  <1>1. t \in Task /\ Current(t) \in Attempt /\ PlatformName(t) \in Name
    BY CurrentIsAttempt, QueueConstants DEF QueueInv, PlatformName
  <1>2. now \in Nat /\ Grace \in Nat /\ MaxDay \in Nat /\ MaxDay >= 1
    BY GuardConstants, QueueConstants DEF QueueInv, GuardTypeOK
  <1>3. [day |-> 1, at |-> now + Grace] \in [day : 1..MaxDay + 1, at : Nat]
    BY <1>2
  <1>4. /\ \/ due' = due
           \/ due' = [due EXCEPT ![t] = [day |-> 1, at |-> now + Grace]]
        /\ rollbackOff' = rollbackOff \/ rollbackOff' = rollbackOff \union {PlatformName(t)}
        /\ UNCHANGED <<quotaBlocked, modeVars, proven>>
    BY DEF Failure
  <1> QED
    BY <1>1, <1>3, <1>4 DEF RestOK, modeVars

LEMMA AnswerRest ==
    ASSUME QueueInv, RestOK, NEW e, NEW m, NEW r,
           \/ ExecutorReturns(e) \/ ExecutorThrows(e, m, r)
           \/ ExecutorRefuses(e, r) \/ PlatformWrite(e)
    PROVE  RestOK'
  <1>1. expired' = expired
    BY DEF ExecutorReturns, ExecutorThrows, ExecutorRefuses, PlatformWrite, histVars
  <1>2. CASE PlatformWrite(e) \/ ~Awaited(e)
    <2>1. UNCHANGED <<placeVars, modeVars, trustVars>>
      BY <1>2 DEF ExecutorReturns, ExecutorThrows, ExecutorRefuses, PlatformWrite
    <2> QED
      BY <1>1, <2>1, RestStep DEF placeVars, modeVars, trustVars, RestOK
  <1>3. CASE ~PlatformWrite(e) /\ Awaited(e)
    <2>1. e.task \in running
      BY <1>3 DEF Awaited
    <2>2. PlatformName(e.task) \in Name
      BY <2>1, QueueConstants DEF QueueInv, QueueShape, PlatformName
    <2>3. CASE ExecutorReturns(e)
      BY <1>1, <1>3, <2>2, <2>3 DEF ExecutorReturns, Success, RestOK, modeVars
    <2>4. CASE ExecutorThrows(e, m, r) \/ ExecutorRefuses(e, r)
      BY <1>1, <1>3, <2>1, <2>4, FailureRest DEF ExecutorThrows, ExecutorRefuses
    <2> QED
      BY <1>3, <2>3, <2>4
  <1> QED
    BY <1>2, <1>3

LEMMA CallRest ==
    ASSUME QueueInv, RestOK, NEW t, NEW u, NEW p, NEW o \in Logins,
           \/ Skip \/ Execute \/ DelayOver(t) \/ GraceOver(t) \/ Add(t) \/ ManualRetry(t, u)
           \/ CancelWaiting(t) \/ CancelRunning(t) \/ ClearPending \/ Pause \/ Resume
           \/ Shutdown \/ ClearRollbackDisabled(p) \/ SwitchOwner(o) \/ EmergencyRelease(t)
           \/ Clock \/ UNCHANGED vars
    PROVE  RestOK'
  <1>1. CASE Pause \/ Resume \/ Shutdown \/ SwitchOwner(o)
    <2>1. CASE Pause \/ Resume
      BY <2>1 DEF Pause, Resume, RestOK, placeVars, trustVars, histVars
    <2>2. CASE Shutdown \/ SwitchOwner(o)
      BY <2>2 DEF Shutdown, SwitchOwner, RestOK, trustVars, histVars
    <2> QED
      BY <1>1, <2>1, <2>2
  <1>2. CASE Skip \/ Execute \/ DelayOver(t) \/ GraceOver(t) \/ Add(t) \/ ManualRetry(t, u)
    BY <1>2, RestStep DEF Skip, Execute, DelayOver, GraceOver, Add, ManualRetry,
       modeVars, trustVars, histVars, RestOK
  <1>3. CASE CancelWaiting(t) \/ CancelRunning(t) \/ ClearPending
    BY <1>3, RestStep DEF CancelWaiting, CancelRunning, ClearPending, modeVars, trustVars,
       histVars, RestOK
  <1>4. CASE ClearRollbackDisabled(p) \/ EmergencyRelease(t)
    BY <1>4, RestStep DEF ClearRollbackDisabled, EmergencyRelease, placeVars, modeVars,
       trustVars, histVars, RestOK
  <1>5. CASE Clock \/ UNCHANGED vars
    BY <1>5, RestStep DEF Clock, vars, queueVars, placeVars, modeVars, trustVars, histVars, RestOK
  <1> QED
    BY <1>1, <1>2, <1>3, <1>4, <1>5

LEMMA RestNext == QueueInv /\ RestOK /\ [Next]_vars => RestOK'
  <1> SUFFICES ASSUME QueueInv, RestOK, [Next]_vars PROVE RestOK'
    OBVIOUS
  <1>1. owner \in Logins
    BY DEF RestOK
  <1>2. CASE ProcessNext
    BY <1>1, <1>2, CallRest, PostponeRest DEF ProcessNext
  <1>3. CASE Timers
    <2>1. ASSUME NEW t, Timeout(t) PROVE RestOK'
      BY <2>1, FailureRest DEF Timeout
    <2> QED
      BY <1>1, <1>3, <2>1, CallRest DEF Timers
  <1>4. CASE Executors
    BY <1>4, AnswerRest DEF Executors
  <1>5. CASE Calls
    BY <1>1, <1>5, CallRest DEF Calls
  <1>6. CASE Clock \/ UNCHANGED vars
    BY <1>1, <1>6, CallRest
  <1> QED
    BY <1>2, <1>3, <1>4, <1>5, <1>6 DEF Next

----------------------------------------------------------------------------
(* What is written to the store: serialize() under the user logged in        *)

(* A snapshot is well formed: each task it lists is its user's, is listed as *)
(* waiting once at most and has its remaining retries with it.               *)
Stored(s) == ToSet(s.pending) \union s.running \union s.delayed

SnapshotShape(s, o) ==
    /\ SnapshotType(s)
    /\ IsInjective(s.pending)
    /\ ToSet(s.pending) \intersect s.delayed = {} /\ s.running \intersect s.delayed = {}
    /\ \A t \in Stored(s) : OwnerOf[t] = o /\ s.left[t] \in 0..Retry + 1

Listed == ToSet(queue) \union running \union delayed

Snapshots == DOMAIN snapshot = Owner /\ \A o \in Owner : SnapshotShape(snapshot[o], o)

Of(S, o) == {t \in S : OwnerOf[t] = o}

(* The step saved S, as far as it is user o's, and nobody else's tasks.      *)
Saves(o, S) ==
    /\ \A u \in Owner : u # o => snapshot'[u] = snapshot[u]
    /\ o \in Owner => /\ snapshot'[o].valid
                     /\ Stored(snapshot'[o]) = Of(S, o)

LEMMA UserIsOwner == \A t \in Task : OwnerOf[t] \in Owner
  BY QueueConstants DEF OwnerOf

LEMMA EmptySnapshot == ASSUME NEW o PROVE SnapshotShape(NoSnapshot, o) /\ Stored(NoSnapshot) = {}
  <1>1. <<>> \in Seq(Task)
    OBVIOUS
  <1> QED
    BY <1>1, EmptyPlaces DEF SnapshotShape, SnapshotType, NoSnapshot, Stored

LEMMA SerializeShape ==
    ASSUME NEW q \in Seq(Task), NEW r \in SUBSET Task, NEW d \in SUBSET Task, NEW o,
           NEW tk \in [Task -> TaskRec], IsInjective(q), ToSet(q) \intersect d = {},
           r \intersect d = {}
    PROVE  /\ SnapshotShape(Serialize(q, r, d, tk, o), o)
           /\ Serialize(q, r, d, tk, o).valid
           /\ Stored(Serialize(q, r, d, tk, o)) = Of(ToSet(q) \union r \union d, o)
           /\ Serialize(q, r, d, tk, o).running = Of(r, o)
           /\ ToSet(Serialize(q, r, d, tk, o).pending) = Of(ToSet(q), o)
  <1> DEFINE mine == {t \in ToSet(q) \union r \union d : OwnerOf[t] = o}
             p == OwnedBy(q, o)
             s == Serialize(q, r, d, tk, o)
  <1>1. /\ p \in Seq(Task) /\ ToSet(p) = {t \in ToSet(q) : OwnerOf[t] = o} /\ IsInjective(p)
    BY OwnedByParts
  <1>2. ToSet(q) \subseteq Task
    BY InQueue
  <1>3. mine \subseteq Task
    BY <1>2
  <1>4. /\ s = [pending |-> p, running |-> r \intersect mine, delayed |-> d \intersect mine,
                left |-> [t \in mine |-> tk[t].left], valid |-> TRUE]
    BY DEF Serialize
  <1> DEFINE l == [t \in mine |-> tk[t].left]
  <1>5. \A t \in mine : l[t] \in 0..Retry + 1
    BY <1>3 DEF TaskRec
  <1> HIDE DEF p, l
  <1>6. /\ s.pending = p /\ s.running = r \intersect mine /\ s.delayed = d \intersect mine
        /\ s.left = l /\ s.valid /\ DOMAIN s = {"pending", "running", "delayed", "left", "valid"}
    BY <1>4 DEF l
  <1> HIDE DEF s
  <1>7. Stored(s) = mine
    BY <1>1, <1>6 DEF Stored
  <1>8. ToSet(p) \intersect (d \intersect mine) = {}
    BY <1>1
  <1>9. SnapshotType(s)
    BY <1>1, <1>3, <1>6 DEF SnapshotType
  <1>10. SnapshotShape(s, o)
    BY <1>1, <1>5, <1>6, <1>7, <1>8, <1>9 DEF SnapshotShape
  <1>11. s.running = Of(r, o) /\ ToSet(s.pending) = Of(ToSet(q), o)
    BY <1>1, <1>6 DEF Of
  <1> QED
    BY <1>6, <1>7, <1>10, <1>11 DEF s, Of

LEMMA SavedSnapshot ==
    ASSUME Snapshots, NEW o \in Owner \union {NoOwner}, NEW q \in Seq(Task),
           NEW r \in SUBSET Task, NEW d \in SUBSET Task, NEW tk \in [Task -> TaskRec],
           IsInjective(q), ToSet(q) \intersect d = {}, r \intersect d = {},
           snapshot' = SavedAs(q, r, d, tk, o)
    PROVE  /\ Snapshots' /\ Saves(o, ToSet(q) \union r \union d)
           /\ o \in Owner => /\ snapshot'[o].running = Of(r, o)
                            /\ ToSet(snapshot'[o].pending) = Of(ToSet(q), o)
  <1> DEFINE s == Serialize(q, r, d, tk, o)
  <1>1. /\ SnapshotShape(s, o) /\ s.valid
        /\ Stored(s) = Of(ToSet(q) \union r \union d, o)
        /\ s.running = Of(r, o) /\ ToSet(s.pending) = Of(ToSet(q), o)
    BY SerializeShape
  <1>2. snapshot' = IF o = NoOwner THEN snapshot ELSE [snapshot EXCEPT ![o] = s]
    BY DEF SavedAs
  <1> HIDE DEF s
  <1>3. CASE o = NoOwner
    BY <1>2, <1>3, QueueConstants DEF Snapshots, Saves
  <1>4. CASE o # NoOwner
    <2>1. /\ o \in Owner /\ DOMAIN snapshot' = Owner /\ snapshot'[o] = s
          /\ \A u \in Owner : u # o => snapshot'[u] = snapshot[u]
      BY <1>2, <1>4 DEF Snapshots
    <2> QED
      BY <1>1, <2>1 DEF Snapshots, Saves
  <1> QED
    BY <1>3, <1>4

(* A handler either writes no snapshot and lists no task that was not        *)
(* waiting or in flight, or writes one that lists all its user's tasks, those *)
(* in flight as running.                                                     *)
Unsaved ==
    /\ snapshot' = snapshot
    /\ Listed' \subseteq Listed \union grace /\ running' \subseteq running

FlightsSaved(o) ==
    \A t \in running' :
        IF OwnerOf[t] = o
        THEN t \in snapshot'[o].running /\ t \notin ToSet(snapshot'[o].pending)
        ELSE t \in running

SavesAll(o) ==
    FlightsSaved(o) /\
    \E S \in SUBSET Task :
        /\ Saves(o, S) /\ Listed' \subseteq S
        /\ shut' \/ S \subseteq Listed' \union running
        /\ \A t \in Listed' : OwnerOf[t] # o => t \in Listed \union grace

Recorded == Snapshots' /\ (Unsaved \/ \E o \in Owner \union {NoOwner} : SavesAll(o))

PlacesOK == QueueInv /\ PlaceInv /\ RestOK /\ Snapshots

LEMMA NotSaved == ASSUME PlacesOK, Unsaved PROVE Recorded
  BY DEF PlacesOK, Unsaved, Recorded, Snapshots

(* The places, as sets of tasks.                                             *)
PlaceTypes ==
    /\ queue \in Seq(Task) /\ IsInjective(queue) /\ ToSet(queue) \subseteq Task
    /\ running \subseteq Task /\ delayed \subseteq Task /\ grace \subseteq Task
    /\ ToSet(queue) \intersect delayed = {} /\ running \intersect delayed = {}
    /\ running \intersect ToSet(queue) = {}
    /\ task \in [Task -> TaskRec]

LEMMA PlaceSets == QueueInv /\ PlaceInv => PlaceTypes
  <1> SUFFICES ASSUME QueueInv, PlaceInv PROVE PlaceTypes
    OBVIOUS
  <1>1. ToSet(queue) \subseteq Task
    BY InQueue DEF QueueInv, QueueShape
  <1>2. \A t \in running : t \notin Waiting
    BY DEF PlaceInv, Matched, QueueInv, QueueShape
  <1> QED
    BY <1>1, <1>2 DEF PlaceInv, Disjoint, Waiting, QueueInv, QueueShape, PlaceTypes

LEMMA UserOrNone == RestOK => owner \in Owner \union {NoOwner}
  BY QueueConstants DEF RestOK

(* A handler that saves what it leaves, or what it leaves and what it takes  *)
(* out of running just after.                                                *)
LEMMA SavedNow ==
    ASSUME PlacesOK, QueueInv', PlaceInv', NEW o \in Owner \union {NoOwner}, NEW r,
           NEW tk \in {task, task'}, running' \subseteq r,
           r = running' \/ (r = running /\ delayed' \subseteq delayed),
           snapshot' = SavedAs(queue', r, delayed', tk, o),
           \A t \in Listed' : OwnerOf[t] # o => t \in Listed \union grace,
           \A t \in running' : OwnerOf[t] # o => t \in running
    PROVE  Recorded /\ SavesAll(o)
  <1> DEFINE S == ToSet(queue') \union r \union delayed'
  <1>1. PlaceTypes' /\ PlaceTypes
    BY PlaceSets, PTL DEF PlacesOK
  <1>2. /\ queue' \in Seq(Task) /\ IsInjective(queue') /\ ToSet(queue') \subseteq Task
        /\ running' \subseteq Task /\ delayed' \subseteq Task /\ tk \in [Task -> TaskRec]
        /\ ToSet(queue') \intersect delayed' = {} /\ running' \intersect delayed' = {}
        /\ running \subseteq Task /\ running \intersect delayed = {}
        /\ running' \intersect ToSet(queue') = {}
    BY <1>1 DEF PlaceTypes
  <1>3. r \in SUBSET Task /\ r \intersect delayed' = {}
    BY <1>2
  <1>4. /\ Snapshots' /\ Saves(o, S)
        /\ o \in Owner => /\ snapshot'[o].running = Of(r, o)
                         /\ ToSet(snapshot'[o].pending) = Of(ToSet(queue'), o)
    BY <1>2, <1>3, SavedSnapshot DEF PlacesOK
  <1>6. FlightsSaved(o)
    BY <1>2, <1>4, UserIsOwner DEF FlightsSaved, Of
  <1>5. S \in SUBSET Task /\ Listed' \subseteq S /\ S \subseteq Listed' \union running
    BY <1>2, <1>3 DEF Listed
  <1> HIDE DEF S
  <1> QED
    BY <1>4, <1>5, <1>6 DEF Recorded, SavesAll

----------------------------------------------------------------------------
(* Each handler's save                                                       *)

LEMMA AppendSet ==
    ASSUME NEW q \in Seq(Task), NEW t \in Task
    PROVE  ToSet(Append(q, t)) = ToSet(q) \union {t}
  <1>1. Len(q) \in Nat /\ ToSet(q) = {q[i] : i \in 1..Len(q)}
    BY InQueue
  <1>2. /\ Append(q, t) \in Seq(Task) /\ Len(Append(q, t)) = Len(q) + 1
        /\ \A i \in 1..Len(q) : Append(q, t)[i] = q[i]
        /\ Append(q, t)[Len(q) + 1] = t
    BY AppendProperties
  <1>3. ToSet(Append(q, t)) = {Append(q, t)[i] : i \in 1..Len(q) + 1}
    BY <1>2, InQueue
  <1>4. /\ \A i \in 1..Len(q) + 1 : i \in 1..Len(q) \/ i = Len(q) + 1
        /\ 1..Len(q) \subseteq 1..Len(q) + 1 /\ Len(q) + 1 \in 1..Len(q) + 1
    BY <1>1
  <1> QED
    BY <1>1, <1>2, <1>3, <1>4

LEMMA ExecuteRecorded ==
    ASSUME PlacesOK, QueueInv', PlaceInv', Execute
    PROVE  Recorded /\ SavesAll(owner)
  <1> DEFINE t == Head(queue)
  <1>1. Scanning /\ PlaceTypes
    BY PlaceSets DEF Execute, PlacesOK
  <1>2. t \in ToSet(queue) /\ ToSet(Tail(queue)) = ToSet(queue) \ {t}
    BY <1>1, LoopPlaces DEF PlacesOK
  <1>3. /\ queue' = Tail(queue) /\ delayed' = delayed /\ running' = running \union {t}
        /\ snapshot' = SavedAs(queue', running', delayed', task, owner)
    BY DEF Execute, Saved
  <1> HIDE DEF t
  <1>4. \A u \in Listed' : u \in Listed \union grace
    BY <1>2, <1>3 DEF Listed
  <1>5. \A u \in running' : OwnerOf[u] # owner => u \in running
    BY <1>1, <1>3 DEF Execute, Eligible, Owned, t
  <1> QED
    BY <1>1, <1>3, <1>4, <1>5, UserOrNone, SavedNow DEF PlacesOK, PlaceTypes

LEMMA LoopRecorded ==
    ASSUME PlacesOK, QueueInv', PlaceInv', ProcessNext
    PROVE  Recorded
  <1> DEFINE t == Head(queue)
  <1>1. Scanning /\ queue \in Seq(Task) /\ IsInjective(queue) /\ PlaceTypes
    BY PlaceSets DEF ProcessNext, Skip, Postpone, Execute, PlacesOK, PlaceTypes
  <1>2. /\ t \in ToSet(queue) /\ ToSet(Tail(queue)) = ToSet(queue) \ {t} /\ queue # <<>>
        /\ t \in Task
    BY <1>1, LoopPlaces DEF PlacesOK
  <1>3. CASE Skip
    <2>1. ToSet(queue') = ToSet(queue)
      BY <1>1, <1>2, <1>3, RotatedPlaces DEF Skip
    <2> QED
      BY <1>3, <2>1, NotSaved DEF Skip, Unsaved, Listed
  <1>4. CASE Postpone
    <2>1. /\ queue' = Tail(queue) /\ delayed' = delayed \union {t} /\ running' = running
          /\ snapshot' = SavedAs(queue', running', delayed', task', owner)
      BY <1>4 DEF Postpone, Saved
    <2> HIDE DEF t
    <2>2. \A u \in Listed' : u \in Listed \union grace
      BY <1>2, <2>1 DEF Listed
    <2> QED
      BY <2>1, <2>2, UserOrNone, SavedNow DEF PlacesOK
  <1>5. CASE Execute
    BY <1>5, ExecuteRecorded
  <1> QED
    BY <1>3, <1>4, <1>5 DEF ProcessNext

LEMMA EnterRecorded ==
    ASSUME PlacesOK, QueueInv', PlaceInv', NEW t \in Task, NEW u \in Task,
           Add(t) \/ ManualRetry(u, t)
    PROVE  Recorded
  <1>1. /\ queue' = Append(queue, t) /\ delayed' = delayed /\ running' = running
        /\ snapshot' = SavedAs(queue', running', delayed', task', owner)
        /\ OwnerOf[t] = owner
    BY DEF Add, ManualRetry, Saved, Owned
  <1>2. ToSet(queue') = ToSet(queue) \union {t}
    BY <1>1, AppendSet, PlaceSets DEF PlacesOK, PlaceTypes
  <1>3. \A v \in Listed' : OwnerOf[v] # owner => v \in Listed \union grace
    BY <1>1, <1>2 DEF Listed
  <1> QED
    BY <1>1, <1>3, UserOrNone, SavedNow DEF PlacesOK

LEMMA BackRecorded ==
    ASSUME PlacesOK, NEW t \in Task, DelayOver(t) \/ GraceOver(t) \/ EmergencyRelease(t)
    PROVE  Recorded
  <1>1. /\ queue' = <<t>> \o queue /\ running' = running /\ snapshot' = snapshot
        /\ delayed' \subseteq delayed /\ t \in delayed \union grace
    BY DEF DelayOver, GraceOver, EmergencyRelease
  <1>2. queue \in Seq(Task) /\ IsInjective(queue) /\ t \notin ToSet(queue)
    BY <1>1 DEF PlacesOK, QueueInv, QueueShape, PlaceInv, Disjoint
  <1>3. ToSet(queue') = ToSet(queue) \union {t}
    BY <1>1, <1>2, FrontPlaces
  <1> QED
    BY <1>1, <1>3, NotSaved DEF Unsaved, Listed

LEMMA FailureRecorded ==
    ASSUME PlacesOK, QueueInv', PlaceInv', NEW t \in running, NEW a, NEW m, NEW r,
           Failure(t, a, m, r)
    PROVE  Recorded
  <1>1. t \in Task /\ queue \in Seq(Task)
    BY PlaceSets DEF PlacesOK, PlaceTypes
  <1>2. /\ queue' = queue \/ queue' = Append(queue, t)
        /\ running' = running \ {t} /\ delayed' = delayed
        /\ snapshot' = SavedAs(queue', running, delayed', task', owner)
    BY DEF Failure, Saved
  <1>3. ToSet(Append(queue, t)) = ToSet(queue) \union {t}
    BY <1>1, AppendSet
  <1>4. \A u \in Listed' : u \in Listed
    BY <1>2, <1>3 DEF Listed
  <1> QED
    BY <1>2, <1>4, UserOrNone, SavedNow DEF PlacesOK

LEMMA AnswerRecorded ==
    ASSUME PlacesOK, QueueInv', PlaceInv', NEW e, NEW m, NEW r,
           \/ ExecutorReturns(e) \/ ExecutorThrows(e, m, r)
           \/ ExecutorRefuses(e, r) \/ PlatformWrite(e)
    PROVE  Recorded
  <1>1. CASE PlatformWrite(e) \/ ~Awaited(e)
    <2>1. UNCHANGED <<placeVars, snapshot>>
      BY <1>1 DEF PlatformWrite, ExecutorReturns, ExecutorThrows, ExecutorRefuses
    <2> QED
      BY <2>1, NotSaved DEF placeVars, Unsaved, Listed
  <1>2. CASE ~PlatformWrite(e) /\ Awaited(e)
    <2>1. e.task \in running
      BY <1>2 DEF Awaited
    <2>2. CASE ExecutorReturns(e)
      <3>1. /\ queue' = queue /\ delayed' = delayed /\ running' = running \ {e.task}
            /\ snapshot' = SavedAs(queue', running, delayed', task', owner)
        BY <1>2, <2>2 DEF ExecutorReturns, Success, Saved
      <3>2. \A u \in Listed' : u \in Listed
        BY <3>1 DEF Listed
      <3> QED
        BY <3>1, <3>2, UserOrNone, SavedNow DEF PlacesOK
    <2>3. CASE ExecutorThrows(e, m, r) \/ ExecutorRefuses(e, r)
      BY <1>2, <2>1, <2>3, FailureRecorded DEF ExecutorThrows, ExecutorRefuses
    <2> QED
      BY <1>2, <2>2, <2>3
  <1> QED
    BY <1>1, <1>2

LEMMA CancelRecorded ==
    ASSUME PlacesOK, QueueInv', PlaceInv', NEW t, NEW o \in Logins,
           CancelWaiting(t) \/ CancelRunning(t) \/ ClearPending \/ SwitchOwner(o)
    PROVE  Recorded /\ (CancelWaiting(t) \/ ClearPending => SavesAll(owner))
  <1>1. ASSUME CancelWaiting(t) PROVE Recorded /\ SavesAll(owner)
    <2>1. /\ running' = running
          /\ snapshot' = SavedAs(queue', running', delayed', task', owner)
          /\ \/ t \in ToSet(queue) /\ queue' = Without(queue, t) /\ delayed' = delayed
             \/ t \in delayed /\ delayed' = delayed \ {t} /\ queue' = queue
      BY <1>1 DEF CancelWaiting, CancelSaves, Saved
    <2>2. t \in ToSet(queue) => ToSet(Without(queue, t)) = ToSet(queue) \ {t}
      BY WithoutPlaces DEF PlacesOK, QueueInv, QueueShape, PlaceInv, Disjoint
    <2>3. \A u \in Listed' : u \in Listed
      BY <2>1, <2>2 DEF Listed
    <2> QED
      BY <2>1, <2>3, UserOrNone, SavedNow DEF PlacesOK
  <1>2. ASSUME CancelRunning(t) PROVE Recorded
    <2>1. /\ queue' = queue /\ delayed' = delayed /\ running' = running \ {t}
          /\ snapshot' = SavedAs(queue', running, delayed', task', owner)
      BY <1>2 DEF CancelRunning, CancelSaves, Saved
    <2>2. \A u \in Listed' : u \in Listed
      BY <2>1 DEF Listed
    <2> QED
      BY <2>1, <2>2, UserOrNone, SavedNow DEF PlacesOK
  <1>3. ASSUME ClearPending PROVE Recorded /\ SavesAll(owner)
    <2>1. /\ running' = running /\ delayed' \subseteq delayed
          /\ snapshot' = SavedAs(queue', running', delayed', task', owner)
          /\ Others(queue', queue)
      BY <1>3 DEF ClearPending, Saved
    <2>2. \A u \in Listed' : u \in Listed
      BY <2>1 DEF Listed, Others
    <2> QED
      BY <2>1, <2>2, UserOrNone, SavedNow DEF PlacesOK
  <1>4. ASSUME SwitchOwner(o) PROVE Recorded
    <2>1. /\ queue' = queue /\ delayed' = delayed /\ running' = running \ Foreign(o)
          /\ \/ snapshot' = snapshot
             \/ snapshot' = SavedAs(queue', running, delayed', task', o)
      BY <1>4 DEF SwitchOwner
    <2>2. \A u \in Listed' : u \in Listed
      BY <2>1 DEF Listed
    <2>3. o \in Owner \union {NoOwner}
      BY QueueConstants
    <2>4. CASE snapshot' = snapshot
      BY <2>1, <2>2, <2>4, NotSaved DEF Unsaved
    <2>5. CASE snapshot' = SavedAs(queue', running, delayed', task', o)
      BY <2>1, <2>2, <2>3, <2>5, SavedNow
    <2> QED
      BY <2>1, <2>4, <2>5
  <1> QED
    BY <1>1, <1>2, <1>3, <1>4

(* shutdown() saves what is in flight, or the delayed tasks, before it drops *)
(* them.                                                                     *)
LEMMA ShutdownRecorded ==
    ASSUME PlacesOK, QueueInv', PlaceInv', Shutdown
    PROVE  Recorded
  <1>1. /\ Listed' = {} /\ shut' /\ running' = {}
    BY EmptyPlaces DEF Shutdown, Listed
  <1>2. PlaceTypes /\ task' \in [Task -> TaskRec] /\ owner \in Owner \union {NoOwner}
    BY PlaceSets, UserOrNone DEF PlacesOK, QueueInv, QueueShape
  <1>3. CASE snapshot' = snapshot
    BY <1>1, <1>3, NotSaved DEF Unsaved
  <1>4. ASSUME NEW q \in Seq(Task), NEW r \in SUBSET Task, NEW d \in SUBSET Task,
               IsInjective(q), ToSet(q) \subseteq Task, ToSet(q) \intersect d = {},
               r \intersect d = {}, snapshot' = SavedAs(q, r, d, task', owner)
        PROVE  Recorded
    <2> DEFINE S == ToSet(q) \union r \union d
    <2>1. Snapshots' /\ Saves(owner, S)
      BY <1>2, <1>4, SavedSnapshot DEF PlacesOK
    <2>2. S \in SUBSET Task
      BY <1>4
    <2> HIDE DEF S
    <2> QED
      BY <1>1, <1>2, <2>1, <2>2 DEF Recorded, SavesAll, FlightsSaved
  <1>5. CASE snapshot' = SavedAs(<<>>, running, {}, task', owner)
    <2>1. /\ <<>> \in Seq(Task) /\ running \in SUBSET Task /\ {} \in SUBSET Task
          /\ running \intersect {} = {} /\ ToSet(<<>>) \intersect {} = {}
      BY <1>2 DEF PlaceTypes
    <2> QED
      BY <1>4, <1>5, <2>1, EmptyPlaces
  <1>6. CASE snapshot' = SavedAs(queue, running, delayed, task', owner)
    BY <1>2, <1>4, <1>6 DEF PlaceTypes
  <1> QED
    BY <1>3, <1>5, <1>6 DEF Shutdown, Saved

LEMMA ModeRecorded ==
    ASSUME PlacesOK, NEW p,
           Pause \/ Resume \/ ClearRollbackDisabled(p) \/ Clock \/ UNCHANGED vars
    PROVE  Recorded
  <1>1. UNCHANGED <<queue, running, delayed, snapshot>>
    BY DEF Pause, Resume, ClearRollbackDisabled, Clock, vars, queueVars, placeVars
  <1> QED
    BY <1>1, NotSaved DEF Unsaved, Listed

LEMMA NextRecorded == PlacesOK /\ QueueInv' /\ PlaceInv' /\ [Next]_vars => Recorded
  <1> SUFFICES ASSUME PlacesOK, QueueInv', PlaceInv', [Next]_vars PROVE Recorded
    OBVIOUS
  <1>1. CASE ProcessNext
    BY <1>1, LoopRecorded
  <1>2. CASE Timers
    <2>1. ASSUME NEW t, Timeout(t) PROVE Recorded
      BY <2>1, FailureRecorded DEF Timeout
    <2> QED
      BY <1>2, <2>1, BackRecorded DEF Timers
  <1>3. CASE Executors
    BY <1>3, AnswerRecorded DEF Executors
  <1>4. CASE Calls
    <2>1. ASSUME NEW t, CancelWaiting(t) \/ CancelRunning(t) \/ ClearPending PROVE Recorded
      <3>1. owner \in Logins
        BY DEF PlacesOK, RestOK
      <3> QED
        BY <2>1, <3>1, CancelRecorded
    <2> QED
      BY <1>4, <2>1, EnterRecorded, BackRecorded, CancelRecorded, ShutdownRecorded, ModeRecorded
      DEF Calls
  <1>5. CASE Clock \/ UNCHANGED vars
    BY <1>5, ModeRecorded
  <1> QED
    BY <1>1, <1>2, <1>3, <1>4, <1>5 DEF Next

----------------------------------------------------------------------------
(* What becomes of a task the queue lists                                    *)

LEMMA ReleasedFinal ==
    ASSUME GuardTypeOK, [GuardNext]_guardVars, NEW i \in Attempt, holds[i].state = "released"
    PROVE  holds'[i].state = "released"
  <1>1. CASE Tick \/ Midnight \/ UNCHANGED guardVars
    BY <1>1 DEF Tick, Midnight, guardVars
  <1>2. ASSUME NEW j \in Attempt, NEW p, NEW a, Start(j, p, a) PROVE holds'[i] = holds[i]
    BY <1>2 DEF Start, RecordPublish, GuardTypeOK
  <1>3. ASSUME NEW j \in Attempt, Release(j) \/ Keep(j) PROVE holds'[i] = holds[i]
    <2>1. j # i
      BY <1>3 DEF Release, Keep
    <2> QED
      BY <1>3, <2>1, OtherHolds DEF Release, Keep
  <1>4. ASSUME NEW p, NEW a, EmergencyClear(p, a) PROVE holds'[i].state = holds[i].state
    BY <1>4, ClearKeepsStates DEF EmergencyClear
  <1> QED
    BY <1>1, <1>2, <1>3, <1>4 DEF GuardNext

(* A task rolled back since its last dispatch stays so until the next one.   *)
Keeps(t) == RolledBack(t) => RolledBack(t)'

LEMMA RollbackStays ==
    ASSUME QueueInv, ExecInv, [Next]_vars, NEW t \in Task, ~(Execute /\ t = Head(queue))
    PROVE  Keeps(t)
  <1> SUFFICES ASSUME RolledBack(t) PROVE RolledBack(t)'
    BY DEF Keeps
  <1>1. GuardTypeOK /\ [GuardNext]_guardVars /\ task[t] \in TaskRec
    BY QueueNextInv DEF QueueInv, QueueShape
  <1>2. task'[t].tries = task[t].tries
    <2>1. CASE Settles
      BY <2>1 DEF Settles, SameTries
    <2>2. CASE Execute
      BY <2>2 DEF Execute, QueueInv, QueueShape
    <2>3. ASSUME NEW e, PlatformWrite(e) PROVE task' = task
      BY <2>3 DEF PlatformWrite
    <2> QED
      BY <2>1, <2>2, <2>3, StepSettles
  <1>3. Current(t) \in Attempt /\ Current(t)' = Current(t)
    BY <1>1, <1>2, QueueConstants DEF RolledBack, Current, TaskRec
  <1>4. holds'[Current(t)].state = "released"
    BY <1>1, <1>3, ReleasedFinal DEF RolledBack
  <1> QED
    BY <1>2, <1>3, <1>4 DEF RolledBack

(* A task the queue lists after a step is in the snapshot that the step has  *)
(* written for its user, or was known before, with the same snapshot.        *)
Traced ==
    \A t \in Listed' :
        \/ t \in Stored(snapshot'[OwnerOf[t]]) /\ snapshot'[OwnerOf[t]].valid
        \/ /\ t \in Listed \union grace /\ Keeps(t)
           /\ snapshot'[OwnerOf[t]] = snapshot[OwnerOf[t]]

LEMMA NextTraced ==
    PlacesOK /\ ExecInv /\ QueueInv' /\ PlaceInv' /\ [Next]_vars => Traced
  <1> SUFFICES ASSUME PlacesOK, ExecInv, QueueInv', PlaceInv', [Next]_vars, NEW t \in Listed'
               PROVE  \/ t \in Stored(snapshot'[OwnerOf[t]]) /\ snapshot'[OwnerOf[t]].valid
                      \/ /\ t \in Listed \union grace /\ Keeps(t)
                         /\ snapshot'[OwnerOf[t]] = snapshot[OwnerOf[t]]
    BY DEF Traced
  <1>1. PlaceTypes'
    BY PlaceSets, PTL
  <1>2. t \in Task /\ OwnerOf[t] \in Owner
    BY <1>1, UserIsOwner DEF PlaceTypes, Listed
  <1>3. ASSUME NEW o, SavesAll(o), OwnerOf[t] = o
        PROVE  t \in Stored(snapshot'[OwnerOf[t]]) /\ snapshot'[OwnerOf[t]].valid
    BY <1>2, <1>3 DEF SavesAll, Saves, Of
  <1>4. CASE Execute /\ t = Head(queue)
    BY <1>3, <1>4, ExecuteRecorded DEF Execute, Eligible, Owned
  <1>5. CASE ~(Execute /\ t = Head(queue))
    <2>1. Keeps(t)
      BY <1>2, <1>5, RollbackStays DEF PlacesOK
    <2>2. Unsaved \/ \E o : SavesAll(o)
      BY NextRecorded DEF Recorded
    <2>3. CASE Unsaved
      BY <2>1, <2>3 DEF Unsaved
    <2>4. ASSUME NEW o, SavesAll(o), OwnerOf[t] # o
          PROVE  /\ t \in Listed \union grace
                 /\ snapshot'[OwnerOf[t]] = snapshot[OwnerOf[t]]
      BY <1>2, <2>4 DEF SavesAll, Saves
    <2> QED
      BY <1>3, <2>1, <2>2, <2>3, <2>4
  <1> QED
    BY <1>4, <1>5

(* A back-off timer holds a task that was rolled back, and no other.         *)
GraceRolledBack == \A t \in grace : RolledBack(t)

LEMMA NewGrace ==
    ASSUME QueueInv, NEW t \in running, NEW a, NEW m, NEW r, Failure(t, a, m, r),
           NEW u \in grace', u \notin grace
    PROVE  RolledBack(u)'
  <1>1. /\ u = t /\ ReleaseWindow(Current(t)) /\ t \in Task
        /\ task \in [Task -> TaskRec] /\ GuardTypeOK
    BY DEF Failure, QueueInv, QueueShape
  <1>2. Current(t) \in Attempt /\ task[t].tries \in 1..MaxTries
    BY CurrentIsAttempt DEF QueueInv
  <1>3. task'[t].tries = task[t].tries /\ Current(t)' = Current(t)
    BY <1>1 DEF Failure, TaskRec, Current
  <1>4. holds[Current(t)] \in Hold
    BY <1>1, <1>2, FlightHold, OpenIsHold
  <1>5. holds'[Current(t)].state = "released"
    BY <1>1, <1>2, <1>4 DEF ReleaseWindow, GuardTypeOK, Hold
  <1> QED
    BY <1>1, <1>2, <1>3, <1>5, QueueConstants DEF RolledBack

LEMMA NextGrace ==
    QueueInv /\ PlaceInv /\ ExecInv /\ GraceRolledBack /\ [Next]_vars => GraceRolledBack'
  <1> SUFFICES ASSUME QueueInv, PlaceInv, ExecInv, GraceRolledBack, [Next]_vars, NEW u \in grace'
               PROVE  RolledBack(u)'
    BY DEF GraceRolledBack
  <1>1. CASE u \in grace
    <2>1. u \in Task /\ RolledBack(u)
      BY <1>1 DEF GraceRolledBack, PlaceInv, Disjoint
    <2>2. ~(Execute /\ u = Head(queue))
      <3>1. ASSUME Execute PROVE Head(queue) \in ToSet(queue)
        BY <3>1, LoopPlaces DEF Execute
      <3> QED
        BY <1>1, <3>1 DEF PlaceInv, Disjoint
    <2> QED
      BY <2>1, <2>2, RollbackStays DEF Keeps
  <1>2. CASE u \notin grace
    <2>1. ASSUME NEW t, Timeout(t) PROVE RolledBack(u)'
      BY <1>2, <2>1, NewGrace DEF Timeout
    <2>2. ASSUME NEW e, NEW m, NEW r,
                 \/ ExecutorReturns(e) \/ ExecutorThrows(e, m, r)
                 \/ ExecutorRefuses(e, r) \/ PlatformWrite(e)
          PROVE  RolledBack(u)'
      <3>1. ~PlatformWrite(e) /\ Awaited(e) /\ ~ExecutorReturns(e)
        BY <1>2, <2>2 DEF PlatformWrite, ExecutorReturns, ExecutorThrows, ExecutorRefuses,
           Success, placeVars
      <3>2. e.task \in running
        BY <3>1 DEF Awaited
      <3> QED
        BY <1>2, <2>2, <3>1, <3>2, NewGrace DEF ExecutorThrows, ExecutorRefuses
    <2>3. ASSUME NEW t, NEW v, NEW p, NEW o,
                 \/ Skip \/ Postpone \/ Execute \/ DelayOver(t) \/ GraceOver(t) \/ Add(t)
                 \/ ManualRetry(t, v) \/ CancelWaiting(t) \/ CancelRunning(t) \/ ClearPending
                 \/ Pause \/ Resume \/ Shutdown \/ ClearRollbackDisabled(p) \/ SwitchOwner(o)
                 \/ EmergencyRelease(t) \/ Clock \/ UNCHANGED vars
          PROVE  FALSE
      <3>1. grace' \subseteq grace
        BY <2>3 DEF Skip, Postpone, Execute, DelayOver, GraceOver, Add, ManualRetry,
           CancelWaiting, CancelRunning, ClearPending, Pause, Resume, Shutdown,
           ClearRollbackDisabled, SwitchOwner, EmergencyRelease, Clock, vars, queueVars,
           placeVars, modeVars, trustVars, histVars
      <3> QED
        BY <1>2, <3>1
    <2> QED
      BY <2>1, <2>2, <2>3 DEF Next, ProcessNext, Timers, Executors, Calls
  <1> QED
    BY <1>1, <1>2

----------------------------------------------------------------------------
(* The theorems on types and snapshots                                       *)

SnapshotInv == PlacesOK /\ ExecInv /\ GraceRolledBack

LEMMA SnapshotInit == Init => SnapshotInv /\ SnapshotCovers
  <1> SUFFICES ASSUME Init PROVE SnapshotInv /\ SnapshotCovers
    OBVIOUS
  <1>1. QueueInv /\ PlaceInv /\ ExecInv
    BY QueueInitInv, PlaceInit, ExecInit
  <1>2. RestOK
    <2>1. [day |-> 1, at |-> 0] \in [day : 1..MaxDay + 1, at : Nat]
      BY GuardConstants
    <2> QED
      BY <2>1 DEF Init, RestOK
  <1>3. Snapshots
    BY EmptySnapshot DEF Init, Snapshots
  <1>4. Listed = {} /\ grace = {}
    BY EmptyPlaces DEF Init, Listed
  <1> QED
    BY <1>1, <1>2, <1>3, <1>4 DEF SnapshotInv, PlacesOK, GraceRolledBack, SnapshotCovers, Listed

LEMMA SnapshotNext == SnapshotInv /\ [Next]_vars => SnapshotInv' /\ Traced
  <1> SUFFICES ASSUME SnapshotInv, [Next]_vars PROVE SnapshotInv' /\ Traced
    OBVIOUS
  <1>1. PlacesOK /\ QueueInv /\ PlaceInv /\ RestOK /\ ExecInv /\ GraceRolledBack
    BY DEF SnapshotInv, PlacesOK
  <1>2. QueueInv' /\ PlaceInv' /\ RestOK' /\ ExecInv' /\ GraceRolledBack'
    BY <1>1, QueueNextInv, PlaceNext, RestNext, ExecNext, NextGrace DEF Good
  <1>3. Recorded /\ Traced
    BY <1>1, <1>2, NextRecorded, NextTraced
  <1> QED
    BY <1>2, <1>3 DEF SnapshotInv, PlacesOK, Recorded

LEMMA SnapshotCoversNext == SnapshotInv /\ SnapshotCovers /\ Traced => SnapshotCovers'
  <1> SUFFICES ASSUME SnapshotInv, SnapshotCovers, Traced, NEW t \in Listed'
               PROVE  (InSnapshot(t) \/ RolledBack(t))'
    BY DEF SnapshotCovers, Listed
  <1>1. CASE t \in Stored(snapshot'[OwnerOf[t]])
    BY <1>1 DEF InSnapshot, Stored
  <1>2. CASE /\ t \in Listed \union grace /\ Keeps(t)
             /\ snapshot'[OwnerOf[t]] = snapshot[OwnerOf[t]]
    BY <1>2 DEF SnapshotInv, GraceRolledBack, SnapshotCovers, InSnapshot, Listed, Keeps
  <1> QED
    BY <1>1, <1>2 DEF Traced

(* Every field of the queue keeps its type, the loop never has more entries  *)
(* to inspect than the queue has, and no snapshot lists anything but tasks.  *)
THEOREM QueueTypeCorrect == Spec => []TypeOK
  <1>1. SnapshotInv => TypeOK
    BY DEF SnapshotInv, PlacesOK, QueueInv, QueueShape, PlaceInv, Disjoint, RestOK, ExecInv,
       ExecShape, Snapshots, SnapshotShape, TypeOK
  <1> QED
    BY <1>1, SnapshotInit, SnapshotNext, PTL DEF Spec

(* Whatever the queue lists for a user is in that user's stored snapshot, so *)
(* that a restart finds it, unless its last attempt was rolled back: each    *)
(* handler that adds or moves a task saves, and the user whose snapshot it   *)
(* writes is the one whose tasks it touched.                                 *)
THEOREM QueueSnapshotCovers == Spec => []SnapshotCovers
  BY SnapshotInit, SnapshotNext, SnapshotCoversNext, PTL DEF Spec

----------------------------------------------------------------------------
(* The process: crashes, restarts and what is on disk                        *)

(* What is on disk is an image of the store at some time.                    *)
DiskOK ==
    /\ disk.timeline \in [Key -> 0..MaxTime]
    /\ disk.count \in [AccountKey -> [Days -> Nat]]
    /\ disk.rollbacks \in [AccountKey -> [Days -> Nat]]
    /\ DOMAIN disk.snapshot = Owner
    /\ \A o \in Owner : SnapshotShape(disk.snapshot[o], o)

(* While no write was lost, a stopped process has left its last one.         *)
Flushed == mode = "down" /\ ~stale => disk = Image

ProcessInv == SnapshotInv /\ DiskOK /\ Flushed

(* A start leaves the queue's invariant as the first start does: nothing is  *)
(* queued, in flight or timed, and no task is open.                          *)
LEMMA BootInv == ProcessInv /\ Boot => ProcessInv'
  <1> SUFFICES ASSUME ProcessInv, Boot PROVE ProcessInv'
    OBVIOUS
  <1>1. SnapshotInv /\ DiskOK /\ QueueInv /\ PlaceInv /\ RestOK /\ ExecInv
    BY DEF ProcessInv, SnapshotInv, PlacesOK
  <1>2. queue' \in Seq(Task) /\ queue' = <<>> /\ IsInjective(queue') /\ ToSet(queue') = {}
    BY EmptyPlaces DEF Boot, Recovered
  <1>3. /\ running' = {} /\ delayed' = {} /\ grace' = {} /\ quotaBlocked' = {} /\ execs' = {}
        /\ paused' = FALSE /\ shut' = FALSE /\ proven' = {} /\ rollbackOff' = {}
        /\ owner' \in Logins /\ scan' = Kick(queue', {}, FALSE)
        /\ UNCHANGED <<now, today, holds, due, sent, expired, disk>>
        /\ snapshot' = disk.snapshot /\ timeline' = disk.timeline
        /\ count' = disk.count /\ rollbacks' = disk.rollbacks
        /\ mode' = "up"
    BY DEF Boot
  <1>4. /\ task' \in [Task -> TaskRec]
        /\ \A t \in Task :
              /\ task'[t].tries = task[t].tries
              /\ task'[t].status \notin {"pending", "running"}
    <2>1. task \in [Task -> TaskRec]
      BY <1>1 DEF QueueInv, QueueShape
    <2>2. task' = [t \in Task |-> IF task[t].status = "new" THEN task[t]
                                 ELSE [task[t] EXCEPT !.status = "removed"]]
      BY <1>2 DEF Boot
    <2> QED
      BY <2>1, <2>2 DEF TaskRec, Status
  <1>5. QueueInv'
    <2>1. GuardTypeOK'
      BY <1>1, <1>3 DEF QueueInv, GuardTypeOK, DiskOK
    <2>2. QueueShape'
      BY <1>2, <1>3, <1>4, KickInQueue DEF QueueShape
    <2>3. HoldsMatch'
      BY <1>1, <1>3, <1>4 DEF HoldsMatch, QueueInv
    <2> QED
      BY <2>1, <2>2, <2>3 DEF QueueInv
  <1>6. PlaceInv'
    <2>1. Disjoint'
      BY <1>2, <1>3 DEF Disjoint
    <2>2. Waiting' = {}
      BY <1>2, <1>3 DEF Waiting
    <2>3. Matched'
      BY <1>3, <1>4, <2>2 DEF Matched
    <2> QED
      BY <2>1, <2>3 DEF PlaceInv
  <1>7. RestOK'
    BY <1>1, <1>3 DEF RestOK
  <1>8. ExecInv'
    BY <1>1, <1>3, <1>4 DEF ExecInv, ExecShape, ReleasedUnsent, Unsent
  <1>9. Snapshots' /\ DiskOK'
    BY <1>1, <1>3 DEF Snapshots, DiskOK
  <1>10. GraceRolledBack' /\ Flushed'
    BY <1>3 DEF GraceRolledBack, Flushed
  <1> QED
    BY <1>5, <1>6, <1>7, <1>8, <1>9, <1>10 DEF ProcessInv, SnapshotInv, PlacesOK

LEMMA ImageOK ==
    SnapshotInv => /\ Image.timeline \in [Key -> 0..MaxTime]
                   /\ Image.count \in [AccountKey -> [Days -> Nat]]
                   /\ Image.rollbacks \in [AccountKey -> [Days -> Nat]]
                   /\ DOMAIN Image.snapshot = Owner
                   /\ \A o \in Owner : SnapshotShape(Image.snapshot[o], o)
  BY DEF Image, SnapshotInv, PlacesOK, QueueInv, GuardTypeOK, Snapshots

LEMMA ProcessInitInv == ProcessInit => ProcessInv
  <1> SUFFICES ASSUME ProcessInit PROVE ProcessInv
    OBVIOUS
  <1>1. SnapshotInv /\ disk = Image /\ mode = "up"
    BY SnapshotInit DEF ProcessInit
  <1> QED
    BY <1>1, ImageOK DEF ProcessInv, DiskOK, Flushed

(* The queue's own steps, and those that leave it alone.                     *)
LEMMA InProcessNext ==
    InProcess => [Next]_vars /\ UNCHANGED <<disk, mode, boots, stale>> /\ mode # "down"
  BY DEF InProcess, Next

Outside == Persist \/ Crash \/ Exit \/ UNCHANGED processVars

LEMMA OutsideSame == Outside => UNCHANGED vars
  BY DEF Outside, Persist, Crash, Exit, processVars

LEMMA ProcessNextInv == ProcessInv /\ [InProcess \/ Restarts]_processVars => ProcessInv'
  <1> SUFFICES ASSUME ProcessInv, [InProcess \/ Restarts]_processVars PROVE ProcessInv'
    OBVIOUS
  <1>1. SnapshotInv /\ DiskOK /\ Flushed
    BY DEF ProcessInv
  <1>2. CASE InProcess
    <2>1. [Next]_vars /\ UNCHANGED <<disk, mode, boots, stale>> /\ mode # "down"
      BY <1>2, InProcessNext
    <2>2. SnapshotInv'
      BY <1>1, <2>1, SnapshotNext
    <2>3. DiskOK' /\ Flushed'
      BY <1>1, <2>1 DEF DiskOK, Flushed
    <2> QED
      BY <2>2, <2>3 DEF ProcessInv
  <1>3. CASE Outside
    <2>1. UNCHANGED vars
      BY <1>3, OutsideSame
    <2>2. SnapshotInv'
      BY <1>1, <2>1, SnapshotNext
    <2>3. Image' = Image
      BY <2>1 DEF Image, vars, guardVars, queueVars
    <2>4. disk' \in {disk, Image}
      BY <1>3 DEF Outside, Persist, Crash, Exit, processVars
    <2>5. DiskOK'
      BY <1>1, <2>4, ImageOK DEF DiskOK
    <2>6. Flushed'
      BY <1>1, <1>3, <2>3 DEF Outside, Flushed, Persist, Crash, Exit, processVars
    <2> QED
      BY <2>2, <2>5, <2>6 DEF ProcessInv
  <1> QED
    BY <1>2, <1>3, BootInv DEF Restarts, Outside

LEMMA ProcessInvAlways == ProcessSpec => []ProcessInv
  BY ProcessInitInv, ProcessNextInv, PTL DEF ProcessSpec

----------------------------------------------------------------------------
(* Windows and counts across a restart                                       *)

WindowsStand == ~stale => SpacingInv /\ QuotaInv

LEMMA WindowsStandNext ==
    ProcessInv /\ WindowsStand /\ [InProcess \/ Restarts]_processVars => WindowsStand'
  <1> SUFFICES ASSUME ProcessInv, WindowsStand, [InProcess \/ Restarts]_processVars, ~stale'
               PROVE  SpacingInv' /\ QuotaInv'
    BY DEF WindowsStand
  <1>1. ~stale
    BY DEF InProcess, Restarts, Persist, Crash, Exit, Boot, processVars
  <1>2. GuardTypeOK /\ SpacingInv /\ QuotaInv /\ QueueInv
    BY <1>1 DEF WindowsStand, ProcessInv, SnapshotInv, PlacesOK, QueueInv
  <1>3. [GuardNext]_guardVars
    <2>1. CASE InProcess
      BY <1>2, <2>1, InProcessNext, QueueNextInv
    <2>2. CASE Outside
      BY <2>2, OutsideSame DEF vars
    <2>3. CASE Boot
      <3>1. disk = Image
        BY <1>1, <2>3 DEF ProcessInv, Flushed, Boot
      <3> QED
        BY <2>3, <3>1 DEF Boot, Image, guardVars
    <2> QED
      BY <2>1, <2>2, <2>3 DEF Restarts, Outside
  <1> QED
    BY <1>2, <1>3, SpacingNext, QuotaNext

LEMMA WindowsStandAlways == ProcessSpec => []WindowsStand
  <1>1. ProcessInit => WindowsStand
    BY SpacingInit, QuotaInit DEF ProcessInit, Init, WindowsStand
  <1> QED
    BY <1>1, WindowsStandNext, ProcessInvAlways, PTL DEF ProcessSpec

(* With the windows on disk, a new process waits for what the old one has    *)
(* booked: the account interval holds between attempts of both.              *)
THEOREM ProcessSpacing == ProcessSpec => []SpacingKept
  <1>1. ProcessInv /\ WindowsStand => SpacingKept
    BY InvImpliesSpacing DEF ProcessInv, SnapshotInv, PlacesOK, QueueInv, WindowsStand, SpacingKept
  <1> QED
    BY <1>1, ProcessInvAlways, WindowsStandAlways, PTL

(* And so do the day's quota and the cap on its attempts.                    *)
THEOREM ProcessQuota == ProcessSpec => []QuotaKept
  <1>1. ProcessInv /\ WindowsStand => QuotaKept
    BY InvImpliesQuota DEF ProcessInv, SnapshotInv, PlacesOK, QueueInv, WindowsStand, QuotaKept
  <1> QED
    BY <1>1, ProcessInvAlways, WindowsStandAlways, PTL
=============================================================================
