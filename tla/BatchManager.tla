---------------------------- MODULE BatchManager ----------------------------
(***************************************************************************)
(* Batch publishing (apps/desktop/electron/services/batch-manager.js): an  *)
(* execution of a batch puts its targets on the task queue one by one,     *)
(* awaiting each, and counts the results it hears; a schedule hands all of *)
(* them over at once.  The queue is external: it takes a target or         *)
(* refuses, and a task it took ends once, perhaps before the batch has     *)
(* been given its id.                                                      *)
(***************************************************************************)
EXTENDS Naturals, FiniteSets

CONSTANTS
    Batch, Run, None,
    Total,       \* [Batch -> number of targets planned]
    MaxSchedules \* bound: schedules and restores of schedules

ASSUME BatchAssumption ==
    Total \in [Batch -> Nat] /\ MaxSchedules \in Nat /\ None \notin Batch

VARIABLES
    job,       \* [Batch -> its row]: status and counts
    of,        \* [Run -> the batch an executeBatch call is for, None before]
    next,      \* [Run -> the target it awaits, past the last when its loop is over]
    task,      \* [Run -> [target -> what the queue made of it]]
    known,     \* [Run -> targets in acceptedTasks]
    early,     \* [Run -> targets in earlyResults]
    settled,   \* [Run -> known targets whose result was counted]
    count,     \* [Run -> completed and failed]
    emitted,   \* runs that sent 'batch-complete'
    dead,      \* runs a restart cut off
    handed,    \* [Batch -> [target -> times a schedule gave it to the queue]]
    schedules

runVars == <<of, next, task, known, early, settled, count, emitted, dead>>
batchVars == <<job, runVars, handed, schedules>>

Targets(b) == 1 .. Total[b]
AnyTarget == UNION {Targets(b) : b \in Batch}
TaskState == {"none", "refused", "queued", "success", "failed", "cancelled"}
Results == {"success", "failed"}
Row(status, c) == [status |-> status, completed |-> c.completed, failed |-> c.failed]
Zero == [completed |-> 0, failed |-> 0]
Exists(b) == job[b].status \notin {"none", "deleted"}

Init ==
    /\ job = [b \in Batch |-> Row("none", Zero)]
    /\ of = [r \in Run |-> None] /\ next = [r \in Run |-> 0]
    /\ task = [r \in Run |-> [t \in AnyTarget |-> "none"]]
    /\ known = [r \in Run |-> {}] /\ early = [r \in Run |-> {}] /\ settled = [r \in Run |-> {}]
    /\ count = [r \in Run |-> Zero] /\ emitted = {} /\ dead = {}
    /\ handed = [b \in Batch |-> [t \in AnyTarget |-> 0]] /\ schedules = 0

Create(b) ==
    /\ job[b].status = "none" /\ job' = [job EXCEPT ![b] = Row("pending", Zero)]
    /\ UNCHANGED <<runVars, handed, schedules>>

-----------------------------------------------------------------------------
(* updateBatchState; a row that was deleted meanwhile stays away.          *)
SaveCount(b, c) ==
    job' = IF Exists(b)
           THEN [job EXCEPT ![b] = Row(IF c.completed >= Total[b] THEN "done" ELSE "running", c)]
           ELSE job

(* The count of run r is c: saved, and the batch complete when it is whole.*)
Counted(r, b, c) ==
    /\ count' = [count EXCEPT ![r] = c]
    /\ IF c.completed >= Total[b] /\ r \notin emitted THEN emitted' = emitted \cup {r}
       ELSE UNCHANGED emitted
    /\ IF c # count[r] \/ emitted' # emitted THEN SaveCount(b, c) ELSE UNCHANGED job

Plus(c, n, bad) == [completed |-> c.completed + n, failed |-> c.failed + bad]

(* The enqueue loop from target t until the queue takes one, with count c  *)
(* so far: the targets it passes were refused.                             *)
Offers(r, b, t, c) ==
    \E taken \in t .. Total[b] + 1 :
        /\ next' = [next EXCEPT ![r] = taken]
        /\ task' = [task EXCEPT ![r] = [i \in AnyTarget |->
               IF i \in t .. taken - 1 THEN "refused"
               ELSE IF i = taken /\ i <= Total[b] THEN "queued" ELSE @[i]]]
        /\ Counted(r, b, Plus(c, taken - t, taken - t))

(* executeBatch until its first await.  Nothing keeps a batch from being   *)
(* executed twice, or after it was scheduled, cancelled or done.           *)
Execute(r, b) ==
    /\ of[r] = None /\ Exists(b) /\ of' = [of EXCEPT ![r] = b]
    /\ \E taken \in 1 .. Total[b] + 1 :
          /\ next' = [next EXCEPT ![r] = taken]
          /\ task' = [task EXCEPT ![r] = [i \in AnyTarget |->
                 IF i < taken THEN "refused" ELSE IF i = taken /\ i <= Total[b] THEN "queued" ELSE "none"]]
          /\ count' = [count EXCEPT ![r] = Plus(Zero, taken - 1, taken - 1)]
          /\ emitted' = IF taken > Total[b] THEN emitted \cup {r} ELSE emitted
          /\ SaveCount(b, Plus(Zero, taken - 1, taken - 1))
    /\ UNCHANGED <<known, early, settled, dead, handed, schedules>>

Bad(result) == IF result = "failed" THEN 1 ELSE 0

MutForgetsEarly(r) ==
    /\ of[r] # None /\ r \notin dead /\ next[r] \in Targets(of[r])
    /\ known' = [known EXCEPT ![r] = @ \cup {next[r]}] /\ early' = [early EXCEPT ![r] = {}]
    /\ UNCHANGED settled /\ Offers(r, of[r], next[r] + 1, count[r])
    /\ UNCHANGED <<of, dead, handed, schedules>>
MutCountsTwice(r) ==
    /\ of[r] # None /\ r \notin dead /\ next[r] \in Targets(of[r])
    /\ known' = [known EXCEPT ![r] = @ \cup {next[r]}] /\ UNCHANGED <<early, settled>>
    /\ Offers(r, of[r], next[r] + 1,
           Plus(count[r], Cardinality(early[r]), Cardinality({t \in early[r] : task[r][t] = "failed"})))
    /\ UNCHANGED <<of, dead, handed, schedules>>
(* The id of the awaited task arrives: registered, its early result        *)
(* counted, and the loop goes on.                                          *)
Accept(r) ==
    /\ of[r] # None /\ r \notin dead /\ next[r] \in Targets(of[r])
    /\ known' = [known EXCEPT ![r] = @ \cup {next[r]}]
    /\ early' = [early EXCEPT ![r] = @ \ {next[r]}]
    /\ IF next[r] \in early[r]
       THEN /\ settled' = [settled EXCEPT ![r] = @ \cup {next[r]}]
            /\ Offers(r, of[r], next[r] + 1, Plus(count[r], 1, Bad(task[r][next[r]])))
       ELSE UNCHANGED settled /\ Offers(r, of[r], next[r] + 1, count[r])
    /\ UNCHANGED <<of, dead, handed, schedules>>

(* A task of the run ends with a result and onResult hears it, or it is    *)
(* cancelled, which has no listener here.                                  *)
TaskEnds(r, t, result) ==
    /\ task[r][t] = "queued" /\ task' = [task EXCEPT ![r][t] = result]
    /\ IF r \in dead \/ result = "cancelled" THEN UNCHANGED <<early, settled, count, emitted, job>>
       ELSE IF t \in known[r]
       THEN /\ settled' = [settled EXCEPT ![r] = @ \cup {t}] /\ UNCHANGED early
            /\ Counted(r, of[r], Plus(count[r], 1, Bad(result)))
       ELSE early' = [early EXCEPT ![r] = @ \cup {t}] /\ UNCHANGED <<settled, count, emitted, job>>
    /\ UNCHANGED <<of, next, known, dead, handed, schedules>>

-----------------------------------------------------------------------------
(* scheduleBatch: its articles in order, until one whose platform or time  *)
(* is not allowed throws, the earlier ones submitted; the queue's refusals *)
(* are only logged.  Asked for by the user, and by restoreScheduledBatches *)
(* at every login for a batch that is 'scheduled'.                         *)
Schedule(b) ==
    /\ Exists(b) /\ schedules < MaxSchedules /\ schedules' = schedules + 1
    /\ \E n \in 0 .. Total[b] : \E took \in SUBSET (1 .. n) :
          /\ handed' = [handed EXCEPT ![b] = [t \in AnyTarget |-> @[t] + IF t \in took THEN 1 ELSE 0]]
          /\ job' = IF n = Total[b] THEN [job EXCEPT ![b].status = "scheduled"] ELSE job
    /\ UNCHANGED runVars

CancelBatch(b) ==
    /\ job[b].status = "scheduled" /\ job' = [job EXCEPT ![b].status = "cancelled"]
    /\ UNCHANGED <<runVars, handed, schedules>>

Delete(b) ==
    /\ Exists(b) /\ job' = [job EXCEPT ![b].status = "deleted"]
    /\ UNCHANGED <<runVars, handed, schedules>>

(* The process restarts: the listening executions are gone.                *)
Restart ==
    /\ dead' = {r \in Run : of[r] # None} /\ dead' # dead
    /\ UNCHANGED <<job, of, next, task, known, early, settled, count, emitted, handed, schedules>>

Next ==
    \/ \E b \in Batch : \/ Create(b) \/ Schedule(b) \/ CancelBatch(b) \/ Delete(b)
                        \/ \E r \in Run : Execute(r, b)
    \/ \E r \in Run : \/ Accept(r)
                      \/ \E t \in AnyTarget : \E result \in Results \cup {"cancelled"} : TaskEnds(r, t, result)
    \/ Restart

(* Promises settle, and the queue ends what it took.                       *)
ManagerFairness ==
    \A r \in Run : /\ WF_batchVars(Accept(r))
                   /\ \A t \in AnyTarget : WF_batchVars(\E result \in Results : TaskEnds(r, t, result))
ManagerSpec == Init /\ [][Next]_batchVars /\ ManagerFairness

-----------------------------------------------------------------------------
(* Types; early results are of the awaited task only.                      *)
JobTypeOK ==
    /\ \A b \in Batch : job[b].status \in
           {"none", "pending", "running", "done", "scheduled", "cancelled", "deleted"}
    /\ of \in [Run -> Batch \cup {None}] /\ task \in [Run -> [AnyTarget -> TaskState]]
    /\ emitted \subseteq Run /\ dead \subseteq Run
    /\ \A r \in Run : /\ known[r] \subseteq 1 .. next[r] /\ settled[r] \subseteq known[r]
                      /\ early[r] \subseteq {next[r]}

(* The row of a batch executed once, and not scheduled or deleted since,   *)
(* is that execution's count.                                              *)
RowIsCount ==
    \A r \in Run \ dead : \A b \in Batch :
        /\ of[r] = b /\ \A q \in Run : of[q] = b => q = r
        /\ job[b].status \in {"running", "done"} /\ schedules = 0
        => job[b] = Row(IF r \in emitted THEN "done" ELSE "running", count[r])

(* No result is lost or counted twice, however early it came: a run counts *)
(* the refusals and the results of the tasks it knows, each once, and its  *)
(* batch's row says so.  (And the state is well typed.)                    *)
CountIsResults ==
    /\ JobTypeOK /\ RowIsCount
    /\ \A r \in Run \ dead : of[r] # None =>
        LET heard == {t \in known[r] : task[r][t] \in Results}
            refused == {t \in AnyTarget : task[r][t] = "refused"}
        IN  /\ count[r].completed = Cardinality(heard) + Cardinality(refused)
            /\ count[r].failed = Cardinality({t \in heard : task[r][t] = "failed"}) + Cardinality(refused)

(* 'batch-complete' is sent when every target of the batch was refused or  *)
(* has its result, not earlier.                                            *)
CompleteIsWhole ==
    \A r \in emitted : \A t \in Targets(of[r]) : task[r][t] \in Results \cup {"refused"}

(* An execution none of whose tasks is cancelled completes, unless the     *)
(* process restarts under it.                                              *)
ExecutionsComplete ==
    \A r \in Run : of[r] # None ~> r \in emitted \/ r \in dead \/ \E t \in AnyTarget : task[r][t] = "cancelled"

(* A scheduled target is handed to the queue once.  The code does not keep *)
(* it: restoreScheduledBatches schedules again what is 'scheduled'.        *)
ScheduledOnce == \A b \in Batch : \A t \in Targets(b) : handed[b][t] <= 1
=============================================================================
