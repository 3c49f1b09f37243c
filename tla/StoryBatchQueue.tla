-------------------------- MODULE StoryBatchQueue --------------------------
(***************************************************************************)
(* The Story2Video batch queue                                             *)
(* (apps/desktop/electron/services/story2video-batch-queue.js) above the   *)
(* pipeline engine, of which it sees a run's status, the count of running  *)
(* runs, the budget check of startOrchestrated and the terminal events.    *)
(* startOrchestrated in background mode has no await of its own, so a      *)
(* whole _drain is one step of whatever called it.                         *)
(***************************************************************************)
EXTENDS Integers, FiniteSets

CONSTANTS
    NumItems,          \* items, numbered in the order they are created
    Manual,            \* runs the user starts by hand
    Unstartable,       \* items startOrchestrated refuses (no model configured)
    BatchMaxConcurrent, MaxConcurrentRuns

Item == 1 .. NumItems

ASSUME BatchAssumption ==
    /\ NumItems \in Nat /\ Unstartable \subseteq Item
    /\ BatchMaxConcurrent \in Nat \ {0} /\ MaxConcurrentRuns \in Nat \ {0}
    /\ Manual \cap Item = {}

VARIABLES
    item,  \* [Item -> status]: "absent" before createBatch
    run,   \* [Item \cup Manual -> the engine's run]: "adopted" is running, but
           \* no longer tagged 'batch' (resumeOrchestration drops the tag)
    retry  \* is _retryTimer set?

vars == <<item, run, retry>>

Pending(t) == {i \in Item : t.item[i] = "pending"}
RunningItems(t) == {i \in Item : t.item[i] = "running"}
ManualRuns(t) == {m \in Manual : t.run[m] = "running"} \cup {i \in Item : t.run[i] = "adopted"}
ActiveRuns(t) == ManualRuns(t) \cup {i \in Item : t.run[i] = "running"}
Now == [item |-> item, run |-> run, retry |-> retry]

MutNoManualRule(t, n) ==
    LET batch == Cardinality(RunningItems(t)) + n  manual == Cardinality(ManualRuns(t))
    IN  batch < BatchMaxConcurrent /\ batch + manual < MaxConcurrentRuns

(* _canStartNow, once this drain has started n items *)
CanStartNow(t, n) ==
    LET batch == Cardinality(RunningItems(t)) + n  manual == Cardinality(ManualRuns(t))
    IN  /\ batch < BatchMaxConcurrent
        /\ manual > 0 => batch < 1
        /\ batch + manual < MaxConcurrentRuns

MutFailureStops(t) ==
    LET First(i) == \A j \in Pending(t) : i <= j
        next == {i \in Pending(t) : First(i) /\ CanStartNow(t, 0)}
    IN  [item |-> [i \in Item |-> IF i \notin next THEN t.item[i]
                                  ELSE IF i \in Unstartable THEN "failed" ELSE "running"],
         run |-> [r \in DOMAIN t.run |-> IF r \in next \ Unstartable THEN "running" ELSE t.run[r]],
         retry |-> t.retry]

(* _drain takes the pending items in order.  One that cannot be started    *)
(* fails and gives way to the next; one that can is started while the      *)
(* queue's rules and then the engine's budget allow it, and the first the  *)
(* budget refuses ends the drain and sets the retry timer.                 *)
Drain(t) ==
    LET startable == Pending(t) \ Unstartable
        Before(i) == Cardinality({j \in startable : j < i})
        allowed == {i \in Pending(t) : CanStartNow(t, Before(i))}
        Budget(i) == MaxConcurrentRuns - Cardinality(ActiveRuns(t)) - Before(i)
        start == {i \in allowed \cap startable : Budget(i) > 0}
        fail == {i \in allowed \ startable : Budget(i) >= 0}
        refused == \E i \in allowed \cap startable : Budget(i) <= 0
    IN  [item |-> [i \in Item |-> IF i \in start THEN "running"
                                  ELSE IF i \in fail THEN "failed" ELSE t.item[i]],
         run |-> [r \in DOMAIN t.run |-> IF r \in start THEN "running" ELSE t.run[r]],
         retry |-> t.retry \/ refused]

(* The queue's state becomes t, drained when something wakes it; the runs  *)
(* in failing are finalized only after that.                               *)
Become(t, wake, failing) ==
    \E s \in {t} : \E d \in {IF wake THEN Drain(s) ELSE s} :
        /\ item' = d.item /\ retry' = d.retry
        /\ run' = [r \in DOMAIN run |-> IF r \in failing THEN "failed" ELSE d.run[r]]

-----------------------------------------------------------------------------
Init ==
    /\ item = [i \in Item |-> "absent"] /\ retry = FALSE
    /\ run = [r \in Item \cup Manual |-> "none"]

(* createBatch: the next n items, queued together. *)
CreateBatch(n) ==
    LET old == {i \in Item : item[i] # "absent"}
        new == {i \in Item \ old : i <= Cardinality(old) + n}
    IN  /\ new # {}
        /\ Become([Now EXCEPT !.item = [i \in Item |-> IF i \in new THEN "pending" ELSE item[i]]],
                  TRUE, {})

CancelBatchItems(S) ==
    /\ S # {} /\ S \subseteq Pending(Now)
    /\ Become([Now EXCEPT !.item = [i \in Item |-> IF i \in S THEN "cancelled" ELSE item[i]]],
              TRUE, {})

RetryFires == retry /\ Become([Now EXCEPT !.retry = FALSE], TRUE, {})

(* _onRunTerminal: a running item takes its run's outcome and wakes the    *)
(* queue; any other item is left alone.                                    *)
MutOnlyCompletions(t, i, outcome, failing) ==
    IF item[i] = "running" /\ outcome = "completed"
    THEN Become([t EXCEPT !.item[i] = outcome], TRUE, failing)
    ELSE Become(t, FALSE, failing)

OnRunTerminal(t, i, outcome, failing) ==
    IF item[i] = "running" THEN Become([t EXCEPT !.item[i] = outcome], TRUE, failing)
    ELSE Become(t, FALSE, failing)

(* A run paused by hand is live: its executor may still end it. *)
Live == {"running", "adopted", "paused"}

(* pipeline:complete comes after the run is finalized, pipeline:fail of a  *)
(* stage before it: the drain it starts still counts the run as running.   *)
BatchRunCompletes(i) ==
    /\ run[i] \in Live
    /\ OnRunTerminal([Now EXCEPT !.run[i] = "ended"], i, "completed", {})
BatchRunFails(i) ==
    /\ run[i] \in Live
    /\ OnRunTerminal(Now, i, "failed", {i})
(* cancelRun sets the status first, then tells. *)
BatchRunCancelled(i) ==
    /\ run[i] \in Live
    /\ OnRunTerminal([Now EXCEPT !.run[i] = "ended"], i, "failed", {})

BatchRunPaused(i) ==
    /\ run[i] \in {"running", "adopted"}
    /\ run' = [run EXCEPT ![i] = "paused"] /\ UNCHANGED <<item, retry>>
(* resumeOrchestration of a paused or failed run of a batch *)
BatchRunResumed(i) ==
    /\ run[i] \in {"paused", "failed"}
    /\ Cardinality(ActiveRuns(Now)) < MaxConcurrentRuns
    /\ run' = [run EXCEPT ![i] = "adopted"] /\ UNCHANGED <<item, retry>>
(* deleteRun refuses a running run only, and emits nothing. *)
BatchRunDeleted(i) ==
    /\ run[i] = "paused"
    /\ run' = [run EXCEPT ![i] = "deleted"] /\ UNCHANGED <<item, retry>>

ManualStarts(m) ==
    /\ run[m] = "none" /\ Cardinality(ActiveRuns(Now)) < MaxConcurrentRuns
    /\ run' = [run EXCEPT ![m] = "running"] /\ UNCHANGED <<item, retry>>
(* A manual run is nobody's item: its events leave the queue alone.  It    *)
(* goes on from a pause without the budget being asked (confirmStageGate,  *)
(* confirmSceneAssets).                                                    *)
ManualTurns(m, from, to) ==
    /\ run[m] \in from /\ run' = [run EXCEPT ![m] = to] /\ UNCHANGED <<item, retry>>
ManualPauses(m) == ManualTurns(m, {"running"}, "paused")
ManualConfirmed(m) == ManualTurns(m, {"paused"}, "running")
ManualEnds(m) == ManualTurns(m, {"running", "paused"}, "ended")

RunEnds(i) == BatchRunCompletes(i) \/ BatchRunFails(i)
Next ==
    \/ \E n \in 1 .. NumItems : CreateBatch(n)
    \/ \E S \in SUBSET Item : CancelBatchItems(S)
    \/ RetryFires
    \/ \E i \in Item : \/ RunEnds(i) \/ BatchRunCancelled(i) \/ BatchRunPaused(i)
                       \/ BatchRunResumed(i) \/ BatchRunDeleted(i)
    \/ \E m \in Manual : \/ ManualStarts(m) \/ ManualPauses(m)
                         \/ ManualConfirmed(m) \/ ManualEnds(m)

(* A run that is not paused comes to its end and the timer fires; the user *)
(* owes nothing.                                                           *)
Fairness ==
    /\ WF_vars(RetryFires)
    /\ \A i \in Item : WF_vars(run[i] # "paused" /\ RunEnds(i))

BatchSpec == Init /\ [][Next]_vars /\ Fairness

-----------------------------------------------------------------------------
BatchTypeOK ==
    /\ item \in [Item -> {"absent", "pending", "running", "completed", "failed", "cancelled"}]
    /\ run \in [Item \cup Manual -> {"none", "running", "adopted", "paused", "failed",
                                  "ended", "deleted"}]
    /\ retry \in BOOLEAN

(* An item shown as running has a run that will still report: otherwise it *)
(* holds one of the two places for ever ("the event necessarily arrives",  *)
(* says the comment above the subscription).  The exception is a run the   *)
(* user paused and deleted.  (And the state is well typed.)                *)
RunningItemHasRun ==
    BatchTypeOK /\ \A i \in RunningItems(Now) : run[i] \in Live \cup {"deleted"}

(* Whichever event, cancel, retry or batch woke the queue, and however     *)
(* many items it started at once, no item joins two others, none joins     *)
(* another beside manual work, and none takes the engine over its budget.  *)
StartsWithinLimits ==
    [][\A i \in Item : item[i] # "running" /\ item'[i] = "running" =>
          /\ Cardinality(RunningItems(Now)') <= BatchMaxConcurrent
          /\ Cardinality(ActiveRuns(Now)') <= MaxConcurrentRuns
          /\ ManualRuns(Now)' # {} => RunningItems(Now)' = {i}]_vars

(* The queue sleeps only when it may: a pending item that could start has  *)
(* a timer or a running item whose event wakes the queue.  The code does   *)
(* not keep it when what stood in the way was a run started by hand.       *)
PendingHasWaker ==
    Pending(Now) # {} /\ CanStartNow(Now, 0) => retry \/ RunningItems(Now) # {}

(* With nobody working by hand and no run paused, every item of a batch    *)
(* leaves the queue: each event, refusal and retry passes the turn on.     *)
Undisturbed == /\ \A m \in Manual : run[m] = "none"
               /\ \A i \in Item : run[i] \notin {"paused", "adopted"}
QueueDrains ==
    [](Undisturbed) => \A i \in Item : item[i] = "pending" ~> item[i] # "pending"
=============================================================================
