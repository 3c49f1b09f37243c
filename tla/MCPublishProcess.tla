-------------------------- MODULE MCPublishProcess --------------------------
(* Instances of the restarting process for TLC, without the calls that do    *)
(* not matter to a restart.                                                  *)
EXTENDS PublishProcess

CONSTANTS weibo, p1, a1, alice, t1, t2

One  == [x \in Platform |-> 1]
Two  == [x \in Platform |-> 2]

OnePlatform == [t \in Task |-> p1]
SameAccount == [t \in Task |-> a1]
OneName  == [x \in Platform |-> weibo]
OneUser  == [x \in Platform |-> alice]

MCAttempt == Task \X (1..MaxTries)

(* The two tasks are alike: t1 comes first.                                  *)
MCUp ==
    \/ ProcessNext \/ Timers \/ Executors \/ Clock
    \/ Add(t1)
    \/ task[t1].status # "new" /\ Add(t2)
    \/ ManualRetry(t1, t2)
    \/ \E t \in Task : CancelRunning(t)
    \/ Shutdown

MCInProcess == mode = "up" /\ MCUp /\ UNCHANGED <<disk, mode, boots, stale>>

(* A process whose writes were all on disk starts from what Crash writes, so *)
(* the flush timer matters only to one that lost some, of which the          *)
(* properties say nothing: it is looked at with one task, up to its start.   *)
MCRestarts ==
    \/ Persist /\ boots < MaxBoots /\ task[t2].status = "new"
    \/ Crash \/ Exit
    \/ Boot /\ ~stale

MCProcessSpec == ProcessInit /\ [][MCInProcess \/ MCRestarts]_processVars
=============================================================================
