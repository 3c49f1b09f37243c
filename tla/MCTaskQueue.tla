---------------------------- MODULE MCTaskQueue -----------------------------
(* Instances of the task queue for TLC.                                      *)
EXTENDS TaskQueue

CONSTANTS weibo, p1, p2, a1, a2, t1, t2, alice, bob

Zero == [x \in Platform |-> 0]
One  == [x \in Platform |-> 1]
Two  == [x \in Platform |-> 2]

OnePlatform == [t \in Task |-> p1]
SameAccount == [t \in Task |-> a1]
OneName  == [x \in Platform |-> weibo]
OneUser  == [x \in Platform |-> alice]
TwoUsers == [x \in Platform |-> IF x = p1 THEN alice ELSE bob]
OwnPlatform == [t \in Task |-> IF t = t1 THEN p1 ELSE p2]

MCAttempt == Task \X (1..MaxTries)

(* For liveness time passes only while a timer waits for it, so that the     *)
(* clock does not run out before the tasks do.                               *)
Waiting == delayed \union grace

MCTick     == (\E t \in Waiting : now < due[t].at) /\ Idle /\ Tick /\ UNCHANGED queueVars
MCMidnight == (\E t \in Waiting : today < due[t].day) /\ Idle /\ Midnight /\ UNCHANGED queueVars

MCLiveNext ==
    \/ ProcessNext \/ Timers \/ Executors \/ MCTick \/ MCMidnight
    \/ \E t \in Task : Add(t) \/ \E u \in Task : ManualRetry(t, u)
    \/ Pause \/ (paused /\ Resume)

MCLiveSpec ==
    /\ Init /\ [][MCLiveNext]_vars /\ Fairness
    /\ WF_vars(MCTick) /\ WF_vars(MCMidnight)

(* The two users, each with a platform view and a task, are alike.           *)
Swap == (t1 :> t2) @@ (t2 :> t1) @@ (p1 :> p2) @@ (p2 :> p1) @@ (alice :> bob) @@ (bob :> alice)

Alike == {Swap, [x \in DOMAIN Swap |-> x]}
=============================================================================
