----------------------------- MODULE TaskQueue ------------------------------
(* The publish task queue (packages/shared-utils/src/task-queue.js and its   *)
(* mixin task-queue-frequency.js), composed with the frequency guard it      *)
(* calls and with the executor bootstrap.js gives it.                        *)
(*                                                                           *)
(* JavaScript runs each handler to its end, so a handler is one action.  The *)
(* loop of _processNext() at a handler's end is unrolled: `scan` counts the  *)
(* queue entries still to inspect, and nothing but the loop's own steps can  *)
(* happen before it reaches zero.  Executors run beside the queue: they      *)
(* write to the platform and settle when they like, also after the queue     *)
(* stopped waiting for them.                                                 *)
(*                                                                           *)
(* The store scopes windows and counts by login subject, so the guard's      *)
(* Platform is here one user's view of one platform: UserOf says whose,      *)
(* NameOf of which.  What the queue keeps itself goes by the platform's name.*)
EXTENDS PublishIntervalGuard, Sequences, SequencesExt

CONSTANTS
    Task,           \* task ids; a manual retry takes a new one
    Owner,          \* login subjects
    NoOwner,        \* logged out, or the identity not known yet
    NoTask,
    Name,           \* platform names
    NameOf,         \* [Platform -> Name]
    UserOf,         \* [Platform -> Owner]
    PlatformOf,     \* [Task -> Platform]
    AccountOf,      \* [Task -> Account \union {NoAccount}]
    Logins,         \* the identities that occur, a set of owners and NoOwner
    MaxConcurrent,  \* slots
    Retry,          \* defaultRetry
    Grace,          \* releaseGraceMs, in ticks
    MaxTries        \* bound on the dispatches of one task

ASSUME QueueConstants ==
    /\ NameOf \in [Platform -> Name]
    /\ UserOf \in [Platform -> Owner]
    /\ \A p, q \in Platform : NameOf[p] = NameOf[q] /\ UserOf[p] = UserOf[q] => p = q
    /\ PlatformOf \in [Task -> Platform]
    /\ AccountOf \in [Task -> Account \union {NoAccount}]
    /\ NoOwner \notin Owner
    /\ NoTask \notin Task
    /\ Logins \subseteq Owner \union {NoOwner}
    /\ MaxConcurrent \in Nat \ {0}
    /\ Retry \in Nat
    /\ Grace \in Nat \ {0}
    /\ MaxTries \in Nat \ {0}
    /\ Attempt = Task \X (1..MaxTries)

VARIABLES
    queue,        \* _queue
    running,      \* _running (its keys)
    delayed,      \* _delayed (its keys): waiting for a window or for tomorrow
    grace,        \* tasks only a _delayRequeue timer of _pendingTimers knows of
    due,          \* [Task -> [day, at]], when the task's timer may fire
    quotaBlocked, \* _quotaBlocked
    task,         \* [Task -> the fields of the task object]
    execs,        \* executors whose promise has not settled
    paused,       \* _paused
    shut,         \* _shutdown
    owner,        \* what the owner provider answers
    proven,       \* _platformsProvenSubmit
    rollbackOff,  \* _rollbackDisabledPlatforms
    snapshot,     \* [Owner -> task_queue_state], NoSnapshot when absent
    scan,         \* entries _processNext has still to inspect
    sent,         \* history: attempts that wrote to the platform
    expired       \* history: attempts the queue gave up on by timeout

placeVars == <<queue, running, delayed, grace, due, quotaBlocked>>
modeVars  == <<paused, shut, owner>>
trustVars == <<proven, rollbackOff>>
histVars  == <<sent, expired>>
queueVars == <<placeVars, task, execs, modeVars, trustVars, snapshot, scan, histVars>>
vars      == <<guardVars, queueVars>>

Status   == {"new", "pending", "running", "success", "failed", "cancelled", "removed"}
Terminal == {"success", "failed", "cancelled", "removed"}
Stage    == {"refused", "publishing", "wrote"}
NoSnapshot == [pending |-> <<>>, running |-> {}, delayed |-> {}, left |-> <<>>, valid |-> FALSE]

(* attempted = submitAttempted, submitted = submittedAt is set,              *)
(* retriedAs = the id of the manual retry, tries numbers the dispatches.     *)
TaskRec == [status : Status, left : 0..Retry + 1, tries : 0..MaxTries,
            attempted : BOOLEAN, submitted : BOOLEAN, retriedAs : Task \union {NoTask}]

----------------------------------------------------------------------------
(* Helpers                                                                   *)

MutFirstHold(t) == <<t, 1>>
MutAnyAnswer(e) == e.n = task[e.task].tries

OwnerOf    == [t \in Task |-> UserOf[PlatformOf[t]]]
PlatformName(t) == NameOf[PlatformOf[t]]

Idle       == scan = 0
Live(t)    == task[t].status \in {"pending", "running"}
Owned(t)   == owner = OwnerOf[t]
Channel(t) == <<PlatformName(t), AccountOf[t]>>
Current(t) == <<t, task[t].tries>>
Awaited(e) == e.task \in running /\ e.n = task[e.task].tries

MutWithout(q, t) == IF Len(q) = 1 THEN q ELSE Tail(q)

Without(q, t) ==
    LET i == CHOOSE j \in DOMAIN q : q[j] = t
    IN  SubSeq(q, 1, i - 1) \o SubSeq(q, i + 1, Len(q))

(* The entries of q that belong to user o, in their order.                   *)
OwnedBy(q, o) ==
    LET mine == {i \in DOMAIN q : OwnerOf[q[i]] = o}
        Rank(i) == Cardinality({j \in mine : j <= i})
    IN  [n \in 1..Cardinality(mine) |-> q[CHOOSE i \in mine : Rank(i) = n]]

(* serialize() under the current owner, stored under that owner's key; while *)
(* nobody is logged in the store ignores the write.                          *)
Serialize(q, r, d, tk, o) ==
    LET mine == {t \in ToSet(q) \union r \union d : OwnerOf[t] = o} IN
    [pending |-> OwnedBy(q, o),
     running |-> r \intersect mine, delayed |-> d \intersect mine,
     left |-> [t \in mine |-> tk[t].left], valid |-> TRUE]

MutSharedSnapshot(q, r, d, tk, o) == [u \in Owner |-> Serialize(q, r, d, tk, o)]

SavedAs(q, r, d, tk, o) ==
    IF o = NoOwner THEN snapshot ELSE [snapshot EXCEPT ![o] = Serialize(q, r, d, tk, o)]

Saved(q, r, d, tk) == SavedAs(q, r, d, tk, owner)

(* _markCancelled() saves, after the task has been taken out of its place.   *)
CancelSaves(q, r, d, tk) == Saved(q, r, d, tk)

(* _processNext() after a handler that leaves queue q and running r.         *)
SlotFree(r) == Cardinality(r) < MaxConcurrent

MutNoKick(q, r, stopped) == 0
MutLongScan(q, r, stopped) == Len(q) + 1

Kick(q, r, stopped) == IF stopped \/ ~SlotFree(r) THEN 0 ELSE Len(q)

----------------------------------------------------------------------------
(* _processNext(): one step per entry inspected                              *)

MutNoChannel(t) == TRUE

ChannelFree(t) == \A r \in running : Channel(r) # Channel(t)

Eligible(t) == Owned(t) /\ t \notin quotaBlocked /\ ChannelFree(t)

Scanning == scan > 0

Skip ==
    /\ Scanning
    /\ ~Eligible(Head(queue))
    /\ queue' = Append(Tail(queue), Head(queue))
    /\ scan' = scan - 1
    /\ UNCHANGED <<guardVars, running, delayed, grace, due, quotaBlocked, task, execs,
                   modeVars, trustVars, snapshot, histVars>>

(* The guard says no: back to pending, out of running, a timer until the     *)
(* window opens or until the next day.                                       *)
Postpone ==
    LET t == Head(queue) p == PlatformOf[t] a == AccountOf[t] IN
    /\ Scanning
    /\ Eligible(t) /\ ~Allowed(p, a)
    /\ queue' = Tail(queue)
    /\ delayed' = delayed \union {t}
    /\ due' = [due EXCEPT ![t] = IF QuotaSpent(p, a)
                                 THEN [day |-> today + 1, at |-> now]
                                 ELSE [day |-> 1, at |-> now + RemainingWait(p, a)]]
    /\ quotaBlocked' = IF QuotaSpent(p, a) THEN quotaBlocked \union {t} ELSE quotaBlocked
    /\ snapshot' = Saved(queue', running, delayed', task)
    /\ scan' = scan - 1
    /\ UNCHANGED <<guardVars, running, grace, task, execs, modeVars, trustVars, histVars>>

(* The guard says yes: the window is booked, then the executor is called.    *)
(* It refuses at once (risk suspension) or enters the publisher.             *)
Execute ==
    LET t == Head(queue) n == task[t].tries + 1 IN
    /\ Scanning
    /\ Eligible(t) /\ Allowed(PlatformOf[t], AccountOf[t])
    /\ n <= MaxTries
    /\ RecordPublish(<<t, n>>, PlatformOf[t], AccountOf[t])
    /\ queue' = Tail(queue)
    /\ running' = running \union {t}
    /\ task' = [task EXCEPT ![t].status = "running", ![t].tries = n,
                            ![t].attempted = FALSE, ![t].submitted = FALSE]
    /\ \E s \in {"refused", "publishing"} :
          execs' = execs \union {[task |-> t, n |-> n, stage |-> s]}
    /\ snapshot' = Saved(queue', running', delayed, task)
    /\ scan' = IF SlotFree(running') THEN scan - 1 ELSE 0
    /\ UNCHANGED <<delayed, grace, due, quotaBlocked, modeVars, trustVars, histVars>>

----------------------------------------------------------------------------
(* add(), addForOwner(), retry()                                             *)

Add(t) ==
    /\ Idle /\ ~shut
    /\ task[t].status = "new" /\ Owned(t)
    /\ task' = [task EXCEPT ![t].status = "pending", ![t].left = Retry]
    /\ queue' = Append(queue, t)
    /\ snapshot' = Saved(queue', running, delayed, task')
    /\ scan' = Kick(queue', running, paused)
    /\ UNCHANGED <<guardVars, running, delayed, grace, due, quotaBlocked, execs,
                   modeVars, trustVars, histVars>>

(* A failed record is retried under a new id, once.                          *)
ManualRetry(t, u) ==
    /\ Idle /\ ~shut
    /\ task[t].status = "failed" /\ Owned(t) /\ task[t].retriedAs = NoTask
    /\ task[u].status = "new" /\ Channel(u) = Channel(t) /\ OwnerOf[u] = OwnerOf[t]
    /\ task' = [task EXCEPT ![u].status = "pending", ![u].left = Retry,
                            ![t].retriedAs = u]
    /\ queue' = Append(queue, u)
    /\ snapshot' = Saved(queue', running, delayed, task')
    /\ scan' = Kick(queue', running, paused)
    /\ UNCHANGED <<guardVars, running, delayed, grace, due, quotaBlocked, execs,
                   modeVars, trustVars, histVars>>

----------------------------------------------------------------------------
(* Timers                                                                    *)

TimerReady(t) == now >= due[t].at /\ today >= due[t].day

(* The requeue timer of a task the guard postponed: back to the queue's head. *)
DelayOver(t) ==
    /\ Idle
    /\ t \in delayed /\ TimerReady(t)
    /\ delayed' = delayed \ {t}
    /\ quotaBlocked' = quotaBlocked \ {t}
    /\ queue' = <<t>> \o queue
    /\ scan' = Kick(queue', running, paused)
    /\ UNCHANGED <<guardVars, running, grace, due, task, execs, modeVars, trustVars,
                   snapshot, histVars>>

(* The back-off timer of _delayRequeue after a rollback.                     *)
GraceOver(t) ==
    /\ Idle
    /\ t \in grace /\ TimerReady(t)
    /\ grace' = grace \ {t}
    /\ queue' = <<t>> \o queue
    /\ scan' = Kick(queue', running, paused)
    /\ UNCHANGED <<guardVars, running, delayed, due, quotaBlocked, task, execs,
                   modeVars, trustVars, snapshot, histVars>>

----------------------------------------------------------------------------
(* The executor (bootstrap.js) and the end of _executeTask()                 *)

PlatformWrite(e) ==
    /\ Idle
    /\ e \in execs /\ e.stage = "publishing"
    /\ execs' = (execs \ {e}) \union {[e EXCEPT !.stage = "wrote"]}
    /\ sent' = sent \union {<<e.task, e.n>>}
    /\ UNCHANGED <<guardVars, placeVars, task, modeVars, trustVars, snapshot, scan, expired>>

(* The success path: the hold is kept and the platform has proved that it    *)
(* reports its submissions.  The state is saved before the finally block     *)
(* takes the task out of running.                                            *)
Success(t) ==
    /\ task' = [task EXCEPT ![t].status = "success",
                            ![t].attempted = TRUE, ![t].submitted = TRUE]
    /\ KeepWindow(Current(t))
    /\ proven' = proven \union {PlatformName(t)}
    /\ snapshot' = Saved(queue, running, delayed, task')
    /\ running' = running \ {t}
    /\ scan' = Kick(queue, running', paused)
    /\ UNCHANGED <<queue, delayed, grace, due, quotaBlocked, modeVars, rollbackOff>>

(* _maybeRollback(): no write was attempted, or the transport declared that  *)
(* nothing left; a platform known to report its submissions that did not     *)
(* report one loses its rollbacks until restart.                             *)
Contradicts(p, attempted, notSent) == ~attempted /\ ~notSent /\ p \in proven

MutTrustNoMark(attempted, notSent) == TRUE

NeverSubmitted(attempted, notSent) == ~attempted \/ notSent

RollsBack(t, attempted, notSent) ==
    /\ NeverSubmitted(attempted, notSent)
    /\ ~Contradicts(PlatformName(t), attempted, notSent)
    /\ PlatformName(t) \notin rollbackOff
    /\ Releasable(holds[Current(t)])

(* The failure path.  A rolled back task waits out the grace period, any     *)
(* other retry goes to the queue's tail.                                     *)
Failure(t, attempted, notSent, noRetry) ==
    LET again == ~noRetry /\ task[t].left > 0
        back  == RollsBack(t, attempted, notSent) IN
    /\ IF back THEN ReleaseWindow(Current(t)) ELSE KeepWindow(Current(t))
    /\ rollbackOff' = IF Contradicts(PlatformName(t), attempted, notSent)
                      THEN rollbackOff \union {PlatformName(t)} ELSE rollbackOff
    /\ task' = [task EXCEPT ![t].attempted = attempted,
                            ![t].status = IF again THEN "pending" ELSE "failed",
                            ![t].left = IF again THEN @ - 1 ELSE @]
    /\ grace' = IF again /\ back THEN grace \union {t} ELSE grace
    /\ due' = IF again /\ back
              THEN [due EXCEPT ![t] = [day |-> 1, at |-> now + Grace]] ELSE due
    /\ queue' = IF again /\ ~back THEN Append(queue, t) ELSE queue
    /\ snapshot' = Saved(queue', running, delayed, task')
    /\ running' = running \ {t}
    /\ scan' = Kick(queue', running', paused)
    /\ UNCHANGED <<delayed, quotaBlocked, modeVars, proven>>

(* publish() returned.  markSubmitted() finds the task by id, so a late      *)
(* answer marks the attempt that runs now.                                   *)
ExecutorReturns(e) ==
    /\ Idle
    /\ e \in execs /\ e.stage = "wrote"
    /\ execs' = execs \ {e}
    /\ IF Awaited(e) THEN Success(e.task)
       ELSE /\ task' = IF e.task \in running
                       THEN [task EXCEPT ![e.task].attempted = TRUE, ![e.task].submitted = TRUE]
                       ELSE task
            /\ UNCHANGED <<guardVars, placeVars, modeVars, trustVars, snapshot, scan>>
    /\ UNCHANGED histVars

(* publish() threw: the attempt is marked as submitted for all the queue     *)
(* knows, unless the publisher declared that nothing was sent.               *)
ExecutorThrows(e, notSent, noRetry) ==
    /\ Idle
    /\ e \in execs /\ e.stage \in {"publishing", "wrote"}
    /\ notSent => e.stage = "publishing" /\ ~noRetry
    /\ execs' = execs \ {e}
    /\ IF Awaited(e)
       THEN Failure(e.task, task[e.task].attempted \/ ~notSent, notSent, noRetry)
       ELSE /\ task' = IF e.task \in running /\ ~notSent
                       THEN [task EXCEPT ![e.task].attempted = TRUE] ELSE task
            /\ UNCHANGED <<guardVars, placeVars, modeVars, trustVars, snapshot, scan>>
    /\ UNCHANGED histVars

(* The executor failed before entering the publisher: a risk suspension,     *)
(* which must not be retried, or a publisher that could not be created.      *)
ExecutorRefuses(e, noRetry) ==
    /\ Idle
    /\ e \in execs /\ e.stage = "refused"
    /\ execs' = execs \ {e}
    /\ IF Awaited(e) THEN Failure(e.task, task[e.task].attempted, FALSE, noRetry)
       ELSE UNCHANGED <<guardVars, placeVars, task, modeVars, trustVars, snapshot, scan>>
    /\ UNCHANGED histVars

(* The timeout wins the race; nobody tells the executor.                     *)
Timeout(t) ==
    /\ Idle
    /\ t \in running
    /\ [task |-> t, n |-> task[t].tries, stage |-> "refused"] \notin execs
    /\ Failure(t, task[t].attempted, FALSE, FALSE)
    /\ expired' = expired \union {Current(t)}
    /\ UNCHANGED <<execs, sent>>

----------------------------------------------------------------------------
(* cancel(), clearPending(), pause(), resume()                               *)

CancelWaiting(t) ==
    /\ Idle
    /\ Owned(t)
    /\ \/ t \in ToSet(queue) /\ queue' = Without(queue, t) /\ delayed' = delayed
       \/ t \in delayed /\ delayed' = delayed \ {t} /\ queue' = queue
    /\ task' = [task EXCEPT ![t].status = "cancelled"]
    /\ snapshot' = CancelSaves(queue', running, delayed', task')
    /\ UNCHANGED <<guardVars, running, grace, due, quotaBlocked, execs, modeVars,
                   trustVars, scan, histVars>>

(* The abort settles the race at once, whatever the executor does; its hold  *)
(* is never given back.  The state was saved with the task still running.    *)
CancelRunning(t) ==
    /\ Idle
    /\ t \in running /\ Owned(t)
    /\ task' = [task EXCEPT ![t].status = "cancelled"]
    /\ snapshot' = CancelSaves(queue, running, delayed, task')
    /\ running' = running \ {t}
    /\ scan' = Kick(queue, running', paused)
    /\ UNCHANGED <<guardVars, queue, delayed, grace, due, quotaBlocked, execs,
                   modeVars, trustVars, histVars>>

(* q is the queue s without the current user's tasks, in the same order.     *)
Others(q, s) ==
    /\ ToSet(q) = {t \in ToSet(s) : ~Owned(t)}
    /\ Len(q) = Cardinality(ToSet(q))
    /\ \A i, j \in DOMAIN q : i < j =>
          \E k, l \in DOMAIN s : k < l /\ s[k] = q[i] /\ s[l] = q[j]

ClearPending ==
    LET cleared == {t \in ToSet(queue) \union delayed : Owned(t)} IN
    /\ Idle
    /\ cleared # {}
    /\ \E q \in SeqOf(Task, Len(queue)) : Others(q, queue) /\ queue' = q
    /\ delayed' = delayed \ cleared
    /\ task' = [t \in Task |->
                  IF t \in cleared THEN [task[t] EXCEPT !.status = "removed"] ELSE task[t]]
    /\ snapshot' = Saved(queue', running, delayed', task')
    /\ UNCHANGED <<guardVars, running, grace, due, quotaBlocked, execs, modeVars,
                   trustVars, scan, histVars>>

Pause ==
    /\ Idle /\ ~paused
    /\ paused' = TRUE
    /\ UNCHANGED <<guardVars, placeVars, task, execs, shut, owner, trustVars, snapshot,
                   scan, histVars>>

Resume ==
    /\ Idle /\ ~shut
    /\ paused' = FALSE
    /\ scan' = Kick(queue, running, FALSE)
    /\ UNCHANGED <<guardVars, placeVars, task, execs, shut, owner, trustVars, snapshot,
                   histVars>>

----------------------------------------------------------------------------
(* emergencyRelease(), clearRollbackDisabled()                               *)

(* Finds a postponed task of the channel, of whatever user, clears both      *)
(* windows of the user logged in and puts the task at the queue's head.      *)
(* Nothing is saved.                                                         *)
OwnView(n) == {p \in Platform : NameOf[p] = n /\ UserOf[p] = owner}

EmergencyRelease(t) ==
    /\ Idle
    /\ t \in delayed
    /\ \/ \E p \in OwnView(PlatformName(t)) : EmergencyClear(p, AccountOf[t])
       \/ OwnView(PlatformName(t)) = {} /\ UNCHANGED guardVars
    /\ delayed' = delayed \ {t}
    /\ quotaBlocked' = quotaBlocked \ {t}
    /\ queue' = <<t>> \o queue
    /\ scan' = Kick(queue', running, paused)
    /\ UNCHANGED <<running, grace, due, task, execs, modeVars, trustVars, snapshot, histVars>>

ClearRollbackDisabled(p) ==
    /\ Idle
    /\ p \in rollbackOff
    /\ rollbackOff' = rollbackOff \ {p}
    /\ UNCHANGED <<guardVars, placeVars, task, execs, modeVars, proven, snapshot, scan,
                   histVars>>

----------------------------------------------------------------------------
(* setOwnerSubjectProvider() after a login, logout or switch                 *)

MutKeepForeign(o) == {}

Foreign(o) == {t \in running : OwnerOf[t] # o}

SwitchOwner(o) ==
    /\ Idle
    /\ o \in Logins /\ o # owner
    /\ owner' = o
    /\ task' = [t \in Task |->
                  IF t \in Foreign(o) THEN [task[t] EXCEPT !.status = "cancelled"] ELSE task[t]]
    /\ snapshot' = IF Foreign(o) = {} THEN snapshot
                   ELSE SavedAs(queue, running, delayed, task', o)
    /\ running' = running \ Foreign(o)
    /\ scan' = Kick(queue, running', paused)
    /\ UNCHANGED <<guardVars, queue, delayed, grace, due, quotaBlocked, execs, paused,
                   shut, trustVars, histVars>>

(* shutdown(): timers go, everything the queue still lists is cancelled.     *)
(* The last save happens after the delayed and queued tasks are dropped if   *)
(* there was a queued or a running task, and before that otherwise.          *)
Shutdown ==
    LET waiting == ToSet(queue) \union delayed IN
    /\ Idle /\ ~shut
    /\ shut' = TRUE /\ paused' = TRUE
    /\ task' = [t \in Task |->
                  IF t \in waiting \union running
                  THEN [task[t] EXCEPT !.status = "cancelled"] ELSE task[t]]
    /\ snapshot' = IF queue # <<>> \/ running # {} THEN Saved(<<>>, running, {}, task')
                   ELSE IF delayed # {} THEN Saved(queue, running, delayed, task')
                   ELSE snapshot
    /\ queue' = <<>> /\ running' = {} /\ delayed' = {} /\ grace' = {} /\ quotaBlocked' = {}
    /\ UNCHANGED <<guardVars, due, execs, owner, trustVars, scan, histVars>>

(* The clock moves between handlers.                                         *)
Clock == Idle /\ (Tick \/ Midnight) /\ UNCHANGED queueVars

----------------------------------------------------------------------------
Init ==
    /\ GuardInit
    /\ queue = <<>> /\ running = {} /\ delayed = {} /\ grace = {} /\ quotaBlocked = {}
    /\ due = [t \in Task |-> [day |-> 1, at |-> 0]]
    /\ task = [t \in Task |-> [status |-> "new", left |-> 0, tries |-> 0,
                               attempted |-> FALSE, submitted |-> FALSE, retriedAs |-> NoTask]]
    /\ execs = {}
    /\ paused = FALSE /\ shut = FALSE
    /\ owner \in Logins
    /\ proven = {} /\ rollbackOff = {}
    /\ snapshot = [o \in Owner |-> NoSnapshot]
    /\ scan = 0
    /\ sent = {} /\ expired = {}

ProcessNext == Skip \/ Postpone \/ Execute

Timers == \E t \in Task : DelayOver(t) \/ GraceOver(t) \/ Timeout(t)

Executors == \E e \in execs :
    \/ PlatformWrite(e)
    \/ ExecutorReturns(e)
    \/ \E noRetry \in BOOLEAN : ExecutorRefuses(e, noRetry)
    \/ \E notSent, noRetry \in BOOLEAN : ExecutorThrows(e, notSent, noRetry)

Calls ==
    \/ \E t \in Task : Add(t) \/ CancelWaiting(t) \/ CancelRunning(t) \/ EmergencyRelease(t)
    \/ \E t, u \in Task : ManualRetry(t, u)
    \/ ClearPending \/ Pause \/ Resume \/ Shutdown
    \/ \E p \in Name : ClearRollbackDisabled(p)
    \/ \E o \in Logins : SwitchOwner(o)

Next == ProcessNext \/ Timers \/ Executors \/ Calls \/ Clock

Spec == Init /\ [][Next]_vars

----------------------------------------------------------------------------
(* Properties                                                                *)

SnapshotType(s) ==
    /\ DOMAIN s = {"pending", "running", "delayed", "left", "valid"}
    /\ s.pending \in Seq(Task) /\ s.running \subseteq Task /\ s.delayed \subseteq Task

TypeOK ==
    /\ GuardTypeOK
    /\ queue \in Seq(Task)
    /\ running \subseteq Task /\ delayed \subseteq Task /\ grace \subseteq Task
    /\ quotaBlocked \subseteq Task
    /\ due \in [Task -> [day : 1..MaxDay + 1, at : Nat]]
    /\ task \in [Task -> TaskRec]
    /\ execs \subseteq [task : Task, n : 1..MaxTries, stage : Stage]
    /\ paused \in BOOLEAN /\ shut \in BOOLEAN
    /\ owner \in Logins
    /\ proven \subseteq Name /\ rollbackOff \subseteq Name
    /\ DOMAIN snapshot = Owner /\ \A o \in Owner : SnapshotType(snapshot[o])
    /\ scan \in 0..Len(queue)
    /\ sent \subseteq Attempt /\ expired \subseteq Attempt

(* Every task the queue still owes an outcome sits in exactly one place, and *)
(* no finished task sits anywhere: the handlers that move a task between     *)
(* _queue, _running, _delayed and the back-off timers neither lose nor       *)
(* double it.  Shutdown alone drops the tasks that wait in a back-off timer. *)
Places(t) == <<t \in ToSet(queue), t \in running, t \in delayed, t \in grace>>

Conserved ==
    /\ \A i, j \in DOMAIN queue : i # j => queue[i] # queue[j]
    /\ \A t \in Task :
          LET in == {i \in 1..4 : Places(t)[i]} IN
          /\ Live(t) /\ ~shut => Cardinality(in) = 1
          /\ ~Live(t) => in = {}
          /\ t \in running <=> task[t].status = "running"

(* Never more tasks in flight than slots, and never two of one channel       *)
(* (platform and account), whatever retries, cancellations and switches do.  *)
ChannelSerial ==
    /\ Cardinality(running) <= MaxConcurrent
    /\ \A t, u \in running : t # u => Channel(t) # Channel(u)

(* A task in flight belongs to the user logged in.                           *)
RunningOwned == \A t \in running : Owned(t)

(* The window of an attempt that wrote to the platform is given back only if *)
(* the queue had given that attempt up by timeout.                           *)
RollbackOnlyUnsent ==
    \A i \in sent : holds[i].state = "released" => i \in expired

(* cancel() is final: no late executor, timer or retry brings the task back. *)
CancelFinal ==
    [][\A t \in Task : task[t].status = "cancelled" => task'[t].status = "cancelled"]_vars

(* What the queue lists for its owner is in the owner's snapshot, except     *)
(* after a rollback: neither the back-off timer nor the requeue it makes is  *)
(* serialized (serialize(), _delayRequeue()).                                *)
InSnapshot(t) ==
    LET s == snapshot[OwnerOf[t]] IN t \in ToSet(s.pending) \union s.running \union s.delayed

RolledBack(t) == task[t].tries > 0 /\ holds[Current(t)].state = "released"

SnapshotCovers ==
    \A t \in ToSet(queue) \union running \union delayed : InSnapshot(t) \/ RolledBack(t)

(* A task that was added ends, if from some time on the queue is not paused, *)
(* not shut down and serves the task's owner: no wait for a window, for      *)
(* tomorrow or after a rollback, and no lost answer, holds it for ever.      *)
Serving(t) == ~paused /\ ~shut /\ Owned(t)

EveryTaskEnds ==
    \A t \in Task : <>[]Serving(t) => (Live(t) ~> task[t].status \in Terminal)

(* The loop runs to its end, and JavaScript comes back to a due timer, an    *)
(* expired timeout and a settled promise.  Executors owe no answer: a hung   *)
(* publisher is ended by the timeout alone.                                  *)
Fairness ==
    /\ WF_vars(ProcessNext)
    /\ \A t \in Task : WF_vars(DelayOver(t)) /\ WF_vars(GraceOver(t)) /\ WF_vars(Timeout(t))
    /\ \A t \in Task, n \in 1..MaxTries :
          WF_vars(\E noRetry \in BOOLEAN :
                      ExecutorRefuses([task |-> t, n |-> n, stage |-> "refused"], noRetry))

----------------------------------------------------------------------------
(* What the code's documents say and the code does not do                    *)

(* getStatus() (lines 397-402): pending and running together count every     *)
(* task the queue still owes an outcome.                                     *)
PendingListed ==
    \A t \in Task : Live(t) /\ ~shut => t \in ToSet(queue) \union running \union delayed

(* openspec publish-frequency-control, scenario "a timed-out task still      *)
(* occupies its interval".                                                   *)
TimeoutKeepsWindow == \A i \in expired : holds[i].state # "released"

(* bootstrap.js lines 131-133 and PRD G1: a risk suspension fails before any *)
(* platform write, so its window is rolled back.                             *)
RefusalReleases ==
    [][\A e \in execs : ExecutorRefuses(e, TRUE) /\ Awaited(e)
          => holds'[<<e.task, e.n>>].state = "released"]_vars
=============================================================================
