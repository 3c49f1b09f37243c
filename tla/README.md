# Multi-Publish: TLA+ models of the publishing core

Multi-Publish is an Electron application that publishes articles and videos to
several dozen platforms from several accounts per platform, and produces videos
in pipelines of paid model calls. This directory models the part of it where
order, time and failure decide whether an article is published once, twice, too
early or not at all, whether a run of a pipeline is paid twice or lost, and
whether an account is shown as logged in on good evidence.

Contents: [inventory](#inventory), [modules](#modules), [runs](#runs),
[proofs](#proofs), [findings](#findings), [limits](#limits), [plan](#plan).

## Inventory

Paths are relative to `src/`. `SU` is `packages/shared-utils/src`, `EL` is
`apps/desktop/electron`.

| Component | State | Operations | Talks to |
|---|---|---|---|
| Frequency guard, `SU/publish-interval-guard.js` | two windows per attempt (account, platform) in the store; counts and rollback counts per account and day | `check`, `recordPublish`, `release`, `clearWindow` | the store (scoped by login), called by the queue |
| Task queue, `SU/task-queue.js`, `SU/task-queue-frequency.js` | `_queue`, `_running`, `_runningByChannel`, `_delayed`, `_pendingTimers`, `_quotaBlocked`, history, per-platform trust in submission marks | `add`, `retry`, `cancel`, `clearPending`, `pause`, `resume`, `setOwnerSubjectProvider`, `emergencyRelease`, `serialize`, `deserialize`, `shutdown` | guard, executor, state saver, owner provider |
| Executor, `EL/bootstrap.js` 101-153 | none | risk check, publisher lookup, `publish()`, submission marks | publishers, risk suspender, queue |
| Persistence, `EL/bootstrap/phase3-services.js`, `EL/services/store`, `EL/shutdown.js` | SQLite database in memory, its image on disk, the queue's snapshot per user | flush every five seconds, read at start, close | queue, guard |
| Scheduler, `SU/scheduler.js`, `EL/bootstrap/resume-guard.js` | JSONL records (`pending`, `submitted`, `dispatching`, `executed`, `failed`, `cancelled`), timers, dispatch operations with claim retries | `create`, `cancel`, `restore`, `rearm`, `stopAll` | queue, identity, power monitor |
| Batch manager, `EL/services/batch-manager.js` | batch rows; per execution accepted tasks, early results, counts | `createBatch`, `executeBatch`, `scheduleBatch`, `cancelBatch`, `restoreScheduledBatches` | queue events, scheduler |
| Account state lock, `EL/services/account-state-lock.js` | one chain of tickets per account | `withAccountStateLock` | checks, monitor, restore |
| Account status writers, `EL/ipc-handlers/account.js`, `EL/services/login-status-monitor.js`, `EL/services/cloud-account-restore.js`, `EL/publishers/account-manager.js` | the credential file, the status row | single, batch and periodic check, restore, login | lock, Python backend |
| Pipeline engine, `EL/services/pipeline-engine.js`, `EL/services/run-state-store.js` | `_runs`, `_history`, snapshots on disk, checkpoints | `startOrchestrated`, `pauseRun`, `cancel`, `cancelRun`, `resumeOrchestration`, confirmations, `deleteRun` | stage executors, pages, batch queue |
| Story2Video batch queue, `EL/services/story2video-batch-queue.js` | items with status and run id, retry timer | `createBatch`, `cancelBatchItems`, drain, run events | pipeline engine |
| Emergency release quota, `EL/services/publish-emergency-release.js` | uses per account and day, last use | `check`, `record` | queue, guard |
| Offline manager, `EL/services/offline-manager.js` | cached tasks on disk, online flag | list, clear (the replay is never started) | none |
| Model call scheduling, `EL/services/api-usage-governor.js`, `EL/services/token-budget-windows.js` | per key (type and model) places taken, waiters with a deadline, next time slot, cooldown, rate factor; per provider limits and requests windows | `run`, `sweepAll`, `setProviderLimits`, `setProviderTokenWindows` | all model callers, settings |
| Collection engine, `packages/collection-engine` | circuit breakers, cool-down pool | `isOpen`, `recordFailure`, ... | collectors |
| Identity, publishers, API server, content engines, renderer, operations centre | see PROJECT.json | | |

What is hard:

- *Time out against answer.* A timeout ends the wait, not the executor. The
  executor's answer arrives when the task is waiting, running again, finished
  or cancelled, and the submission marks it leaves are looked up by task id.
- *Rollback.* The window is booked before the attempt and given back after some
  failures. Other attempts, of the same account or of others on the platform,
  may have booked or rolled back in between, an emergency release may have
  emptied the window, and midnight may have passed.
- *Places of a task.* A task sits in the queue, in flight, in the delayed map or
  in a back-off timer, and moves in handlers with early returns and `finally`.
- *Owners.* Queue, store and snapshot are shared by whoever is logged in; the
  login changes while tasks are queued and in flight.
- *Crash.* Windows, counts and the snapshot are in memory up to five seconds
  before they are on disk, and what a start reads back has to be what the saver
  wrote.

- *Two records of one thing.* A scheduled record is in a file and with the
  queue, a batch in a row and in an execution's counters, a run in memory, in
  the history and in a snapshot. A crash, a failed write or a second actor
  comes between the two.
- *Late answers to replaced objects.* Resuming a pipeline run makes a new object
  under the old id, while an executor may still hold the old one: pausing does
  not stop the stage, and a paused run may be resumed at once.
- *Lists taken before a lock.* The checks of accounts list statuses, wait for
  the account's lock, and decide then.

What makes each component correct: the guard never allows two attempts closer
than the interval unless one was provably not sent; the queue neither loses nor
doubles a task, keeps a channel serial, gives no window back for an attempt that
was sent, and eventually ends every task; a restart keeps the
interval and the quota to what was booked before it; the scheduler hands a record to the queue once at
most and forgets none; a batch counts each result once and completes; the
engine runs stages in order, with one executor for each object, past no gate the
user has not confirmed, can resume every unfinished run, and brings no cancelled
one back; the batch queue stays within its limits and
drains; the lock is a fair mutex with time outs, and a status is about the
credential on disk; the governor counts places and requests exactly, and ends
every call. The hazards, each with its line and the properties that
cover it, are in PROJECT.json.

## Modules

    PublishIntervalGuard ── TaskQueue ── PublishProcess        publishing
            ▲                                   ▲
    PublishIntervalGuardProofs ◄────────  TaskQueueProofs

    PlatformScheduler    BatchManager                          above the queue
            ▲                 ▲
    PlatformSchedulerProofs  BatchManagerProofs

    AccountMutex ◄─refines─ AccountLock ── AccountStatus       accounts
                                               ▲
                                         AccountProofs

    PipelineEngine       StoryBatchQueue                       pipelines
          ▲                   ▲
    PipelineEngineProofs StoryBatchQueueProofs

    ModelCallGovernor                                          model calls
            ▲
    ModelCallGovernorProofs

A line means EXTENDS. Each component has a module `MC...` with its instances.
`PublishIntervalGuard` and `AccountMutex` are also the abstract specifications
that `TaskQueue` and `AccountLock` implement. The scheduler and the batch
manager see the queue as something that takes a task or refuses it, and ends
what it took; the batch queue sees of the engine a run's status, the budget and
the terminal events.

**PublishIntervalGuard** models the guard on its own, with callers that start an
attempt when it is allowed and later keep or release its window. It serves
three times: as a component, as the abstract specification that the queue is
shown to implement (property `GuardSpec` of `MCQueueCalls`, theorem
`QueueRefinesGuard`), and as the module the spacing proofs are about.

| TLA+ | Code |
|---|---|
| `timeline` | the store behind `get`/`set`, `publish_timeline` |
| `count`, `rollbacks` | `publish_daily_count` |
| `holds[i]` | the hold `recordPublish()` returned to attempt `i`, with what became of it |
| `Start` | `check()` allows and `recordPublish()` books, in one handler |
| `ReleaseWindow`, `KeepWindow` | `release()` succeeds; declines or is not called |
| `ClearWindow` | `clearWindow()`, called by an emergency release |
| `NumericStore` | TRUE: the store returns the number it was given. FALSE: it returns text |

**TaskQueue** extends the guard with the queue. JavaScript runs a handler to its
end, so a handler is an action; the loop `_processNext()` at a handler's end is
unrolled with the counter `scan`, and nothing else happens until it is zero
(`Idle`). An executor is a record in `execs` that advances on its own and may
outlive the queue's interest in it.

| TLA+ | Code |
|---|---|
| `Skip`, `Postpone`, `Execute` | one turn of the loop: the task is passed over, blocked by the guard, dispatched |
| `DelayOver`, `GraceOver`, `Timeout` | the requeue timer, the back-off timer, the task timeout |
| `PlatformWrite`, `ExecutorReturns`, `ExecutorThrows`, `ExecutorRefuses` | the executor writes, returns, throws, fails before the publisher |
| `Success`, `Failure` | the two ends of `_executeTask()`, with its `finally` |
| `CancelWaiting`, `CancelRunning` | `cancel()` |
| `SwitchOwner` | `setOwnerSubjectProvider()` after the identity changed |
| `Saved` | `_saveState()` under the current login |

The guard's `Platform` is here one user's view of one platform, because the
store scopes windows and counts by login (`UserOf`, `NameOf`). What the queue
keeps in memory (channels, trust in submission marks) goes by `Name`.

**PublishProcess** puts the queue in a process: the database image on disk, the
flush, `Crash`, `Exit` and `Boot`. A crash comes just after a flush or between
two; in the second case the image may be older than what the process knew, and
the history variable `stale` says so from then on. A start takes windows, counts
and snapshots from the image, and queues nothing (`Recovered`): the saver stores
the snapshot as a text, the store parses what it reads (`settings-store.js` 22),
and `deserialize()` parses the object once more, which throws and is answered
with 0 (`task-queue.js` 318, 379-380). The loops that restore tasks, and the
erasure of the snapshot after a successful restore (`phase3-services.js`
288-294), are therefore never reached and have no action. `RestartKeeps` states
what the documents promise instead, and `MCProcessLost` shows the loss.

**PlatformScheduler** models the records' life: a record is created and marked,
its dispatch operation claims it in the file (with up to three attempts when a
write fails), hands it to the queue and writes the outcome.

| TLA+ | Code |
|---|---|
| `disk` | the status of each record in the file |
| `timers`, `expected` | `timers`, with the status each timer's claim starts from |
| `op` | where the record's `dispatch()` is: waiting for a retry, claimed, refused, added to the queue |
| `Create`, `Fire`, `Retry` | `create()`; a timer; a claim's next attempt |
| `Refuse`, `Submit`, `Finish` | `dispatch()` after a claim that failed; up to the queue; after it |
| `Login`, `Rearm`, `StopAll`, `Restart` | `restoreForOwner`, the wake-up guard, shutdown, a crash or exit and the next start |
| `identity` | is an owner provider configured? Both cases are checked |

Any write may fail (`MaxFails` in all), and a crash may come between any two
actions. `sent`, `told` and `lost` are history: how often the queue took the
record, whether the user was told of a failure, whether the operation was
handed back or cut off.

**BatchManager** models executions and schedules of batches. A target that is
awaited may finish before its id is known (`early`); the loop then counts it
once. `Offers` is the loop up to the next target the queue accepts, `Counted`
the counters with the row they are saved to.

**AccountMutex** states what `withAccountStateLock` promises: one section at a
time per account, in the order of the calls, none after its time out, and nobody
waits for ever. **AccountLock** is the lock: promise chain (`line`), counter,
flag, map entry, ticket. **AccountStatus** runs the single check, the batch
check, the monitor and the cloud restore in that lock, beside a login that does
not take it.

| TLA+ | Code |
|---|---|
| `cred` | the credential file; each save makes a new number |
| `status`, `about` | the status row, and (history) the credential it was said about |
| `snap` | the list an account was picked from, before the lock |
| `Verdict`, `Inconclusive`, `Decide`, `Writes` | the platform's answer; no answer; the status read again and `loginStatusTransition`; the write |
| `RestoreStarts`, `RestoreMarks` | `applyCredentialLocally` |
| `LoginSaves`, `LoginMarks` | `updateCapturedAccount` |

**PipelineEngine** models orchestrated runs. `obj[r]` is the sequence of objects
made for a run id, `reg[r]` the one `_runs.get(r)` returns. An executor call is
counted in the object's `fly`; when it returns (`StageEnds`) the code checks
whether the object is still the registered one. `Launch`, `Advance`, `Finalize`
and `Proceed` are functions of what a handler sees (`World`), composed in the
order of the code, so that one action is everything between two awaits. `disk`
is the snapshot of each run, `hist` the terminal copy.

The user may call anything at any time: a run is paused while its stage is with
an executor and resumed before the stage has come back, as the pages allow
(`ResultView.vue` 753-770 pauses, `CreateViewHistory.vue` 243-248 and 583-586
offer Resume for any paused run, 286-291 Delete for every one). Three notions
name what the properties have to except. `forced` is a history variable, the
runs that a confirmation moved on at a pause it is not meant for: the code
accepts it, and everything the stages rest on is lost with it. `HasStages` is
false for a run that was resumed behind its last stage, since its project could
not be saved. `LateAnswer` is the return of an executor to an object that a
resume has replaced. Each is one of the [findings](#findings).

**StoryBatchQueue** models the queue in front of the engine. A drain is one step
of whatever woke it, because `startOrchestrated` has no await of its own in
background mode.

**ModelCallGovernor** models one call's way through `run()`, for calls to the
models of one provider. All times are what is left of them, and one tick takes
one from each; callbacks that wait for no timer run before time passes.

| TLA+ | Code |
|---|---|
| `active`, `ahead` | a key's counter of places and its waiters, as who was in line when a call joined it |
| `slot`, `cool`, `gap` | `nextSlotAt`, `cooldownUntil`, the spacing that `rateFactor` gives |
| `win`, `ticket` | the requests window; a call's reservation, of the window's present generation or of an older one |
| `Run`, `Pace`, `CheckCooldown`, `Send` | `run()` up to `_acquireSlot`; `_pace`; `_waitCooldown`; the reservation and the first attempt |
| `Answered`, `RateLimited`, `Transient`, `Refused`, `Retry` | the ends of an attempt by class of failure, and the next attempt |
| `Leave` | the `finally` of the call with `_pump`: expired waiters are refused, the place goes to the first in line |
| `SweepAll`, `SaveSettings` | `sweepAll` at a run's end; `_applyGovernorLimits` for every provider |

Bounds, all constants: `MaxTime` and `MaxDay` bound the clock, `MaxTries` the
dispatches of a task, `MaxBoots` and `MaxRestarts` the restarts, `MaxFails` the
writes that fail, `MaxLogins` the logins, `MaxLives` the objects of a run id,
`MaxFly` the calls of one stage of one object, `MaxSchedules` the schedules,
`MaxSaves` the saves of the settings. A
module named `MC...` gives the constants of an instance and, where a run needs a
smaller one, the next-state relation restricted to the actions the run is about.

## Runs

| Run | Instance | Shows |
|---|---|---|
| `MCGuard` | one account and account-less tasks on one platform, four attempts, intervals two and one, quota one, five ticks, two days | `AccountSpacing`, `PlatformSpacing`: a rollback or an emergency release never lets two standing attempts come too close; `QuotaBound` (with the types), `AttemptsBounded`, although a refund credits the day it runs on |
| `MCQueueCalls` | two users with a task each on the same platform and account name, logout, two slots, every call but the manual retry, which needs a second task of the same user and is in `MCQueueLive` and `MCProcess` | `Conserved`, `CancelFinal`, `TypeOK`, `RollbackOnlyUnsent` (the window of an attempt that wrote is given back only if the attempt had timed out), `RunningOwned`, `SnapshotCovers` |
| `MCQueueLive` | two tasks of one channel, a manual retry, quota two, two days, six ticks, pause and resume, fairness | `ChannelSerial`, that the queue uses the guard as `GuardSpec` allows, and `EveryTaskEnds` |
| `MCProcess` | two tasks of one channel, a manual retry, one restart after a crash at any step or an exit | `SpacingKept` and `QuotaKept`: `AccountSpacing`, `QuotaBound` and `AttemptsBounded` across a restart from an image that held every write |
| `MCProcessLost` | as `MCProcess` | a violation: `RestartKeeps` |
| `MCScheduler` | one new record and one left by an earlier version, two users, three failing writes, two logins, one restart | `SentOnce`, `CancelledNotSent`, `PendingTracked` (with the types), and under fairness `RecordsSettle` |
| `MCBatches` | one batch of two targets, two executions, one schedule, a restart | `CountIsResults` (in memory and in the row), `CompleteIsWhole`, and under fairness `ExecutionsComplete` |
| `MCAccountStatus` | a batch check, the monitor and a restore on one account, one login | `MutexSpec` (the lock implements the abstract one, liveness included), `NoLeak`, `ActiveIsProven`, `ExpiredSticky` |
| `MCPipelineRuns` | one manual run of three stages with three kinds of pause, paused, cancelled, resumed onto a second object, confirmed and deleted at any step, beside one run of a batch; budget one, projects that may not be saved, one restart | `OneExecutor` (with the types), `InOrder`, `GateHeld`, `Recoverable`, `CancelFinal`, and under fairness `RunSettles` |
| `MCStoryBatch` | four items, one of which cannot start, two manual runs, two items at a time, budget three | `RunningItemHasRun`, `StartsWithinLimits`, and under fairness `QueueDrains` |
| `MCGovernor` | three calls to one model, two places or one, no limit or two requests in a period of three ticks, one save of the settings | `PlacesCounted`, `QuotaCounted`, and under fairness `CallsEnd` |
| `MCSchedulerDeferred` | as `MCScheduler`, without restart, one failing write | a violation: `DeferredResubmitted` |

The bounds let each interesting case happen: two tasks are enough for one to run
while the other waits on its channel, is postponed or is cancelled (two tasks of
one channel, and in `MCQueueCalls` one of each user, who are alike, which the
symmetry says); two dispatches for a retry whose predecessor's executor still
runs; three attempts for one that books over another's window and a third that
comes after the rollback, and a fourth for the quota; two days for a rollback after midnight;
two users for every order of login, logout and switch; three failing writes for
a claim that gives up, and fewer for every partial failure; three calls on a
lock for one that times out between one inside and one behind; two objects of a
run id for a late executor of the first, also after the second was cancelled, and
two calls of one stage of one object for an executor called twice; three stages
for one before and one after the stage that was interrupted; three calls for one that ends between one
that holds a place and one in line, and for one more than the limit. Every
property has a mutant of the code in PROJECT.json that TLC finds with the same
bounds.

`CHECK_DEADLOCK FALSE` is set everywhere: clocks, records, runs and calls are
bounded, and a queue without work, or shut down, does stop.

The exceptions in properties are as narrow as the model allows, so that every
other loss is still found: `SnapshotCovers` except tasks that were rolled back,
`SpacingKept` and `QuotaKept` a crash before a flush, `OneExecutor`, `InOrder`,
`GateHeld` and `Recoverable` a run that was `forced`, `OneExecutor`,
`Recoverable` and `RunSettles` a run with no stage left (`HasStages`),
`CancelFinal` of the engine the late answer to a replaced object,
`ActiveIsProven` a login across a section and a status write that was reported
as failed, `RecordsSettle` a record whose operation was handed back or cut off,
`ExecutionsComplete` a cancelled task, `RunningItemHasRun` a paused run the user
deleted. All are behaviours of the code, listed under [findings](#findings).

`MCPipelineRuns` checks `EngineSpec` within two bounds of its own (`MCNext`): the
batch's run is started and its scene assets are confirmed, all other calls are
about the manual run; and once a run was forced, of which only the types,
`CancelFinal` and `RunSettles` speak, only the executors go on. In `MCProcess` a start from an image that lacks
writes is not followed, and the flush timer runs only until the second
task is added: `Crash` itself chooses between an image that holds every write
and the older one.

**Fairness.**

- `MCQueueLive`: weak fairness on the dispatch loop (it runs inside a handler),
  on each timer (the event loop comes back to an expired timer), and on a
  refusal (no I/O lies before it). Nothing is assumed of a publisher: it may
  hang for ever, and `Timeout` ends the attempt. Two clock actions, which pass
  time only while a timer waits for it, are weakly fair too. The property is
  conditional on the queue serving the task's owner from some time on, since
  `pause()` and a logout may hold a task for as long as the user likes.
- `MCScheduler`: timers fire, operations go on, time passes. `RecordsSettle` is
  conditional on the owner being logged in from some time on and the scheduler
  not being stopped.
- `MCBatches`: promises settle, and the queue ends what it took (`EveryTaskEnds`
  of the queue is the reason).
- `MCAccountStatus`: the chain is served and timers fire. A section may hang for
  ever, as a browser check may.
- `MCPipelineRuns`: a stage executor returns in the end, well or not. User
  actions are not fair.
- `MCGovernor`: a call's task ends, well or not (the adapters carry a time out,
  `model-provider-manager.js` 23), sleeps end and time passes. A call in line is
  refused, once its time is over, by whichever call ends next.
- `MCStoryBatch`: the retry timer fires and a run that is not paused ends.
  `QueueDrains` is stated for a user who neither starts runs by hand nor pauses.

## Proofs

Every invariant and every safety property of the passing runs is proved for
every value of the constants. The liveness properties are only model-checked.

`PublishIntervalGuardProofs` proves, for every set of platforms, accounts and
attempts, every interval and every bound, from `GuardConstants` alone:

- `GuardTypeCorrect`: `GuardSpec => []GuardTypeOK`.
- `GuardAccountSpacing`: `GuardSpec => []AccountSpacing`.
- `GuardPlatformSpacing`: `GuardSpec => []PlatformSpacing`.
- `GuardQuotaBound`, `GuardAttemptsBounded`: `QuotaBound` and `AttemptsBounded`.

Spacing is not inductive: whether an attempt may start depends on what the
window holds, and a rollback restores an old value. The invariant
`SpacingInv` says of every window with a positive interval:

- *Covered*: the window holds a time no earlier than any standing attempt
  booked on it, so `check()` cannot miss one.
- *Separate*: standing attempts are an interval apart.
- *Nested*: the value an open hold would restore is no earlier than
  any attempt that stood before it, so a rollback re-exposes exactly the
  predecessor.
- *WaivedPast*, *WaivedBefore*: attempts waived by an emergency release are in
  the past and earlier than what is booked later, so a late rollback by one of
  them cannot match the window.

TLC checked `SpacingInv` on an instance of the guard before the proof.
The account and the platform windows are handled by the same lemmas, stated for
a key. The proof has a lemma per action and key, and the temporal step combines
them with PTL.

The quota compares a counter in the store with what happened, and a refund goes
to the day it is made on, not to the day of the attempt. `QuotaInv` therefore
says two things. *DaysInOrder*: attempts fall on days in the order of their
times. *Budget*: for each account and day the attempts are at most the count and
the rollbacks together, the rollbacks are within their cap, the count is within
the quota, and the standing attempts are at most the count. With `SpacingInv`
this is inductive: a window is given back only while no later attempt has taken
it, so on the day of a refund no attempt of the account stands unless the
refunded one was made that day itself. The last part of *Budget* holds on
platforms with an interval only; without one, windows say nothing of attempts.

`TaskQueueProofs` proves, from `GuardConstants` and `QueueConstants`, for every
set of tasks, users, platforms and accounts, first of the queue (`Spec`):

- `QueueRefinesGuard`: `Spec => GuardSpec`. Every step of the queue is a step of
  the guard's specification or leaves its variables alone.
- `QueueAccountSpacing`, `QueuePlatformSpacing`, `QueueQuotaBound`,
  `QueueAttemptsBounded`: the guard's theorems carried over to the queue by the
  refinement.
- `QueueHoldsMatch`, `QueueChannelSerial`, `QueueRunningOwned`.
- `QueueConserved`, `QueueCancelFinal`, `QueueRollbackOnlyUnsent`,
  `QueueTypeCorrect`, `QueueSnapshotCovers`: the properties of these names.

and then of the process around it (`ProcessSpec`):

- `ProcessSpacing` (`SpacingKept`) and `ProcessQuota` (`QuotaKept`).

The refinement needs two facts the guard asks of its caller: an attempt is
started once, and settled at most once. `HoldsMatch` is both at once. A task in
flight has exactly its current hold open, and no dispatch numbered above the
task's counter has a hold. It is kept because the handlers that settle a hold
(`Success`, `Failure`) also take the task out of `running` (`SettleStep`), the
dispatch opens the next hold and counts it (`ExecuteStep`), and no other
handler changes a counter, a hold's state, or puts a task into `running`
(`QuietStep`, `UnsettledStep`). `QueueShape` gives the types these steps need.
`SerialInv` adds that the loop inspects a task only while a slot is free; every
step but a dispatch only thins the tasks in flight (`Thinned`).

*Rollbacks.* That a released attempt has not written is not enough by itself,
since its executor could still write; `ReleasedUnsent` adds that no such executor
is left unless the attempt timed out, and `ExecShape` that an attempt has one
executor, of a dispatch already counted, whose stage says whether it has written.
The answers are then of two kinds: those that leave the mark or are not declared
unsent keep the window, those that may give it back come from an executor that
has not written and ends with its answer (`FailureSettles`).

*Places.* The invariant says that the waiting places share no task and the queue
lists none twice (`Disjoint`), and that status and place agree (`Matched`): a
task is in flight exactly if its status is `running`, and one that waits is
`pending`, with the converse until shutdown. `Conserved` counts places, which is
not what a step changes; the proof of a step shows instead that a set of tasks
takes one status and moves to the place for it (`MovedStep`), with a lemma for
each thing the handlers do to the sequence (`TailPlaces`, `AppendPlaces`,
`FrontPlaces`, `WithoutPlaces`, `OthersPlaces`). A cancelled task is in no place,
and every handler that sets another status starts from a place or from `new`, so
`CancelFinal` needs the invariant too and comes out of the same step.

*Snapshots.* A saved list is the queue filtered by owner. `SelectSeq` is
recursive, and what it returns would need an induction over sequences, so
`OwnedBy` states the same list by the rank of each member, and its lemmas say
that it lists the owner's tasks, each once. A handler either writes no snapshot
and adds no task to the queue, or writes one that lists all its user's tasks
(`Recorded`); so a task listed after a step is in what the step wrote, or was
known before, and its snapshot unchanged (`Traced`). The one way into the queue
that writes nothing is a back-off timer, whose tasks were all rolled back
(`GraceRolledBack`), and a rollback once counted stays so. That is
`SnapshotCovers` with its exception, and the reason why it has to have it.

*The process.* `ProcessInv` adds to the invariant of the queue that the image on
disk is well formed (`DiskOK`) and that a process which went down with nothing
unwritten left its whole state there (`Flushed`). A start from such an image
leaves the guard's variables as they were, and every other step of the process
is one of the guard's or changes none of them: `WindowsStand` carries
`SpacingInv` and `QuotaInv` over any number of restarts. That a start also keeps
the invariant of the queue (`BootInv`) needs no more than that it queues nothing
and leaves the holds and the counts of dispatches as they were.

`AccountProofs` proves, from `LockAssumption` and `StatusAssumption`, for every
set of accounts and calls, of the lock:

- `LockTypeCorrect`: `LockSafety => []LockTypeOK`.
- `LockNoLeak`: `LockSafety => []NoLeak`.
- `LockImplementsMutex`: `LockSafety => Mutex!Safety`, with the refinement
  mapping `Where`.

The invariant `LockInv` behind all three says that the steps on an object's
chain are the calls chained on it, each once and in the order of the calls
(`LineSound`, `InLine`), that the counter is the chain's length (`Counted`),
that an object with a chain is the one in the map and the other way round
(`Mapped`), that only the head of a chain is inside and the flag says so
(`HeadInside`), and that a caller was told of a time out exactly when its ticket
expired (`Told`). `Mapped` is what makes two chains for one account impossible,
and so mutual exclusion per account follows from the order of one chain. That
nobody waits for ever is liveness and checked by `MCAccountStatus`.

And of the writers in it:

- `StatusUsesLock`: `StatusSpec => LockSafety`.
- `ActiveMeansProven`: `StatusSpec => []ActiveIsProven`.
- `ExpiredStays`: `StatusSpec => ExpiredSticky`.

`ActiveIsProven` speaks of moments when no section is inside, so the invariant
has to say what the sections are about to do. `SectionOK` ties a section's step
to its ticket, and adds that a section which writes `unverified` has just read
`active`: this is `ExpiredSticky`. `Vouched` says that a check inside holds the
number of the credential on disk, and that `active` is about this one unless a
restore or a login is about to mark it. It needs mutual exclusion (`OneInside`):
a second section would save a credential under the first one's verdict.

`PlatformSchedulerProofs` proves, from `SchedulerAssumption`, for every set of
records and users and every bound on failing writes, logins and restarts:

- `SchedTypeCorrect`, `RecordSentOnce`, `PendingIsTracked`: `SchedTypeOK`,
  `SentOnce` and `PendingTracked` hold always under `SchedSpec`.
- `CancelledStays`: `SchedSpec => CancelledNotSent`, a cancelled record stays
  cancelled in the file until it is pruned, and is not sent.

That a record is sent once rests on what its status says while an operation is
under way, so the invariant `SchedInv` states for each record (`RecordInv`): a
claim that went through finds the record `dispatching` and not yet sent; a
record in `none`, `pending` or `submitted` was never sent; a timer, a waiting
claim and one that was refused started from `pending` or `submitted` only, so
none can claim what an operation before it, or before a crash, left
`dispatching`, or write over what was cancelled (`StepKeepsCancelled`). `Tracked` is
`PendingTracked` for one record. A step of one record leaves the others as they
were (`Untouched`), so there is one lemma per action, about the record it
concerns, on top of what a claim and a guarded write may change (`ClaimFacts`,
`TryFacts`).

`ModelCallGovernorProofs` proves, from `GovernorAssumption`, for every finite set
of calls and every set of keys, limits, waits and bounds:

- `PlacesAreCounted`: `GovernorSpec => []PlacesCounted`.
- `QuotaIsCounted`: `GovernorSpec => []QuotaCounted`.

The counters are compared with cardinalities, so each step has to say which set
of calls it changes and by whom. A call that leaves makes room for one other at
most (`FirstAlone`), because of two calls in a line one joined it when the other
was there (`InLine`). `LeaveStep` then replaces one element of `Inside` by none
or one, and `StaysInside`, `NobodyMoves` and `OnlyLeaveLine` cover the steps
that leave `Inside` alone. For the window, a reservation is only held by a call
that was sent (`Reserving`), so `Send` reserves for a call that has none, and a
new period or a save leaves no reservation of the present generation
(`Reserved`, `AgedTickets`).

`PipelineEngineProofs` proves, from `EngineAssumption` and `NoneAssumption`, for
every set of runs, stages, kinds of pause, budgets and bounds, of `EngineSpec`,
with any user and with projects that may fail to be saved:

- `PipelineTypeCorrect`, `StagesInOrder` (`InOrder`), `GatesHold` (`GateHeld`),
  `OneExecutorEach` (`OneExecutor`), `RunsRecoverable` (`Recoverable`) and
  `CancelledStays` (`CancelFinal`).

`EngineInv` describes a run id by its slots: the objects made for it, the
registered one, the history entry and the snapshot (`RunOK`). Every object, the
replaced ones too, has reached its stage by way of the earlier ones (`Reached`),
its executors were called with these done (`Called`), and one at most works for
it, on its present stage (`OneCall`); the same `Reached` holds of the history
and the snapshot. This is what a late answer and a resume from disk have in
common. The registered object is the last one made and has not ended (`Held`);
while it runs an executor works for it, and at a pause one does exactly if the
user made the pause (`Busy`): a resume does not call the executor of that object
again, it makes another object. `Slots` ties them together: a run with a stage
left has a snapshot it can be resumed from, and once the snapshot says
`cancelled` nothing is registered and the last object has ended, so that only an
object replaced before can still write. `Pointed` says the same of the object
that `cancel()` acts on. For a run that was forced, only the types, the slots and
the cancellation are claimed (`Forcing`), and forcing is never undone.

The functions `Launch`, `Advance`, `Finalize` and `Proceed`, which the handlers
compose, have a lemma each, about worlds: what they make of a world that may go
on (`Going`) is one whose object is held (`Kept`) or over (`Over`). What a world
of either kind does to the slots is shown once (`Goes`, `Ends`, `Beside`,
`Joins`), so an action's lemma says only which world the handler starts from.

`BatchManagerProofs` proves, from `BatchAssumption`, for every set of batches,
executions and targets:

- `CountsAreResults`: `CountIsResults`.
- `CompletesWhole`: `CompleteIsWhole`.

The counters are cardinalities of what became of the targets before the loop's
place (`Ends`, `Tally`); the result of the target that is awaited came early and
is not counted yet. `Started` says how far the loop is: no target after its place
was offered. Each step then adds one target to one of the sets (`RunOK`), which
makes a result that is counted twice, or never, impossible.

`StoryBatchQueueProofs` proves, from `BatchAssumption`, for every number of
items and every set of runs started by hand:

- `BatchItemsReport`: `BatchSpec => []RunningItemHasRun`.
- `BatchStartsFit`: `BatchSpec => StartsWithinLimits`.

A drain lets an item through with the number of startable items before it
counted, so what it starts are items with different numbers of predecessors, all
below what the limit leaves: no more of them than that (`EarlierOnes`). Beside
manual work the number left is one. `Becomes` combines this with what the drain
leaves of the runs, for any state a handler passes to it. The budget's
cardinalities need `FewRuns`: finitely many runs have been started by hand,
although any number may exist.

Only model-checked: liveness (`EveryTaskEnds`, `RecordsSettle`,
`ExecutionsComplete`, `RunSettles`, `QueueDrains`, `CallsEnd` and the waiting in
`MutexSpec`), which is out of the prover's reach, and the violation runs. Nothing
is proved of the process where a crash came before the last writes were on disk:
there the interval and the quota do not hold.

## Findings

Two violation runs show places where the code does something its comments and
documents exclude; PROJECT.json quotes the lines.

| Run | What happens |
|---|---|
| `MCSchedulerDeferred` | The login changes while a claim is retried. The record is handed back as `submitted` "to be submitted when its owner is back" (`scheduler.js` 208-211), but `restore()` takes up `pending` records only: nothing ever submits it |
| `MCProcessLost` | The process goes with tasks queued or in flight, all of them in the snapshot on disk. The start reads the snapshot parsed and parses it again (`phase3-services.js` 283-287, `settings-store.js` 22, `task-queue.js` 318): no task is queued, against `01-docs/PRD.md` 2044 and the comment at `task-queue.js` 294. The pitfall is the one the comment at `settings-store.js` 28-29 describes |

The models show more behaviours of this kind. They have no run of their own;
where a property is named, it is defined in the module next to the others and
TLC finds the violation when it is added to the run's cfg.

Queue and process:

- `RefusalReleases` with `NumericStore` FALSE: the database returns stamps as
  text, `release()` compares with `===`, so no rollback ever succeeds in the
  desktop application. Since this hides everything else about rollbacks, the
  runs set `NumericStore` to TRUE, the behaviour the code is written for.
- `TimeoutKeepsWindow`: a timeout before the executor reported anything is
  rolled back, against `openspec/specs/publish-frequency-control/spec.md` 76.
- `PendingListed`: a task in the back-off timer is neither listed, nor
  cancellable, nor saved (the same document, 92).
- After a timeout the old executor and the next task of the channel overlap:
  the channel is serial in `running`, not in `execs` (`ChannelSerial`).
- A risk suspension on a platform that has published before is taken for a
  missing submission mark (`Contradicts`): window kept, rollbacks off.
- A crash before the flush loses a window, and the next process may publish too
  early, or beyond the quota. `SpacingKept` and `QuotaKept` speak of processes
  whose image was not `stale` at a crash.

Scheduler and batches:

- With an owner provider configured, the wake-up guard passes the identity's
  state object where an owner is expected; `rearm()` throws before it does
  anything (`resume-guard.js` 56, `Rearm`).
- `ScheduledOnce`: `restoreScheduledBatches()` schedules again, at each start
  and login, a batch whose targets were handed over (`batch-manager.js` 503-518).
- `scheduleBatch` submits the articles before one that is not allowed, while
  `batch-manager.test.js` 303 says of the refusal "整体阻断，不部分提交" (no partial
  submission).
- A cancelled task sends no event the batch listens to: its execution never
  completes and its listeners stay.

Accounts:

- `RestoredIsSaved`: `saveCredential()` answers false when it cannot write
  (`credential-store.js` 325-328); the restore ignores the answer and reports
  success, against its own header ("凭证未落盘 → 不得声称账号可用").
- `NoOverwriteInside`: the login saves its credential without the lock, so a
  check in progress judges one credential and marks another.

Pipelines:

- A run paused by hand while its stage is with the executor and resumed at once
  has two executors at work for one run id, one for each object: the stage is run
  and paid twice, and `StageSaves` of the old one writes the new one's progress
  (`pipeline-engine.js` 1461-1475). `OneExecutor` is about one object.
- If such a run is then cancelled, completed or deleted, the late answer to the
  old object is taken for a cancellation (2377) and the loop finalizes the old
  object as failed (2470). `_finalizeRun` writes this over the record of the run
  id (2159-2161, 2213) and removes the registration by id: a cancelled run can be
  resumed again, although "已取消任务不可断点恢复" (978); a deleted one reappears; a
  new object that is running loses its registration. `CancelFinal` names this
  step (`LateAnswer`); without it TLC finds the overwriting.
- `confirmStageGate` asks for a pause and a checkpoint, not which one: at a pause
  by hand it starts the stage that is still with its executor a second time, on
  the same object.
- `advanceToNextCheckpoint` accepts every pause but that for user input, and a
  run that is not paused: it takes the present stage for run and its gate for
  confirmed, or calls the executor again (1708-1738). The comment at
  `useFilmVideoGen.js` 9 says the engine does not allow it ("引擎 paused
  态不允许无确认 advance"). Both kinds of call set `forced`.
- With `ProjectMayFail` TRUE, a run whose project cannot be saved when it ends is
  finalized as failed with its stage past the last (2183-2203). Resuming it,
  which failed runs allow, makes it running with no stage left to execute: it
  stays so and holds a place of the budget (2460). `HasStages` is this exception.
- `cancel()` reads the current stage before it finalizes; past the last stage it
  throws and leaves the run cancelled but registered (`Cancel`).
- `PendingHasWaker`: while a manual run holds the queue back nothing wakes it
  when that run ends, except a running item or the retry timer (the header of
  `story2video-batch-queue.js`, 15-19, says the queue then goes on).

Model calls:

- With `Retry429` 0 and 0 among `Cooldowns`, `CallsEnd` is violated. The limits
  that the settings save for a provider outside the static table
  (`model-provider-manager.js` 160) have neither `retry429` nor `cooldownMs`:
  `attempt >= undefined` is never true and the sleep of `NaN` ends at once, so a
  call that gets 429 without a retry-after is sent again without end or pause
  (`api-usage-governor.js` 451-462; its header, 11-12, promises a cooldown).
- `SentOutsideCooldown`: the retry after a 429 sleeps for a third of the
  cooldown, and a call already past `_waitCooldown` is sent during one.
- `NoOvertaking`: a newcomer takes a place that a save of the settings made free
  while others wait; `_pump` passes on one place at a time (273).
- A call refused by `_pace` leaves its slot booked (329-336).
- A save of any provider's settings resets the counters of every provider's
  requests window (`SaveSettings`).

## Limits

- The queue's mode without a login (`ownerSubjectProvider` absent) and the mode
  without a guard are left out; the application always installs both.
- Jitter lengthens a wait and is left to the caller's timer.
- An emergency release comes at least one tick after the attempts whose windows
  it clears: it is a click in the settings page.
- `SwitchOwner` makes one dispatch scan where the code makes one per cancelled
  task; the scans are of the same queue under the same login.
- Statistics, events, history and progress of the queue are not modelled.
- A manual retry takes a new task id; the model takes it from the tasks not yet
  added.
- The scheduler's file is rewritten whole, by rename; torn lines of an append
  and unreadable files are left out.
- In `AccountStatus` all calls are about one account: accounts meet only in the
  map of the lock, which `AccountLock` has for any number of them.
- `MCGovernor` has one key: keys share only the window, whose counters the proofs
  cover for any number of them. Token windows (nothing sets one), `setEnabled`,
  the pass-through of a nested call of the same key and the worker pool of
  `model-call-scheduler.js` are left out.
- In `PipelineEngine` snapshots are always written, the history keeps every run,
  and a stage's outputs are the fact that it ran. Six methods that step a run by
  hand are left out: `pause()`, `resume()` and `advance()` of the current run,
  `pauseWithCheckpoint()`, `resumeFromCheckpoint()`, and `executeStage()`, which
  runs one stage without the loop; so is the `state_machine` mode.
- `PublishProcess` models what a start does in the application. What
  `deserialize()` would restore if it were handed the text is not modelled.

## Not modelled

Most of the repository has no control state of the kind these models are about,
or has it behind I/O that only an environment step can stand for: the renderer
(Vue pages), some fifty publishers and collectors of platform pages, media and
text processing (`story2video-stages.js`, compose engine, remotion, rewrite
engine), the HTTP adapters, the operations centre and the test tooling. The
lines mapped are therefore a small share of the repository's, and a large share
of the services that order, retry, time out and persist.

Code that would be worth a model and has none: the offline manager's replay
(nothing starts it: `startMonitoring` is called by tests only), the emergency
release's quota (one synchronous counter), the podcast channel locks (a second
implementation of `AccountMutex`), the collection engine's breaker and cool-down
pool, and token refresh.

## Plan

Done: the guard, the queue, the process, the scheduler, the batches, the account
lock and the writers it orders, the pipeline engine and its batch queue, the
model call governor; the proofs of their safety properties, the refinements of
the guard by the queue and of the mutex by the lock included.

Next, in this order:

1. *Proofs*: the process as an implementation of the guard, with a crash as a
   step of its own, so that what holds after a crash before a flush is a
   theorem too.
2. *Podcast channel locks* against `AccountMutex`.
