--------------------------- MODULE PublishProcess ---------------------------
(* The task queue inside a process that stops and starts again.  The store   *)
(* (queue snapshot, publish windows, daily counts) is a database in memory,  *)
(* written to disk by a timer every five seconds and when it is closed       *)
(* (store/base-store.js, sqlite-wrapper.js).  shutdown.js closes it after    *)
(* TaskQueue.shutdown(); a crash does not.  bootstrap/phase3-services.js     *)
(* hands the stored snapshot of the user logged in to deserialize().         *)
EXTENDS TaskQueue

CONSTANTS
    MaxBoots  \* bound on the number of restarts

ASSUME ProcessConstants == MaxBoots \in Nat

VARIABLES
    disk,   \* the database image on disk
    mode,   \* "up" or "down"
    boots,
    stale   \* history: a crash came before the last writes were on disk

processVars == <<vars, disk, mode, boots, stale>>

(* The windows, or the counts, kept in the guard's own memory instead of the *)
(* store.                                                                    *)
MutVolatileWindows == [snapshot |-> snapshot, timeline |-> [k \in Key |-> Never],
                       count |-> count, rollbacks |-> rollbacks]
MutVolatileCounts == [snapshot |-> snapshot, timeline |-> timeline,
                      count |-> [k \in AccountKey |-> [d \in Days |-> 0]],
                      rollbacks |-> rollbacks]

Image == [snapshot |-> snapshot, timeline |-> timeline,
          count |-> count, rollbacks |-> rollbacks]

----------------------------------------------------------------------------
Persist ==
    /\ mode = "up" /\ Idle
    /\ disk # Image
    /\ disk' = Image
    /\ UNCHANGED <<vars, mode, boots, stale>>

(* The crash comes right after a flush, or finds what is on disk.            *)
Crash ==
    /\ mode = "up" /\ Idle /\ boots < MaxBoots
    /\ mode' = "down"
    /\ \/ disk' = Image /\ UNCHANGED stale
       \/ stale' = (stale \/ disk # Image) /\ UNCHANGED disk
    /\ UNCHANGED <<vars, boots>>

(* store.close() at the end of performShutdown() *)
Exit ==
    /\ mode = "up" /\ Idle /\ shut /\ boots < MaxBoots
    /\ disk' = Image
    /\ mode' = "down"
    /\ UNCHANGED <<vars, boots, stale>>

(* What deserialize() queues at a start.  getUserSetting() answers with the  *)
(* stored text already parsed (settings-store.js 22), and deserialize()      *)
(* parses what it is given once more: JSON.parse() throws on an object, the  *)
(* catch answers 0 and the loops that restore tasks are not reached.  So     *)
(* the stored snapshot is not erased either; the next save replaces it.      *)
Recovered == <<>>

(* Process start.  Timers, running tasks, executors and the platforms' trust *)
(* are gone; windows and counts come back from the disk image.  A task that  *)
(* was not queued again is unknown to the new process.                       *)
Boot ==
    /\ mode = "down"
    /\ mode' = "up"
    /\ boots' = boots + 1
    /\ owner' \in Logins
    /\ queue' = Recovered
    /\ running' = {} /\ delayed' = {} /\ grace' = {} /\ quotaBlocked' = {} /\ execs' = {}
    /\ task' = [t \in Task |->
                  IF task[t].status = "new" \/ t \in ToSet(queue') THEN task[t]
                  ELSE [task[t] EXCEPT !.status = "removed"]]
    /\ paused' = FALSE /\ shut' = FALSE /\ proven' = {} /\ rollbackOff' = {}
    /\ snapshot' = disk.snapshot /\ timeline' = disk.timeline
    /\ count' = disk.count /\ rollbacks' = disk.rollbacks
    /\ scan' = Kick(queue', {}, FALSE)
    /\ UNCHANGED <<now, today, holds, due, sent, expired, disk, stale>>

ProcessInit ==
    /\ Init
    /\ disk = Image
    /\ mode = "up"
    /\ boots = 0
    /\ stale = FALSE

InProcess == mode = "up" /\ Next /\ UNCHANGED <<disk, mode, boots, stale>>

Restarts == Persist \/ Crash \/ Exit \/ Boot

ProcessSpec == ProcessInit /\ [][InProcess \/ Restarts]_processVars

----------------------------------------------------------------------------
(* Properties                                                                *)

(* Attempts on an account stay an interval apart across a restart whose      *)
(* windows were on disk: the new process waits for what the old one booked.  *)
SpacingKept == ~stale => AccountSpacing

(* And the daily quota and the bound on all the attempts of a day hold over  *)
(* restarts: counts and rollbacks come back with the windows they belong to. *)
QuotaKept == ~stale => QuotaBound /\ AttemptsBounded

(* The queue is saved "for crash recovery" (task-queue.js 294), and          *)
(* deserialize() is to restore the tasks that waited or were interrupted     *)
(* (01-docs/PRD.md 2044): a task that was still owed an outcome, and that    *)
(* the image on disk lists for the user who logs in, is queued by the start. *)
OnDisk(t) ==
    LET s == disk.snapshot[OwnerOf[t]] IN t \in ToSet(s.pending) \union s.running \union s.delayed

RestartKeeps ==
    [][Boot => \A t \in Task :
          Live(t) /\ OnDisk(t) /\ OwnerOf[t] = owner' => t \in ToSet(queue')]_processVars
=============================================================================
