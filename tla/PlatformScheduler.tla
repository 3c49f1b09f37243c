------------------------- MODULE PlatformScheduler -------------------------
(***************************************************************************)
(* The scheduler of platform-side publishing                               *)
(* (packages/shared-utils/src/scheduler.js): records in one file, a        *)
(* dispatch operation per record that claims it there, hands it to the     *)
(* task queue and writes the outcome back, and what phase3-services.js and *)
(* resume-guard.js do with it at start, at a login and at a wake-up.       *)
(***************************************************************************)
EXTENDS Naturals, FiniteSets

CONSTANTS
    Record,
    Legacy,       \* SUBSET Record: left 'pending' by an earlier version
    Owner, OwnerOf, Nobody,
    MaxFails,     \* bound: writes of the file that fail
    MaxLogins,    \* bound: changes of the login
    MaxRestarts   \* bound: crashes and starts

ASSUME SchedulerAssumption ==
    /\ Legacy \subseteq Record /\ OwnerOf \in [Record -> Owner] /\ Nobody \notin Owner
    /\ {MaxFails, MaxLogins, MaxRestarts} \subseteq Nat

VARIABLES
    identity,  \* an owner provider is configured (for ever)
    login,     \* what it answers
    disk,      \* [Record -> its status in the file, "none" before, "gone" after a prune]
    due,       \* records whose publishTime has passed
    timers,    \* records with an armed timer of scheduleTimer
    op,        \* [Record -> where its dispatch operation is]
    expected,  \* [Record -> the status its timer's or operation's claim starts from]
    stopped,   \* stopAll ran
    sent,      \* [Record -> times the queue took it]: history
    told,      \* records whose failure the user was told of: history
    lost,      \* records deferred, or interrupted by a stop or a crash: history
    fails, logins, restarts

schedVars == <<identity, login, disk, due, timers, op, expected, stopped,
               sent, told, lost, fails, logins, restarts>>
bounds == <<fails, logins, restarts>>

Status == {"none", "pending", "submitted", "dispatching", "executed", "failed", "cancelled", "gone"}
Terminal == {"executed", "failed", "cancelled"}
Waiting == {"wait1", "wait2"}   \* in waitForDispatchRetry, after that many attempts
Op == {"idle", "claimed", "refused", "added"} \cup Waiting
Active(r) == op[r] # "idle"

Init ==
    /\ identity \in BOOLEAN /\ login \in Owner
    /\ disk = [r \in Record |-> IF r \in Legacy THEN "pending" ELSE "none"]
    /\ due = {} /\ op = [r \in Record |-> "idle"] /\ expected = [r \in Record |-> "pending"]
    /\ timers = {r \in Legacy : identity => OwnerOf[r] = login}
    /\ stopped = FALSE /\ sent = [r \in Record |-> 0] /\ told = {} /\ lost = {}
    /\ fails = 0 /\ logins = 0 /\ restarts = 0

(* Without a provider every record is the caller's.                        *)
Mine(r) == identity => login = OwnerOf[r]

(* What becomes of a status when f of the writes meant for it fail: a      *)
(* rewrite is a new file renamed over the old one, all or nothing.         *)
MayFail(f) == fails + f <= MaxFails /\ fails' = fails + f
Written(d, r, from, to) == IF d[r] = from THEN [d EXCEPT ![r] = to] ELSE d
(* try { updateStatus } catch { ignore }                                   *)
TryStatus(d, r, from, to) ==
    \/ disk' = Written(d, r, from, to) /\ MayFail(0)
    \/ d[r] = from /\ disk' = d /\ MayFail(1)

-----------------------------------------------------------------------------
(* The claim: attempt n finds the expected status and writes 'dispatching',*)
(* finds another one, or fails to write and waits or gives up.             *)
Claim(r, n, d, from) ==
    \/ stopped /\ op' = [op EXCEPT ![r] = "refused"] /\ disk' = d /\ UNCHANGED <<told, fails>>
    \/ /\ ~stopped /\ d[r] = from
       /\ disk' = [d EXCEPT ![r] = "dispatching"] /\ op' = [op EXCEPT ![r] = "claimed"]
       /\ UNCHANGED <<told, fails>>
    \/ /\ ~stopped /\ d[r] # from
       /\ disk' = d /\ op' = [op EXCEPT ![r] = "refused"] /\ UNCHANGED <<told, fails>>
    \/ /\ ~stopped /\ d[r] = from /\ MayFail(1) /\ disk' = d
       /\ IF n = 3 THEN op' = [op EXCEPT ![r] = "refused"] /\ told' = told \cup {r}
          ELSE op' = [op EXCEPT ![r] = IF n = 1 THEN "wait1" ELSE "wait2"] /\ UNCHANGED told

(* The file once r is in it: create prunes old terminal records.           *)
Marked(r) ==
    {[x \in Record |-> IF x = r THEN "submitted" ELSE IF x \in old THEN "gone" ELSE disk[x]] :
        old \in {{}, {x \in Legacy : disk[x] \in Terminal}}}

(* create: appended, marked 'submitted', and its dispatch starts before it *)
(* returns.  A mark that fails, or a stopped scheduler, is an error to the *)
(* caller.                                                                 *)
Create(r) ==
    /\ disk[r] = "none" /\ (identity => login = OwnerOf[r])
    /\ \/ /\ ~stopped /\ \E d \in Marked(r) : Claim(r, 1, d, "submitted")
          /\ expected' = [expected EXCEPT ![r] = "submitted"]
       \/ /\ stopped /\ TryStatus([disk EXCEPT ![r] = "submitted"], r, "submitted", "failed")
          /\ told' = told \cup {r} /\ UNCHANGED <<op, expected>>
       \/ /\ \/ disk' = [disk EXCEPT ![r] = "failed"] /\ MayFail(1)
             \/ disk' = [disk EXCEPT ![r] = "pending"] /\ MayFail(2)
          /\ told' = told \cup {r} /\ UNCHANGED <<op, expected>>
    /\ UNCHANGED <<identity, login, due, timers, stopped, sent, lost, logins, restarts>>

(* A timer at its time: startDispatch, and the operation to its first wait.*)
Fire(r) ==
    /\ r \in timers /\ r \in due /\ timers' = timers \ {r}
    /\ IF Mine(r) /\ ~stopped
       THEN Claim(r, 1, disk, expected[r]) ELSE UNCHANGED <<disk, op, told, fails>>
    /\ UNCHANGED <<identity, login, due, expected, stopped, sent, lost, logins, restarts>>

Retry(r) ==
    /\ op[r] \in Waiting
    /\ Claim(r, IF op[r] = "wait1" THEN 2 ELSE 3, disk, expected[r])
    /\ UNCHANGED <<identity, login, due, timers, expected, stopped, sent, lost, logins, restarts>>

Over(r) == [op EXCEPT ![r] = "idle"]

MutSilentRefusal(r) ==
    /\ op[r] = "refused" /\ op' = Over(r) /\ UNCHANGED <<disk, told, fails>>
    /\ UNCHANGED <<identity, login, due, timers, expected, stopped, sent, lost, logins, restarts>>
(* dispatch after a claim that came back false. *)
Refuse(r) ==
    /\ op[r] = "refused" /\ op' = Over(r)
    /\ IF stopped THEN UNCHANGED <<disk, told, fails>>
       ELSE TryStatus(disk, r, expected[r], "failed") /\ told' = told \cup {r}
    /\ UNCHANGED <<identity, login, due, timers, expected, stopped, sent, lost, logins, restarts>>

(* dispatch after a claim: given up at a stop, handed back if the login    *)
(* changed meanwhile, else put on the queue, which may throw.              *)
Submit(r) ==
    /\ op[r] = "claimed"
    /\ \/ stopped /\ op' = Over(r) /\ UNCHANGED <<disk, told, lost, sent, fails>>
       \/ /\ ~stopped /\ ~Mine(r) /\ op' = Over(r) /\ lost' = lost \cup {r}
          /\ TryStatus(disk, r, "dispatching", "submitted") /\ UNCHANGED <<told, sent>>
       \/ /\ ~stopped /\ Mine(r) /\ op' = [op EXCEPT ![r] = "added"]
          /\ sent' = [sent EXCEPT ![r] = @ + 1] /\ UNCHANGED <<disk, told, lost, fails>>
       \/ /\ ~stopped /\ Mine(r) /\ op' = Over(r) /\ told' = told \cup {r}
          /\ TryStatus(disk, r, "dispatching", "failed") /\ UNCHANGED <<sent, lost>>
    /\ UNCHANGED <<identity, login, due, timers, expected, stopped, logins, restarts>>

(* dispatch after the queue took the task: a write of 'executed' that      *)
(* fails goes the way of a task that was not taken.                        *)
Finish(r) ==
    /\ op[r] = "added" /\ op' = Over(r)
    /\ \/ stopped /\ UNCHANGED <<disk, told, fails>>
       \/ /\ ~stopped /\ disk' = Written(disk, r, "dispatching", "executed") /\ UNCHANGED <<told, fails>>
       \/ /\ ~stopped /\ disk[r] = "dispatching" /\ told' = told \cup {r}
          /\ \/ disk' = [disk EXCEPT ![r] = "failed"] /\ MayFail(1)
             \/ disk' = disk /\ MayFail(2)
    /\ UNCHANGED <<identity, login, due, timers, expected, stopped, sent, lost, logins, restarts>>

MutCancelsInFlight(r) ==
    /\ Mine(r) /\ disk[r] \in {"pending", "submitted", "dispatching"}
    /\ disk' = [disk EXCEPT ![r] = "cancelled"] /\ timers' = timers \ {r}
    /\ UNCHANGED <<identity, login, due, op, expected, stopped, sent, told, lost, bounds>>
Cancel(r) ==
    /\ Mine(r) /\ ~Active(r) /\ disk[r] \in {"pending", "submitted", "dispatching"}
    /\ disk' = [disk EXCEPT ![r] = "cancelled"] /\ timers' = timers \ {r}
    /\ UNCHANGED <<identity, login, due, op, expected, stopped, sent, told, lost, bounds>>

-----------------------------------------------------------------------------
MutReplays == {"pending", "dispatching"}
Restored == {"pending"}
(* restore: the untracked pending records of the owner get a timer.        *)
ToArm(who, tracked) ==
    {r \in Record : disk[r] \in Restored /\ (identity => OwnerOf[r] = who) /\ r \notin tracked}

(* Timers set for some of them, the others as before.                      *)
Arm(records, others) ==
    /\ timers' = others \cup records
    /\ expected' = [r \in Record |-> IF r \in records THEN disk[r] ELSE expected[r]]

(* onStateChanged: restoreForOwner with the new login. *)
Login(who) ==
    /\ identity /\ who # login /\ logins < MaxLogins /\ logins' = logins + 1 /\ login' = who
    /\ Arm(IF who = Nobody \/ stopped THEN {}
           ELSE ToArm(who, timers \cup {r \in Record : Active(r)}), timers)
    /\ UNCHANGED <<identity, disk, due, op, stopped, sent, told, lost, fails, restarts>>

Woken == [r \in Record |-> IF op[r] \in Waiting THEN "refused" ELSE op[r]]

MutOnlyClears ==
    /\ ~identity /\ ~stopped /\ op' = Woken /\ timers' = {}
    /\ UNCHANGED <<identity, login, disk, due, expected, stopped, sent, told, lost, bounds>>
(* rearm at a wake-up: every retry ends, every timer is set again.  The    *)
(* guard passes the identity's state object, so with a provider it throws  *)
(* before it does anything.                                                *)
Rearm ==
    /\ ~identity /\ ~stopped /\ op' = Woken
    /\ Arm(ToArm(login, {r \in Record : Active(r)}), {})
    /\ UNCHANGED <<identity, login, disk, due, stopped, sent, told, lost, bounds>>

StopAll ==
    /\ ~stopped /\ stopped' = TRUE /\ op' = Woken /\ timers' = {}
    /\ lost' = lost \cup {r \in Record : Active(r)}
    /\ UNCHANGED <<identity, login, disk, due, expected, sent, told, bounds>>

(* The process ends, at any step, and starts with somebody logged in.      *)
Restart(who) ==
    /\ restarts < MaxRestarts /\ restarts' = restarts + 1
    /\ login' = who /\ (~identity => who = login)
    /\ stopped' = FALSE /\ op' = [r \in Record |-> "idle"]
    /\ lost' = lost \cup {r \in Record : Active(r)}
    /\ Arm(IF identity /\ who = Nobody THEN {} ELSE ToArm(who, {}), {})
    /\ UNCHANGED <<identity, disk, due, sent, told, fails, logins>>

TimePasses(r) ==
    /\ r \in timers \ due /\ due' = due \cup {r}
    /\ UNCHANGED <<identity, login, disk, timers, op, expected, stopped, sent, told, lost, bounds>>

Next ==
    \/ \E r \in Record : \/ Create(r) \/ Fire(r) \/ Retry(r) \/ Refuse(r) \/ Submit(r)
                         \/ Finish(r) \/ Cancel(r) \/ TimePasses(r)
    \/ \E who \in Owner \cup {Nobody} : Login(who) \/ Restart(who)
    \/ Rearm \/ StopAll

(* Timers fire, promises settle and time passes.                           *)
SchedFairness ==
    \A r \in Record : WF_schedVars(Fire(r) \/ Retry(r) \/ Refuse(r) \/ Submit(r) \/ Finish(r) \/ TimePasses(r))
SchedSpec == Init /\ [][Next]_schedVars /\ SchedFairness

-----------------------------------------------------------------------------
(* Types; and a record has a timer or an operation, never both.            *)
SchedTypeOK ==
    /\ identity \in BOOLEAN /\ login \in Owner \cup {Nobody} /\ stopped \in BOOLEAN
    /\ disk \in [Record -> Status] /\ op \in [Record -> Op] /\ sent \in [Record -> Nat]
    /\ expected \in [Record -> Status]
    /\ due \subseteq Record /\ told \subseteq Record /\ lost \subseteq Record
    /\ timers \subseteq {r \in Record : ~Active(r)}
    /\ fails \in 0 .. MaxFails /\ logins \in 0 .. MaxLogins /\ restarts \in 0 .. MaxRestarts

(* The queue takes a record once at most, over retries, wake-ups, logins   *)
(* and crashes between any two steps: the platform never gets a second     *)
(* schedule of it.                                                         *)
SentOnce == \A r \in Record : sent[r] <= 1

(* While its owner is logged in a record still 'pending' is not forgotten: *)
(* it has a timer or an operation, or the user was told that it failed.    *)
(* (And the state is well typed: no record has both.)                      *)
PendingTracked ==
    SchedTypeOK /\ (~stopped => \A r \in Record : disk[r] = "pending" /\ Mine(r) => r \in timers \/ Active(r) \/ r \in told)

(* After a cancel that answered true the record stays cancelled until it   *)
(* is pruned, and the queue does not take it: no timer, retry of a claim,  *)
(* write of an outcome, login, wake-up or start brings it back.            *)
CancelledNotSent ==
    [][\A r \in Record : disk[r] = "cancelled" =>
          sent'[r] = sent[r] /\ disk'[r] \in {"cancelled", "gone"}]_schedVars

(* With its owner logged in a record is sent, cancelled or reported to the *)
(* user, unless its operation was handed back or cut off.                  *)
Settled(r) == sent[r] > 0 \/ r \in told \/ r \in lost \/ disk[r] \in {"cancelled", "gone"}
RecordsSettle ==
    \A r \in Record : <>[](Mine(r) /\ ~stopped) => (disk[r] # "none" ~> Settled(r))

(* "Wait for the owner to log in again, then submit": a deferred record    *)
(* whose owner is back is sent, cancelled or reported.                     *)
DeferredResubmitted ==
    \A r \in Record : <>[](Mine(r) /\ ~stopped) =>
        (r \in lost ~> sent[r] > 0 \/ r \in told \/ disk[r] \in {"cancelled", "gone"})
=============================================================================
