--------------------------- MODULE AccountStatus ---------------------------
(***************************************************************************)
(* The writers of one account's credential and login status, around the    *)
(* account's lock: the single check, the batch check (ipc-handlers/        *)
(* account.js), the periodic monitor (login-status-monitor.js), the cloud  *)
(* restore (cloud-account-restore.js) and the login, which takes no lock   *)
(* (account-manager.js).  The status lives in the Python backend, the      *)
(* credential in a local file; each write of either may fail.              *)
(***************************************************************************)
EXTENDS AccountLock

CONSTANTS
    Kind,       \* [Call -> "single" | "batch" | "monitor" | "restore"]
    MaxLogins   \* bound: logins

ASSUME StatusAssumption ==
    /\ Kind \in [Call -> {"single", "batch", "monitor", "restore"}] /\ MaxLogins \in Nat
    /\ \A c, d \in Call : AccountOf[c] = AccountOf[d]

VARIABLES
    cred,     \* the credential on disk, numbered as they are saved
    status,   \* accounts.json: active, expired or unverified
    step,     \* [Call -> where its section is]
    seen,     \* [Call -> the credential its check sends]
    snap,     \* [Call -> the status listed before the call was made]
    next,     \* [Call -> the status it has decided to write]
    login,    \* the credential of a login not yet marked, 0 when there is none
    logins,   \* logins so far
    about,    \* history: the credential the status tells of
    crossed,  \* history: has a login saved or marked across a section?
    unmarked  \* history: has a restore or a login failed to write its status?

vars == <<lockVars, cred, status, step, seen, snap, next, login, logins, about, crossed, unmarked>>
mine == <<cred, status, step, seen, snap, next, login, logins, about, crossed, unmarked>>

Statuses == {"active", "expired", "unverified"}
Inside == {c \in Call : ticket[c] = "inside"}

Init ==
    /\ LockInit
    /\ cred = 1 /\ status \in Statuses /\ about = 1
    /\ step = [c \in Call |-> "none"] /\ seen = [c \in Call |-> 0]
    /\ snap = [c \in Call |-> "none"] /\ next = [c \in Call |-> "none"]
    /\ login = 0 /\ logins = 0 /\ crossed = FALSE /\ unmarked = FALSE

(* listAccounts, before the loop that asks for the locks; the monitor      *)
(* leaves expired accounts alone.                                          *)
List(c) ==
    /\ ticket[c] = "new" /\ snap[c] = "none"
    /\ Kind[c] = "batch" \/ (Kind[c] = "monitor" /\ status # "expired")
    /\ snap' = [snap EXCEPT ![c] = status]
    /\ UNCHANGED <<lockVars, cred, status, step, seen, next, login, logins, about, crossed, unmarked>>

Asks(c) ==
    /\ Kind[c] \in {"batch", "monitor"} => snap[c] # "none"
    /\ Request(c) /\ UNCHANGED mine

(* A check starts: checkLoginStatus loads the credential at once.          *)
CheckStarts(c) ==
    /\ Kind[c] # "restore" /\ Enter(c)
    /\ seen' = [seen EXCEPT ![c] = cred] /\ step' = [step EXCEPT ![c] = "checking"]
    /\ crossed' = (crossed \/ login # 0)
    /\ UNCHANGED <<cred, status, snap, next, login, logins, about, unmarked>>

Section(c, to, n) ==
    /\ step' = [step EXCEPT ![c] = to] /\ next' = [next EXCEPT ![c] = n]
    /\ UNCHANGED <<lockVars, cred, status, seen, snap, login, logins, about, crossed, unmarked>>

(* A check's section ends; what it held is forgotten. *)
CheckEnds(c, ok) ==
    /\ Leave(c, ok)
    /\ step' = [step EXCEPT ![c] = "over"] /\ next' = [next EXCEPT ![c] = "none"]
    /\ seen' = [seen EXCEPT ![c] = 0] /\ snap' = [snap EXCEPT ![c] = "none"]
    /\ UNCHANGED <<cred, login, logins, crossed, unmarked>>
NothingToWrite(c, ok) == CheckEnds(c, ok) /\ UNCHANGED <<status, about>>

(* The platform's answer is a verdict; the monitor writes it only when it  *)
(* differs from the status it listed.                                      *)
Verdict(c, v) ==
    /\ step[c] = "checking" /\ v \in {"active", "expired"}
    /\ IF Kind[c] = "monitor" /\ snap[c] = v THEN NothingToWrite(c, TRUE)
       ELSE Section(c, "writing", v)

(* The batch takes an error as no verdict, the others give up. *)
CheckThrows(c) ==
    /\ step[c] = "checking" /\ Kind[c] # "batch"
    /\ NothingToWrite(c, FALSE)

(* No verdict, or the batch's hard timeout: what to do depends on the      *)
(* status as it is now, which is read again.                               *)
Inconclusive(c) ==
    /\ step[c] = "checking" /\ Section(c, "rereading", "none")

MutSnapshotFirst(c, ok) == IF snap[c] # "none" THEN snap[c] ELSE status

(* The status the decision rests on; without an answer, the listed one.    *)
Basis(c, ok) == IF ok THEN status ELSE snap[c]

(* loginStatusTransition of an inconclusive check: only an active status   *)
(* past its grace period, and what was never decided, become unverified.   *)
Decide(c, ok, aged) ==
    /\ step[c] = "rereading"
    /\ IF Basis(c, ok) = "active" /\ aged
       THEN Section(c, IF ok THEN "writing" ELSE "guessing", "unverified")
       ELSE NothingToWrite(c, TRUE)

(* persistLoginState: the backend may refuse, the section ends either way. *)
Writes(c, ok) ==
    /\ step[c] \in {"writing", "guessing"} /\ CheckEnds(c, TRUE)
    /\ status' = IF ok THEN next[c] ELSE status
    /\ about' = IF ok THEN seen[c] ELSE about

(* A restore: the credential is overwritten, then the status taken back.   *)
RestoreStarts(c, saved) ==
    /\ Kind[c] = "restore" /\ Enter(c)
    /\ cred' = IF saved THEN cred + 1 ELSE cred
    /\ seen' = [seen EXCEPT ![c] = IF saved THEN cred + 1 ELSE 0]
    /\ step' = [step EXCEPT ![c] = "marking"]
    /\ crossed' = (crossed \/ login # 0)
    /\ UNCHANGED <<status, snap, next, login, logins, about, unmarked>>

RestoreMarks(c, ok) ==
    /\ step[c] = "marking" /\ Leave(c, TRUE)
    /\ step' = [step EXCEPT ![c] = IF ok THEN "over" ELSE "failed"]
    /\ status' = IF ok THEN "unverified" ELSE status
    /\ about' = IF ok THEN cred ELSE about
    /\ unmarked' = (unmarked \/ ~ok)
    /\ UNCHANGED <<cred, seen, snap, next, login, logins, crossed>>

(* updateCapturedAccount: a fresh login saves its credential and then      *)
(* marks the account active, both outside the lock.                        *)
LoginSaves ==
    /\ login = 0 /\ logins < MaxLogins
    /\ cred' = cred + 1 /\ login' = cred + 1 /\ logins' = logins + 1
    /\ crossed' = (crossed \/ Inside # {})
    /\ UNCHANGED <<lockVars, status, step, seen, snap, next, about, unmarked>>
LoginMarks(ok) ==
    /\ login # 0 /\ login' = 0
    /\ status' = IF ok THEN "active" ELSE status
    /\ about' = IF ok THEN login ELSE about
    /\ unmarked' = (unmarked \/ ~ok)
    /\ UNCHANGED <<lockVars, cred, step, seen, snap, next, logins, crossed>>

Turn(c) ==
    \/ CheckStarts(c) \/ \E saved \in BOOLEAN : RestoreStarts(c, saved)
    \/ Skip(c) /\ UNCHANGED mine
TimesOut(c) == Expire(c) /\ UNCHANGED mine
SectionStep(c) ==
    \/ \E v \in Statuses : Verdict(c, v)
    \/ CheckThrows(c) \/ Inconclusive(c)
    \/ \E ok \in BOOLEAN : Writes(c, ok) \/ RestoreMarks(c, ok) \/ \E aged \in BOOLEAN : Decide(c, ok, aged)
Next ==
    \/ LoginSaves \/ \E ok \in BOOLEAN : LoginMarks(ok)
    \/ \E c \in Call : List(c) \/ Asks(c) \/ Turn(c) \/ TimesOut(c) \/ SectionStep(c)

(* The event loop runs the chain and the timers.  Sections may hang: a     *)
(* browser check may never answer.                                         *)
Fairness == \A c \in Call : WF_vars(Turn(c)) /\ WF_vars(TimesOut(c))
StatusSpec == Init /\ [][Next]_vars /\ Fairness

-----------------------------------------------------------------------------
StatusTypeOK ==
    /\ LockTypeOK /\ status \in Statuses
    /\ cred \in Nat \ {0} /\ about \in 1 .. cred /\ login \in 0 .. cred
    /\ \A c \in Call : /\ seen[c] \in 0 .. cred
                       /\ ticket[c] = "inside" <=> step[c] \notin {"none", "over", "failed"}

(* An account is shown as logged in only on the word of a check, or of the *)
(* login, about the credential that is on disk now; a check that answers   *)
(* late cannot vouch for one that a restore brought meanwhile.  The two    *)
(* exceptions: a login, which takes no lock, ran across a section; a       *)
(* restore or a login reported that it could not write the status.  (And   *)
(* the state is well typed; a section has a step exactly while inside.)    *)
ActiveIsProven ==
    /\ StatusTypeOK
    /\ status = "active" /\ Inside = {} /\ login = 0 /\ ~crossed /\ ~unmarked => about = cred

(* The same without the exception for logins: no credential is overwritten *)
(* between a check's reading and its verdict.  The code does not keep it,  *)
(* since updateCapturedAccount takes no lock.                              *)
NoOverwriteInside ==
    \A c \in Inside : Kind[c] # "restore" => seen[c] = cred

(* A restore that reports success has put the cloud's credential on disk   *)
(* ("a credential not on disk must not make the account usable").  The     *)
(* code does not keep it: saveCredential answers false and nobody looks.   *)
RestoredIsSaved ==
    \A c \in Call : Kind[c] = "restore" /\ step[c] = "over" => seen[c] # 0

(* Only evidence replaces a verdict: an account found expired is called    *)
(* unverified by a restore alone, or by a check that could not read the    *)
(* status again, never by an inconclusive check.                           *)
ExpiredSticky ==
    [][status = "expired" /\ status' = "unverified" =>
          \E c \in Inside : step[c] \in {"marking", "guessing"}]_vars
=============================================================================
