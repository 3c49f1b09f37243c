------------------------ MODULE PublishIntervalGuard ------------------------
(* The publish frequency guard (packages/shared-utils/src/                   *)
(* publish-interval-guard.js): two interval windows per attempt, one for the *)
(* (platform, account) pair and one shared by all accounts of the platform,  *)
(* and a count of attempts per account and operating day.  The windows and   *)
(* the counts live in the store, the holds with the callers.                 *)
(*                                                                           *)
(* Time is a counter of ticks; jitter only lengthens the wait a caller is    *)
(* told and is left to the caller's timer.                                   *)
EXTENDS Integers, FiniteSets

CONSTANTS
    Platform,      \* platforms
    Account,       \* account ids
    NoAccount,     \* "this task carries no account id"
    Shared,        \* the platform-wide bucket, '*' in the code
    Attempt,       \* identifiers of publish attempts, never reused
    AccountMin,    \* [Platform -> Nat], minimal spacing on one account
    PlatformMin,   \* [Platform -> Nat], minimal spacing on one platform
    DailyMax,      \* [Platform -> Nat], attempts per account and day, 0 = off
    NumericStore,  \* TRUE: get() returns the number set() was given (InMemoryStore)
                   \* FALSE: it returns text (SQLite column of TEXT affinity)
    MaxTime,       \* bound on the clock
    MaxDay         \* bound on the calendar

ASSUME GuardConstants ==
    /\ AccountMin \in [Platform -> Nat]
    /\ PlatformMin \in [Platform -> Nat]
    /\ DailyMax \in [Platform -> Nat]
    /\ NumericStore \in BOOLEAN
    /\ MaxTime \in Nat \ {0}
    /\ MaxDay \in Nat \ {0}
    /\ NoAccount \notin Account
    /\ Shared \notin Account \union {NoAccount}

VARIABLES
    now,        \* the clock
    today,      \* the operating day
    timeline,   \* [Key -> time], last attempt booked on a window, Never if none
    count,      \* [AccountKey -> [Days -> Nat]], attempts booked on the day
    rollbacks,  \* [AccountKey -> [Days -> Nat]], rollbacks made on the day
    holds       \* [Attempt -> what recordPublish returned, and what became of it]

guardVars == <<now, today, timeline, count, rollbacks, holds>>

Never      == 0
Days       == 1..MaxDay
AccountKey == Platform \X Account
Key        == Platform \X (Account \union {Shared})
NoHold     == [state |-> "none"]

(* state: "open" while the outcome is unknown, "kept" once the window is     *)
(* known to stay booked, "released" once rolled back.  onAccount, onPlatform *)
(* say whether the attempt still counts for that window: an emergency        *)
(* release waives both.                                                      *)
Hold == [platform : Platform, account : Account \union {NoAccount},
         at : 1..MaxTime, day : Days,
         accountPrev : 0..MaxTime, platformPrev : 0..MaxTime,
         state : {"open", "kept", "released"},
         onAccount : BOOLEAN, onPlatform : BOOLEAN]

----------------------------------------------------------------------------
(* check()                                                                   *)

Monus(x, y) == IF x > y THEN x - y ELSE 0

Remaining(k, min) ==
    IF timeline[k] = Never THEN 0 ELSE Monus(min, now - timeline[k])

QuotaSpent(p, a) ==
    /\ a # NoAccount
    /\ DailyMax[p] > 0
    /\ count[<<p, a>>][today] >= DailyMax[p]

AccountWait(p, a)  == IF a = NoAccount THEN 0 ELSE Remaining(<<p, a>>, AccountMin[p])
PlatformWait(p)    == Remaining(<<p, Shared>>, PlatformMin[p])
RemainingWait(p, a) ==
    IF PlatformWait(p) > AccountWait(p, a) THEN PlatformWait(p) ELSE AccountWait(p, a)

Allowed(p, a) == ~QuotaSpent(p, a) /\ RemainingWait(p, a) = 0

----------------------------------------------------------------------------
(* recordPublish(): books both windows and the day before the attempt runs.  *)

HoldFor(p, a) ==
    [platform |-> p, account |-> a, at |-> now, day |-> today,
     accountPrev |-> IF a = NoAccount THEN Never ELSE timeline[<<p, a>>],
     platformPrev |-> timeline[<<p, Shared>>],
     state |-> "open", onAccount |-> a # NoAccount, onPlatform |-> TRUE]

Booked(p, a) == {<<p, Shared>>, <<p, a>>} \intersect Key

RecordPublish(i, p, a) ==
    /\ timeline' = [k \in Key |-> IF k \in Booked(p, a) THEN now ELSE timeline[k]]
    /\ count' = [k \in AccountKey |->
                    IF k = <<p, a>> THEN [count[k] EXCEPT ![today] = @ + 1] ELSE count[k]]
    /\ holds' = [holds EXCEPT ![i] = HoldFor(p, a)]
    /\ UNCHANGED <<now, today, rollbacks>>

----------------------------------------------------------------------------
(* release(): gives a window back, only while it is still the attempt's own. *)

RollbackCap(p) == IF DailyMax[p] > 2 THEN DailyMax[p] ELSE 2

MutNoCap(p, a) == FALSE

Capped(p, a) == a # NoAccount /\ rollbacks[<<p, a>>][today] >= RollbackCap(p)

MutAnyOwner(k, at) == timeline[k] # Never

(* store.get(key) === hold.at: a text value is never === a number.           *)
StillMine(k, at) == NumericStore /\ timeline[k] = at

AccountMine(h)  == h.account # NoAccount /\ StillMine(<<h.platform, h.account>>, h.at)
PlatformMine(h) == StillMine(<<h.platform, Shared>>, h.at)

Releasable(h) ==
    /\ ~Capped(h.platform, h.account)
    /\ AccountMine(h) \/ PlatformMine(h)

Refund(n) == Monus(n, 1)

ReleaseWindow(i) ==
    LET h == holds[i] IN
    /\ Releasable(h)
    /\ timeline' = [k \in Key |->
          CASE k = <<h.platform, h.account>> /\ AccountMine(h) -> h.accountPrev
            [] k = <<h.platform, Shared>> /\ PlatformMine(h)   -> h.platformPrev
            [] OTHER -> timeline[k]]
    /\ count' = [k \in AccountKey |->
          IF k = <<h.platform, h.account>> THEN [count[k] EXCEPT ![today] = Refund(@)] ELSE count[k]]
    /\ rollbacks' = [k \in AccountKey |->
          IF k = <<h.platform, h.account>> THEN [rollbacks[k] EXCEPT ![today] = @ + 1] ELSE rollbacks[k]]
    /\ holds' = [holds EXCEPT ![i].state = "released"]
    /\ UNCHANGED <<now, today>>

(* The attempt's window stays booked: it was submitted, or it may have been, *)
(* or release() declined.                                                    *)
KeepWindow(i) ==
    /\ holds' = [holds EXCEPT ![i].state = "kept"]
    /\ UNCHANGED <<now, today, timeline, count, rollbacks>>

----------------------------------------------------------------------------
(* clearWindow(): the emergency release empties the account's window and the *)
(* platform's, which waives the spacing against every attempt booked there.  *)

ClearWindow(p, a) ==
    /\ timeline' = [k \in Key |-> IF k \in Booked(p, a) THEN Never ELSE timeline[k]]
    /\ holds' = [i \in Attempt |->
          IF holds[i].state = "none" \/ holds[i].platform # p THEN holds[i]
          ELSE [holds[i] EXCEPT !.onPlatform = FALSE,
                                !.onAccount = @ /\ holds[i].account # a]]
    /\ UNCHANGED <<now, today, count, rollbacks>>

----------------------------------------------------------------------------
(* Callers and the clock.                                                    *)

GuardInit ==
    /\ now = 1 /\ today = 1
    /\ timeline = [k \in Key |-> Never]
    /\ count = [k \in AccountKey |-> [d \in Days |-> 0]]
    /\ rollbacks = [k \in AccountKey |-> [d \in Days |-> 0]]
    /\ holds = [i \in Attempt |-> NoHold]

Tick ==
    /\ now < MaxTime
    /\ now' = now + 1
    /\ UNCHANGED <<today, timeline, count, rollbacks, holds>>

Midnight ==
    /\ now < MaxTime /\ today < MaxDay
    /\ now' = now + 1 /\ today' = today + 1
    /\ UNCHANGED <<timeline, count, rollbacks, holds>>

Start(i, p, a) ==
    /\ holds[i].state = "none"
    /\ Allowed(p, a)
    /\ RecordPublish(i, p, a)

Release(i) == holds[i].state = "open" /\ ReleaseWindow(i)

Keep(i) == holds[i].state = "open" /\ KeepWindow(i)

(* A click comes at least a tick after the attempts whose windows it clears. *)
EmergencyClear(p, a) ==
    /\ \A k \in Booked(p, a) : timeline[k] < now
    /\ ClearWindow(p, a)

GuardNext ==
    \/ Tick
    \/ Midnight
    \/ \E i \in Attempt, p \in Platform, a \in Account \union {NoAccount} : Start(i, p, a)
    \/ \E i \in Attempt : Release(i)
    \/ \E i \in Attempt : Keep(i)
    \/ \E p \in Platform, a \in Account \union {NoAccount} : EmergencyClear(p, a)

GuardSpec == GuardInit /\ [][GuardNext]_guardVars

----------------------------------------------------------------------------
(* Properties                                                                *)

GuardTypeOK ==
    /\ now \in 1..MaxTime
    /\ today \in Days
    /\ timeline \in [Key -> 0..MaxTime]
    /\ count \in [AccountKey -> [Days -> Nat]]
    /\ rollbacks \in [AccountKey -> [Days -> Nat]]
    /\ holds \in [Attempt -> Hold \union {NoHold}]

Standing(i) == holds[i].state \in {"open", "kept"}
OnAccount(i, k) ==
    Standing(i) /\ holds[i].onAccount /\ <<holds[i].platform, holds[i].account>> = k
OnPlatform(i, p) == Standing(i) /\ holds[i].onPlatform /\ holds[i].platform = p

Apart(i, j, d) ==
    holds[i].at + d <= holds[j].at \/ holds[j].at + d <= holds[i].at

(* Two attempts on one account that were not rolled back are never closer    *)
(* than the account interval, whatever rollbacks happen around them, unless  *)
(* an emergency release waived the window in between (check, recordPublish,  *)
(* release and clearWindow together).                                        *)
AccountSpacing ==
    \A k \in AccountKey : \A i, j \in Attempt :
        i # j /\ OnAccount(i, k) /\ OnAccount(j, k) => Apart(i, j, AccountMin[k[1]])

(* The same for attempts of any accounts of one platform and the platform    *)
(* interval: one account's rollback never gives away another's window.       *)
PlatformSpacing ==
    \A p \in Platform : \A i, j \in Attempt :
        i # j /\ OnPlatform(i, p) /\ OnPlatform(j, p) => Apart(i, j, PlatformMin[p])

AttemptsOn(k, d) == {i \in Attempt : /\ holds[i].state # "none"
                                     /\ <<holds[i].platform, holds[i].account>> = k
                                     /\ holds[i].day = d}
(* On a platform with an interval of its own, the attempts of one account    *)
(* that stay booked on a day never exceed the daily quota, although          *)
(* release() gives the quota back to the day it runs on and not to the       *)
(* attempt's day (line 394).  (And the state is well typed: no count is      *)
(* below zero, although a refund may come after midnight.)                   *)
QuotaBound ==
    GuardTypeOK /\ \A k \in AccountKey, d \in Days : DailyMax[k[1]] > 0 /\ PlatformMin[k[1]] > 0 =>
        Cardinality({i \in AttemptsOn(k, d) : Standing(i)}) <= DailyMax[k[1]]

(* Roll back, refund, try again cannot go on for ever: in one day an account *)
(* starts at most the quota plus the rollback cap.                           *)
AttemptsBounded ==
    \A k \in AccountKey, d \in Days : DailyMax[k[1]] > 0 =>
        Cardinality(AttemptsOn(k, d)) <= DailyMax[k[1]] + RollbackCap(k[1])
=============================================================================
