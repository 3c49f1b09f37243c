--------------------- MODULE PublishIntervalGuardProofs ---------------------
(* Proofs about the frequency guard: type correctness, and the spacing of    *)
(* attempts on an account and on a platform, for every set of platforms,     *)
(* accounts and attempts, every policy, clock and calendar.                  *)
EXTENDS PublishIntervalGuard, FiniteSetTheorems, TLAPS

(* A clock tick or a midnight keeps every variable in its type. *)
LEMMA ClockType == GuardTypeOK /\ (Tick \/ Midnight) => GuardTypeOK'
  BY GuardConstants DEF GuardTypeOK, Tick, Midnight, Days

LEMMA HoldForType ==
    ASSUME GuardTypeOK, NEW p \in Platform, NEW a \in Account \union {NoAccount}
    PROVE  HoldFor(p, a) \in Hold
  <1>1. <<p, Shared>> \in Key /\ (a # NoAccount => <<p, a>> \in Key)
    BY DEF Key
  <1>2. timeline[<<p, Shared>>] \in 0..MaxTime
        /\ (a # NoAccount => timeline[<<p, a>>] \in 0..MaxTime)
    BY <1>1 DEF GuardTypeOK
  <1>3. 0 \in 0..MaxTime /\ Never = 0
    BY GuardConstants DEF Never
  <1>4. (a # NoAccount) \in BOOLEAN
    OBVIOUS
  <1> QED
    BY <1>2, <1>3, <1>4 DEF HoldFor, Hold, GuardTypeOK

(* recordPublish() keeps the types. *)
LEMMA StartType ==
    ASSUME GuardTypeOK, NEW i \in Attempt, NEW p \in Platform,
           NEW a \in Account \union {NoAccount}, RecordPublish(i, p, a)
    PROVE  GuardTypeOK'
  <1>1. timeline' \in [Key -> 0..MaxTime]
    BY GuardConstants DEF GuardTypeOK, RecordPublish
  <1>2. count' \in [AccountKey -> [Days -> Nat]]
    BY DEF GuardTypeOK, RecordPublish
  <1>3. holds' \in [Attempt -> Hold \union {NoHold}]
    BY HoldForType DEF GuardTypeOK, RecordPublish
  <1> QED
    BY <1>1, <1>2, <1>3 DEF GuardTypeOK, RecordPublish

LEMMA OpenIsHold ==
    ASSUME GuardTypeOK, NEW i \in Attempt, holds[i].state # "none"
    PROVE  holds[i] \in Hold
  BY DEF GuardTypeOK, NoHold

LEMMA SettledHold ==
    ASSUME NEW h \in Hold, NEW s \in {"open", "kept", "released"}
    PROVE  [h EXCEPT !.state = s] \in Hold
  BY DEF Hold

(* release() keeps the types; a refund never makes a count negative. *)
LEMMA ReleaseType ==
    ASSUME GuardTypeOK, NEW i \in Attempt, holds[i].state # "none", ReleaseWindow(i)
    PROVE  GuardTypeOK'
  <1> DEFINE h == holds[i]
  <1>1. h \in Hold
    BY OpenIsHold
  <1>2. h.accountPrev \in 0..MaxTime /\ h.platformPrev \in 0..MaxTime
    BY <1>1 DEF Hold
  <1>3. timeline' \in [Key -> 0..MaxTime]
    BY <1>2 DEF GuardTypeOK, ReleaseWindow
  <1>4. \A n \in Nat : Refund(n) \in Nat
    BY DEF Refund, Monus
  <1>5. count' \in [AccountKey -> [Days -> Nat]]
    BY <1>4 DEF GuardTypeOK, ReleaseWindow
  <1>6. rollbacks' \in [AccountKey -> [Days -> Nat]]
    BY DEF GuardTypeOK, ReleaseWindow
  <1>7. holds' = [holds EXCEPT ![i] = [h EXCEPT !.state = "released"]]
    BY DEF ReleaseWindow, GuardTypeOK
  <1>8. holds' \in [Attempt -> Hold \union {NoHold}]
    BY <1>1, <1>7, SettledHold DEF GuardTypeOK
  <1> QED
    BY <1>3, <1>5, <1>6, <1>8 DEF GuardTypeOK, ReleaseWindow

LEMMA KeepType ==
    ASSUME GuardTypeOK, NEW i \in Attempt, holds[i].state # "none", KeepWindow(i)
    PROVE  GuardTypeOK'
  <1>1. holds' = [holds EXCEPT ![i] = [holds[i] EXCEPT !.state = "kept"]]
    BY DEF KeepWindow, GuardTypeOK
  <1>2. holds' \in [Attempt -> Hold \union {NoHold}]
    BY <1>1, OpenIsHold, SettledHold DEF GuardTypeOK
  <1> QED
    BY <1>2 DEF GuardTypeOK, KeepWindow

LEMMA ClearType ==
    ASSUME GuardTypeOK, NEW p \in Platform, NEW a \in Account \union {NoAccount},
           ClearWindow(p, a)
    PROVE  GuardTypeOK'
  <1>1. timeline' \in [Key -> 0..MaxTime]
    <2>1. timeline' = [k \in Key |-> IF k \in Booked(p, a) THEN Never ELSE timeline[k]]
      BY DEF ClearWindow
    <2>2. Never \in 0..MaxTime
      BY GuardConstants DEF Never
    <2> QED
      BY <2>1, <2>2 DEF GuardTypeOK
  <1>2. ASSUME NEW i \in Attempt PROVE holds'[i] \in Hold \union {NoHold}
    <2>1. CASE holds[i].state = "none" \/ holds[i].platform # p
      BY <2>1 DEF GuardTypeOK, ClearWindow
    <2>2. CASE ~(holds[i].state = "none" \/ holds[i].platform # p)
      <3>1. holds[i] \in Hold
        BY <2>2, OpenIsHold
      <3>2. \A b \in BOOLEAN :
               [holds[i] EXCEPT !.onPlatform = FALSE, !.onAccount = b] \in Hold
        BY <3>1 DEF Hold
      <3>3. (holds[i].onAccount /\ holds[i].account # a) \in BOOLEAN
        OBVIOUS
      <3>4. holds'[i] = [holds[i] EXCEPT !.onPlatform = FALSE,
                            !.onAccount = holds[i].onAccount /\ holds[i].account # a]
        BY <2>2 DEF ClearWindow
      <3> QED
        BY <3>2, <3>3, <3>4
    <2> QED
      BY <2>1, <2>2
  <1>3. holds' \in [Attempt -> Hold \union {NoHold}]
    BY <1>2 DEF ClearWindow
  <1> QED
    BY <1>1, <1>3 DEF GuardTypeOK, ClearWindow

LEMMA GuardInitType == GuardInit => GuardTypeOK
  BY GuardConstants DEF GuardInit, GuardTypeOK, Days, Never

LEMMA GuardNextType == GuardTypeOK /\ [GuardNext]_guardVars => GuardTypeOK'
  <1> SUFFICES ASSUME GuardTypeOK, [GuardNext]_guardVars PROVE GuardTypeOK'
    OBVIOUS
  <1>1. CASE Tick \/ Midnight
    BY <1>1, ClockType
  <1>2. ASSUME NEW i \in Attempt, NEW p \in Platform,
               NEW a \in Account \union {NoAccount}, Start(i, p, a)
        PROVE  GuardTypeOK'
    BY <1>2, StartType DEF Start
  <1>3. ASSUME NEW i \in Attempt, Release(i) PROVE GuardTypeOK'
    BY <1>3, ReleaseType DEF Release
  <1>4. ASSUME NEW i \in Attempt, Keep(i) PROVE GuardTypeOK'
    BY <1>4, KeepType DEF Keep
  <1>5. ASSUME NEW p \in Platform, NEW a \in Account \union {NoAccount},
               EmergencyClear(p, a)
        PROVE  GuardTypeOK'
    BY <1>5, ClearType DEF EmergencyClear
  <1>6. CASE UNCHANGED guardVars
    BY <1>6 DEF GuardTypeOK, guardVars
  <1> QED
    BY <1>1, <1>2, <1>3, <1>4, <1>5, <1>6 DEF GuardNext

(* The variables of the guard keep their types: no window is ever booked in  *)
(* the future and no daily count becomes negative.                           *)
THEOREM GuardTypeCorrect == GuardSpec => []GuardTypeOK
  <1> QED
    BY GuardInitType, GuardNextType, PTL DEF GuardSpec

----------------------------------------------------------------------------
(* Spacing.  AccountSpacing and PlatformSpacing alone are not inductive: a   *)
(* rollback puts an earlier stamp back, and the next attempt is checked      *)
(* against that stamp only.  The invariant says, for a key k with an         *)
(* interval, that the stamp never lies before an attempt that counts on k,   *)
(* that the stamp an attempt would put back does not either, and that an     *)
(* attempt whose window was waived can no longer take k for its own.  The    *)
(* attempts of an account without an interval of its own are a tick apart at *)
(* least, if the platform has one.                                           *)

Interval(k) == IF k[2] = Shared THEN PlatformMin[k[1]] ELSE AccountMin[k[1]]

Spacing(k) == IF Interval(k) = 0 /\ PlatformMin[k[1]] > 0 THEN 1 ELSE Interval(k)

Books(i, k) == /\ Standing(i)
               /\ holds[i].platform = k[1]
               /\ k[2] = Shared \/ holds[i].account = k[2]

CountsOn(i, k) ==
    Books(i, k) /\ (IF k[2] = Shared THEN holds[i].onPlatform ELSE holds[i].onAccount)

Prev(i, k) == IF k[2] = Shared THEN holds[i].platformPrev ELSE holds[i].accountPrev

Covered(k) == \A i \in Attempt : CountsOn(i, k) => holds[i].at <= timeline[k]

Separate(k) == \A i, j \in Attempt :
    i # j /\ CountsOn(i, k) /\ CountsOn(j, k) => Apart(i, j, Spacing(k))

Nested(k) == \A i, j \in Attempt :
    CountsOn(i, k) /\ CountsOn(j, k) /\ holds[i].at < holds[j].at
        => holds[i].at <= Prev(j, k)

WaivedPast(k) == \A i \in Attempt :
    Books(i, k) /\ ~CountsOn(i, k) =>
        holds[i].at < now /\ (timeline[k] = Never \/ holds[i].at < timeline[k])

WaivedBefore(k) == \A i, j \in Attempt :
    Books(i, k) /\ ~CountsOn(i, k) /\ CountsOn(j, k) =>
        holds[i].at < holds[j].at /\ (Prev(j, k) = Never \/ holds[i].at < Prev(j, k))

KeyInv(k) == Covered(k) /\ Separate(k) /\ Nested(k) /\ WaivedPast(k) /\ WaivedBefore(k)

SpacingInv == \A k \in Key : Spacing(k) > 0 => KeyInv(k)

LEMMA KeyType ==
    ASSUME GuardTypeOK, NEW k \in Key
    PROVE  /\ k = <<k[1], k[2]>> /\ k[1] \in Platform /\ k[2] \in Account \union {Shared}
           /\ Interval(k) \in Nat /\ Spacing(k) \in Nat /\ Spacing(k) >= Interval(k)
           /\ timeline[k] \in 0..MaxTime
           /\ now \in 1..MaxTime
  <1>1. k[1] \in Platform /\ k[2] \in Account \union {Shared} /\ k = <<k[1], k[2]>>
    BY DEF Key
  <1> QED
    BY <1>1, GuardConstants DEF Interval, Spacing, GuardTypeOK

LEMMA BooksType ==
    ASSUME GuardTypeOK, NEW k \in Key, NEW i \in Attempt, Books(i, k)
    PROVE  holds[i] \in Hold /\ holds[i].at \in 1..MaxTime /\ Prev(i, k) \in 0..MaxTime
  <1>1. holds[i] \in Hold
    BY OpenIsHold DEF Books, Standing
  <1> QED
    BY <1>1 DEF Hold, Prev

LEMMA SameHold ==
    ASSUME NEW k, NEW i \in Attempt, holds'[i] = holds[i]
    PROVE  /\ Books(i, k)' <=> Books(i, k)
           /\ CountsOn(i, k)' <=> CountsOn(i, k)
           /\ Prev(i, k)' = Prev(i, k)
  BY DEF Books, CountsOn, Prev, Standing

(* An attempt starts only when the interval of every key it books is over. *)
LEMMA WindowOpen ==
    ASSUME GuardTypeOK, NEW p \in Platform, NEW a \in Account \union {NoAccount},
           Allowed(p, a), NEW k \in Key, k \in Booked(p, a), Interval(k) > 0
    PROVE  timeline[k] = Never \/ timeline[k] + Interval(k) <= now
  <1>1. Remaining(k, Interval(k)) = 0
    <2>1. PlatformWait(p) \in Nat /\ AccountWait(p, a) \in Nat
      <3>1. \A x \in Nat, y \in Int : Monus(x, y) \in Nat
        BY DEF Monus
      <3>2. \A l \in Key, m \in Nat : Remaining(l, m) \in Nat
        <4> SUFFICES ASSUME NEW l \in Key, NEW m \in Nat PROVE Remaining(l, m) \in Nat
          OBVIOUS
        <4>1. now - timeline[l] \in Int
          BY KeyType
        <4> QED
          BY <3>1, <4>1 DEF Remaining
      <3>3. <<p, Shared>> \in Key /\ (a # NoAccount => <<p, a>> \in Key)
        BY DEF Key
      <3> QED
        BY <3>2, <3>3, GuardConstants DEF PlatformWait, AccountWait
    <2>2. PlatformWait(p) = 0 /\ AccountWait(p, a) = 0
      BY <2>1 DEF Allowed, RemainingWait
    <2>3. CASE k = <<p, Shared>>
      BY <2>2, <2>3 DEF PlatformWait, Interval
    <2>4. CASE k = <<p, a>> /\ a # Shared
      <3>1. a # NoAccount
        BY <2>4, GuardConstants DEF Key
      <3> QED
        BY <2>2, <2>4, <3>1 DEF AccountWait, Interval
    <2> QED
      BY <2>3, <2>4 DEF Booked
  <1> QED
    BY <1>1, KeyType DEF Remaining, Monus

LEMMA StartsLater ==
    ASSUME GuardTypeOK, SpacingInv, NEW p \in Platform, NEW a \in Account \union {NoAccount},
           Allowed(p, a), NEW k \in Key, k \in Booked(p, a), Spacing(k) > 0,
           NEW j \in Attempt, CountsOn(j, k)
    PROVE  holds[j].at + Spacing(k) <= now
  <1> USE DEF SpacingInv, KeyInv
  <1>1. /\ Interval(k) \in Nat /\ timeline[k] \in 0..MaxTime /\ now \in 1..MaxTime
        /\ holds[j].at \in 1..MaxTime
    BY KeyType, BooksType DEF CountsOn
  <1>2. CASE Interval(k) > 0
    <2>1. timeline[k] = Never \/ timeline[k] + Interval(k) <= now
      BY <1>2, WindowOpen
    <2>2. holds[j].at <= timeline[k]
      BY DEF Covered
    <2> QED
      BY <1>1, <1>2, <2>1, <2>2 DEF Spacing, Never
  <1>3. CASE Interval(k) = 0
    <2> DEFINE s == <<p, Shared>>
    <2>1. Spacing(k) = 1 /\ PlatformMin[p] > 0
      BY <1>3, KeyType DEF Spacing, Booked
    <2>2. /\ s \in Key /\ s[1] = p /\ s[2] = Shared /\ s \in Booked(p, a)
          /\ Interval(s) = PlatformMin[p] /\ Spacing(s) = PlatformMin[p]
      BY <2>1 DEF Key, Booked, Interval, Spacing
    <2>3. Books(j, s)
      BY <2>2 DEF CountsOn, Books, Booked
    <2> HIDE DEF s
    <2>4. CASE CountsOn(j, s)
      <3>1. timeline[s] = Never \/ timeline[s] + Interval(s) <= now
        BY <2>1, <2>2, WindowOpen
      <3>2. holds[j].at <= timeline[s]
        BY <2>1, <2>2, <2>4 DEF Covered
      <3>3. timeline[s] \in 0..MaxTime /\ Interval(s) \in Nat
        BY <2>2, KeyType
      <3> QED
        BY <1>1, <2>1, <2>2, <3>1, <3>2, <3>3 DEF Never
    <2>5. CASE ~CountsOn(j, s)
      <3>1. holds[j].at < now
        BY <2>1, <2>2, <2>3, <2>5 DEF WaivedPast
      <3> QED
        BY <1>1, <2>1, <3>1
    <2> QED
      BY <2>4, <2>5
  <1> QED
    BY <1>1, <1>2, <1>3

(* What recordPublish() does to a key it books, and to one it does not. *)
LEMMA StartOnKey ==
    ASSUME GuardTypeOK, NEW i \in Attempt, NEW p \in Platform,
           NEW a \in Account \union {NoAccount}, Start(i, p, a), NEW k \in Key
    PROVE  /\ ~Books(i, k)
           /\ \A j \in Attempt \ {i} : holds'[j] = holds[j]
           /\ now' = now
           /\ k \in Booked(p, a) =>
                 /\ CountsOn(i, k)' /\ holds'[i].at = now /\ Prev(i, k)' = timeline[k]
                 /\ timeline'[k] = now
           /\ k \notin Booked(p, a) => ~Books(i, k)' /\ timeline'[k] = timeline[k]
  <1>1. holds'[i] = HoldFor(p, a) /\ \A j \in Attempt \ {i} : holds'[j] = holds[j]
    BY DEF Start, RecordPublish, GuardTypeOK
  <1>2. ~Books(i, k)
    BY DEF Start, Books, Standing
  <1>3. now' = now /\ timeline'[k] = IF k \in Booked(p, a) THEN now ELSE timeline[k]
    BY DEF Start, RecordPublish
  <1>4. ASSUME k \in Booked(p, a)
        PROVE  CountsOn(i, k)' /\ holds'[i].at = now /\ Prev(i, k)' = timeline[k]
    <2>1. CASE k = <<p, Shared>>
      BY <1>1, <2>1 DEF CountsOn, Books, Standing, Prev, HoldFor
    <2>2. CASE k = <<p, a>> /\ a # Shared
      <3>1. a # NoAccount
        BY <2>2, GuardConstants DEF Key
      <3>2. HoldFor(p, a).onAccount
        BY <3>1 DEF HoldFor
      <3>3. CountsOn(i, k)'
        BY <1>1, <2>2, <3>1, <3>2 DEF CountsOn, Books, Standing, HoldFor
      <3>4. holds'[i].at = now /\ Prev(i, k)' = timeline[k]
        BY <1>1, <2>2, <3>1 DEF Prev, HoldFor
      <3> QED
        BY <3>3, <3>4
    <2> QED
      BY <1>4, <2>1, <2>2 DEF Booked
  <1>5. ASSUME k \notin Booked(p, a) PROVE ~Books(i, k)'
    <2>1. k # <<p, Shared>> /\ k # <<p, a>>
      BY <1>5 DEF Booked
    <2>2. ~(p = k[1] /\ (k[2] = Shared \/ a = k[2]))
      BY <2>1, KeyType
    <2> QED
      BY <1>1, <2>2 DEF Books, HoldFor
  <1> QED
    BY <1>1, <1>2, <1>3, <1>4, <1>5

LEMMA StartKeepsKey ==
    ASSUME GuardTypeOK, NEW i \in Attempt, NEW p \in Platform,
           NEW a \in Account \union {NoAccount}, Start(i, p, a), SpacingInv,
           NEW k \in Key, Spacing(k) > 0
    PROVE  KeyInv(k)'
  <1> USE DEF KeyInv, Covered, Separate, Nested, WaivedPast, WaivedBefore
  <1>0. KeyInv(k)
    BY DEF SpacingInv
  <1>1. \A j \in Attempt \ {i} : /\ Books(j, k)' <=> Books(j, k)
                                 /\ CountsOn(j, k)' <=> CountsOn(j, k)
                                 /\ Prev(j, k)' = Prev(j, k)
                                 /\ holds'[j].at = holds[j].at
    BY StartOnKey, SameHold
  <1>2. \A j \in Attempt : CountsOn(j, k) => Books(j, k)
    BY DEF CountsOn
  <1>3. \A j \in Attempt : CountsOn(j, k)' => Books(j, k)'
    BY DEF CountsOn
  <1>4. \A j \in Attempt : Books(j, k) =>
           holds[j].at \in 1..MaxTime /\ Prev(j, k) \in 0..MaxTime
    BY BooksType
  <1>5. Spacing(k) \in Nat /\ timeline[k] \in 0..MaxTime /\ now \in 1..MaxTime /\ now' = now
    BY KeyType, StartOnKey
  <1>6. CASE k \notin Booked(p, a)
    <2>1. ~Books(i, k)' /\ timeline'[k] = timeline[k]
      BY <1>6, StartOnKey
    <2>2. Covered(k)'
      BY <1>0, <1>1, <1>3, <2>1
    <2>3. Separate(k)'
      BY <1>0, <1>1, <1>3, <2>1 DEF Apart
    <2>4. Nested(k)'
      BY <1>0, <1>1, <1>3, <2>1
    <2>5. WaivedPast(k)'
      BY <1>0, <1>1, <1>5, <2>1
    <2>6. WaivedBefore(k)'
      BY <1>0, <1>1, <1>3, <2>1
    <2> QED
      BY <2>2, <2>3, <2>4, <2>5, <2>6
  <1>7. CASE k \in Booked(p, a)
    <2>1. /\ CountsOn(i, k)' /\ holds'[i].at = now /\ Prev(i, k)' = timeline[k]
          /\ timeline'[k] = now
      BY <1>7, StartOnKey
    <2>2. \A j \in Attempt : CountsOn(j, k) => holds[j].at + Spacing(k) <= now
      BY <1>7, StartsLater DEF Start
    <2>3. \A j \in Attempt : CountsOn(j, k) =>
             /\ holds[j].at <= timeline[k]
             /\ holds[j].at + Spacing(k) <= now
             /\ holds[j].at < now
      BY <1>2, <1>4, <1>5, <1>0, <2>2
    <2>4. Covered(k)'
      BY <1>0, <1>1, <1>2, <1>4, <1>5, <2>1, <2>3
    <2>5. Separate(k)'
      BY <1>0, <1>1, <1>5, <2>1, <2>3 DEF Apart
    <2>6. Nested(k)'
      BY <1>0, <1>1, <1>2, <1>4, <1>5, <2>1, <2>3
    <2>7. WaivedPast(k)'
      BY <1>0, <1>1, <1>5, <2>1
    <2>8. WaivedBefore(k)'
      BY <1>0, <1>1, <1>5, <2>1
    <2> QED
      BY <2>4, <2>5, <2>6, <2>7, <2>8
  <1> QED
    BY <1>6, <1>7

(* release() touches a key only if it is the attempt's own: the attempt      *)
(* books it and its stamp is the attempt's.                                  *)
LEMMA ReleaseOnKey ==
    ASSUME GuardTypeOK, NEW i \in Attempt, Release(i), NEW k \in Key
    PROVE  /\ ~Books(i, k)'
           /\ \A j \in Attempt \ {i} : holds'[j] = holds[j]
           /\ now' = now
           /\ \/ timeline'[k] = timeline[k]
              \/ Books(i, k) /\ timeline[k] = holds[i].at /\ timeline'[k] = Prev(i, k)
  <1> DEFINE h == holds[i]
  <1>1. h \in Hold /\ h.state = "open"
    BY OpenIsHold DEF Release
  <1>2. holds'[i].state = "released" /\ \A j \in Attempt \ {i} : holds'[j] = holds[j]
    BY DEF Release, ReleaseWindow, GuardTypeOK
  <1>3. ~Books(i, k)' /\ now' = now
    BY <1>2 DEF Books, Standing, Release, ReleaseWindow
  <1>4. timeline'[k] =
          CASE k = <<h.platform, h.account>> /\ AccountMine(h) -> h.accountPrev
            [] k = <<h.platform, Shared>> /\ PlatformMine(h)   -> h.platformPrev
            [] OTHER -> timeline[k]
    BY DEF Release, ReleaseWindow
  <1>5. CASE k = <<h.platform, h.account>> /\ AccountMine(h)
    <2>1. k[2] # Shared
      BY <1>1, <1>5, GuardConstants DEF Hold
    <2>2. Books(i, k) /\ timeline[k] = h.at
      BY <1>1, <1>5 DEF Books, Standing, AccountMine, StillMine
    <2>3. timeline'[k] = Prev(i, k)
      BY <1>4, <1>5, <2>1 DEF Prev, AccountMine
    <2> QED
      BY <1>2, <1>3, <2>2, <2>3
  <1>6. CASE k = <<h.platform, Shared>> /\ PlatformMine(h)
    <2>1. h.account # Shared
      BY <1>1, GuardConstants DEF Hold
    <2>2. Books(i, k) /\ timeline[k] = h.at
      BY <1>1, <1>6 DEF Books, Standing, PlatformMine, StillMine
    <2>3. timeline'[k] = Prev(i, k)
      BY <1>4, <1>6, <2>1 DEF Prev
    <2> QED
      BY <1>2, <1>3, <2>2, <2>3
  <1>7. CASE /\ ~(k = <<h.platform, h.account>> /\ AccountMine(h))
             /\ ~(k = <<h.platform, Shared>> /\ PlatformMine(h))
    BY <1>2, <1>3, <1>4, <1>7
  <1> QED
    BY <1>5, <1>6, <1>7

LEMMA ReleaseKeepsKey ==
    ASSUME GuardTypeOK, NEW i \in Attempt, Release(i),
           NEW k \in Key, Spacing(k) > 0, KeyInv(k)
    PROVE  KeyInv(k)'
  <1> USE DEF KeyInv, Covered, Separate, Nested, WaivedPast, WaivedBefore
  <1>1. \A j \in Attempt \ {i} : /\ Books(j, k)' <=> Books(j, k)
                                 /\ CountsOn(j, k)' <=> CountsOn(j, k)
                                 /\ Prev(j, k)' = Prev(j, k)
                                 /\ holds'[j].at = holds[j].at
    BY ReleaseOnKey, SameHold
  <1>2. ~Books(i, k)' /\ now' = now
    BY ReleaseOnKey
  <1>3. \A j \in Attempt : /\ CountsOn(j, k) => Books(j, k)
                           /\ CountsOn(j, k)' => Books(j, k)'
    BY DEF CountsOn
  <1>4. \A j \in Attempt : Books(j, k) =>
           holds[j].at \in 1..MaxTime /\ Prev(j, k) \in 0..MaxTime
    BY BooksType
  <1>5. Spacing(k) \in Nat /\ timeline[k] \in 0..MaxTime
    BY KeyType
  <1>6. Separate(k)'
    BY <1>1, <1>2, <1>3 DEF Apart
  <1>7. Nested(k)'
    BY <1>1, <1>2, <1>3
  <1>8. WaivedBefore(k)'
    BY <1>1, <1>2, <1>3
  <1>9. Covered(k)' /\ WaivedPast(k)'
    <2>1. CASE timeline'[k] = timeline[k]
      BY <1>1, <1>2, <1>3, <2>1
    <2>2. CASE Books(i, k) /\ timeline[k] = holds[i].at /\ timeline'[k] = Prev(i, k)
      <3>1. CountsOn(i, k)
        BY <1>4, <2>2 DEF Never
      <3>2. \A j \in Attempt \ {i} : CountsOn(j, k) => holds[j].at <= Prev(i, k)
        <4> SUFFICES ASSUME NEW j \in Attempt \ {i}, CountsOn(j, k)
                     PROVE  holds[j].at <= Prev(i, k)
          OBVIOUS
        <4>1. holds[j].at \in 1..MaxTime /\ holds[i].at \in 1..MaxTime
          BY <1>3, <1>4, <2>2
        <4>2. holds[j].at <= holds[i].at
          BY <2>2
        <4>3. holds[j].at # holds[i].at
          BY <1>5, <3>1, <4>1 DEF Apart
        <4> QED
          BY <3>1, <4>1, <4>2, <4>3
      <3>3. Covered(k)'
        BY <1>1, <1>2, <1>3, <2>2, <3>2
      <3>4. WaivedPast(k)'
        BY <1>1, <1>2, <2>2, <3>1
      <3> QED
        BY <3>3, <3>4
    <2> QED
      BY <2>1, <2>2, ReleaseOnKey
  <1> QED
    BY <1>6, <1>7, <1>8, <1>9

(* An attempt that is kept counts as before. *)
LEMMA KeepKeepsKey ==
    ASSUME GuardTypeOK, NEW i \in Attempt, Keep(i), NEW k \in Key, KeyInv(k)
    PROVE  KeyInv(k)'
  <1>1. holds[i] \in Hold /\ holds[i].state = "open"
    BY OpenIsHold DEF Keep
  <1>2. holds' = [holds EXCEPT ![i] = [holds[i] EXCEPT !.state = "kept"]]
    BY DEF Keep, KeepWindow, GuardTypeOK
  <1>3. \A j \in Attempt \ {i} : holds'[j] = holds[j]
    BY <1>2 DEF GuardTypeOK
  <1>4. holds'[i] = [holds[i] EXCEPT !.state = "kept"]
    BY <1>2 DEF GuardTypeOK
  <1>5. /\ Books(i, k)' <=> Books(i, k)
        /\ CountsOn(i, k)' <=> CountsOn(i, k)
        /\ Prev(i, k)' = Prev(i, k)
        /\ holds'[i].at = holds[i].at
    <2>1. /\ holds'[i].state = "kept"
          /\ holds'[i].platform = holds[i].platform /\ holds'[i].account = holds[i].account
          /\ holds'[i].at = holds[i].at
          /\ holds'[i].accountPrev = holds[i].accountPrev
          /\ holds'[i].platformPrev = holds[i].platformPrev
      BY <1>1, <1>4 DEF Hold
    <2>2. /\ holds'[i].onAccount <=> holds[i].onAccount
          /\ holds'[i].onPlatform <=> holds[i].onPlatform
      BY <1>1, <1>4 DEF Hold
    <2>3. Books(i, k)' <=> Books(i, k)
      BY <1>1, <2>1 DEF Books, Standing
    <2> QED
      BY <2>1, <2>2, <2>3 DEF CountsOn, Prev
  <1>6. \A j \in Attempt : /\ Books(j, k)' <=> Books(j, k)
                           /\ CountsOn(j, k)' <=> CountsOn(j, k)
                           /\ Prev(j, k)' = Prev(j, k)
                           /\ holds'[j].at = holds[j].at
    BY <1>3, <1>5, SameHold
  <1>7. timeline' = timeline /\ now' = now
    BY DEF Keep, KeepWindow
  <1> QED
    BY <1>6, <1>7 DEF KeyInv, Covered, Separate, Nested, WaivedPast, WaivedBefore, Apart

(* clearWindow() waives a key against every attempt that booked it and       *)
(* leaves every other key alone.                                             *)
LEMMA ClearOnKey ==
    ASSUME GuardTypeOK, NEW p \in Platform, NEW a \in Account \union {NoAccount},
           EmergencyClear(p, a), NEW k \in Key, NEW j \in Attempt
    PROVE  /\ Books(j, k)' <=> Books(j, k)
           /\ Prev(j, k)' = Prev(j, k)
           /\ Books(j, k) => holds'[j].at = holds[j].at
           /\ k \in Booked(p, a) => ~CountsOn(j, k)'
           /\ k \notin Booked(p, a) => (CountsOn(j, k)' <=> CountsOn(j, k))
  <1>1. CASE holds[j].state = "none" \/ holds[j].platform # p
    <2>1. holds'[j] = holds[j]
      BY <1>1 DEF EmergencyClear, ClearWindow
    <2>2. k \in Booked(p, a) => ~CountsOn(j, k)
      BY <1>1, KeyType DEF Booked, CountsOn, Books, Standing
    <2> QED
      BY <2>1, <2>2, SameHold
  <1>2. CASE ~(holds[j].state = "none" \/ holds[j].platform # p)
    <2>1. holds[j] \in Hold
      BY <1>2, OpenIsHold
    <2>2. holds'[j] = [holds[j] EXCEPT !.onPlatform = FALSE,
                          !.onAccount = holds[j].onAccount /\ holds[j].account # a]
      BY <1>2 DEF EmergencyClear, ClearWindow
    <2>3. /\ holds'[j].state = holds[j].state /\ holds'[j].platform = holds[j].platform
          /\ holds'[j].account = holds[j].account /\ holds'[j].at = holds[j].at
          /\ holds'[j].accountPrev = holds[j].accountPrev
          /\ holds'[j].platformPrev = holds[j].platformPrev
      BY <2>1, <2>2 DEF Hold
    <2>4. /\ ~holds'[j].onPlatform
          /\ holds'[j].onAccount <=> (holds[j].onAccount /\ holds[j].account # a)
      BY <2>1, <2>2 DEF Hold
    <2>5. Books(j, k)' <=> Books(j, k)
      BY <2>3 DEF Books, Standing
    <2>6. Prev(j, k)' = Prev(j, k)
      BY <2>3 DEF Prev
    <2>7. ASSUME k \in Booked(p, a) PROVE ~CountsOn(j, k)'
      <3>1. CASE k[2] = Shared
        BY <2>4, <3>1 DEF CountsOn
      <3>2. CASE k[2] # Shared
        <4>1. k[2] = a
          BY <2>7, <3>2 DEF Booked
        <4> QED
          BY <2>3, <2>4, <3>2, <4>1 DEF CountsOn, Books
      <3> QED
        BY <3>1, <3>2
    <2>8. ASSUME k \notin Booked(p, a) PROVE CountsOn(j, k)' <=> CountsOn(j, k)
      <3>1. k # <<p, Shared>> /\ k # <<p, a>>
        BY <2>8 DEF Booked
      <3>2. Books(j, k) => k[2] # Shared /\ holds[j].account # a
        BY <1>2, <3>1, KeyType DEF Books
      <3> QED
        BY <2>4, <2>5, <3>2 DEF CountsOn
    <2> QED
      BY <2>3, <2>5, <2>6, <2>7, <2>8
  <1> QED
    BY <1>1, <1>2

LEMMA ClearKeepsKey ==
    ASSUME GuardTypeOK, NEW p \in Platform, NEW a \in Account \union {NoAccount},
           EmergencyClear(p, a), NEW k \in Key, KeyInv(k)
    PROVE  KeyInv(k)'
  <1> USE DEF KeyInv, Covered, Separate, Nested, WaivedPast, WaivedBefore
  <1>1. \A j \in Attempt : /\ CountsOn(j, k) => Books(j, k)
                           /\ CountsOn(j, k)' => Books(j, k)'
    BY DEF CountsOn
  <1>2. \A j \in Attempt : Books(j, k) => holds[j].at \in 1..MaxTime
    BY BooksType
  <1>3. timeline[k] \in 0..MaxTime /\ now \in 1..MaxTime /\ now' = now
    BY KeyType DEF EmergencyClear, ClearWindow
  <1>4. CASE k \in Booked(p, a)
    <2>1. timeline'[k] = Never /\ timeline[k] < now
      BY <1>4 DEF EmergencyClear, ClearWindow
    <2>2. \A j \in Attempt : /\ ~CountsOn(j, k)'
                             /\ Books(j, k)' => Books(j, k) /\ holds'[j].at = holds[j].at
      BY <1>4, ClearOnKey
    <2>3. \A j \in Attempt : Books(j, k) => holds[j].at < now
      BY <1>2, <1>3, <2>1
    <2> QED
      BY <1>3, <2>1, <2>2, <2>3
  <1>5. CASE k \notin Booked(p, a)
    <2>1. timeline'[k] = timeline[k]
      BY <1>5 DEF EmergencyClear, ClearWindow
    <2>2. \A j \in Attempt : /\ Books(j, k)' <=> Books(j, k)
                             /\ CountsOn(j, k)' <=> CountsOn(j, k)
                             /\ Prev(j, k)' = Prev(j, k)
                             /\ Books(j, k) => holds'[j].at = holds[j].at
      BY <1>5, ClearOnKey
    <2> QED
      BY <1>1, <1>3, <2>1, <2>2 DEF Apart
  <1> QED
    BY <1>4, <1>5

LEMMA ClockKeepsKey ==
    ASSUME GuardTypeOK, Tick \/ Midnight, NEW k \in Key, KeyInv(k)
    PROVE  KeyInv(k)'
  <1>1. timeline' = timeline /\ holds' = holds /\ now' = now + 1 /\ now \in 1..MaxTime
    BY DEF Tick, Midnight, GuardTypeOK
  <1>2. \A j \in Attempt : /\ Books(j, k)' <=> Books(j, k)
                           /\ CountsOn(j, k)' <=> CountsOn(j, k)
                           /\ Prev(j, k)' = Prev(j, k)
                           /\ holds'[j].at = holds[j].at
    BY <1>1, SameHold
  <1>3. \A j \in Attempt : Books(j, k) => holds[j].at \in 1..MaxTime
    BY BooksType
  <1> QED
    BY <1>1, <1>2, <1>3
    DEF KeyInv, Covered, Separate, Nested, WaivedPast, WaivedBefore, Apart

----------------------------------------------------------------------------
LEMMA SpacingInit == GuardInit => SpacingInv
  <1> SUFFICES ASSUME GuardInit PROVE SpacingInv
    OBVIOUS
  <1>1. \A k \in Key, i \in Attempt : ~Books(i, k) /\ ~CountsOn(i, k)
    BY DEF GuardInit, NoHold, Books, CountsOn, Standing
  <1> QED
    BY <1>1
    DEF SpacingInv, KeyInv, Covered, Separate, Nested, WaivedPast, WaivedBefore

LEMMA SpacingNext == GuardTypeOK /\ SpacingInv /\ [GuardNext]_guardVars => SpacingInv'
  <1> SUFFICES ASSUME GuardTypeOK, SpacingInv, [GuardNext]_guardVars,
                      NEW k \in Key, Spacing(k) > 0
               PROVE  KeyInv(k)'
    BY DEF SpacingInv, Spacing, Interval
  <1>1. KeyInv(k)
    BY DEF SpacingInv
  <1>2. CASE Tick \/ Midnight
    BY <1>1, <1>2, ClockKeepsKey
  <1>3. ASSUME NEW i \in Attempt, NEW p \in Platform,
               NEW a \in Account \union {NoAccount}, Start(i, p, a)
        PROVE  KeyInv(k)'
    BY <1>3, StartKeepsKey
  <1>4. ASSUME NEW i \in Attempt, Release(i) PROVE KeyInv(k)'
    BY <1>1, <1>4, ReleaseKeepsKey
  <1>5. ASSUME NEW i \in Attempt, Keep(i) PROVE KeyInv(k)'
    BY <1>1, <1>5, KeepKeepsKey
  <1>6. ASSUME NEW p \in Platform, NEW a \in Account \union {NoAccount},
               EmergencyClear(p, a)
        PROVE  KeyInv(k)'
    BY <1>1, <1>6, ClearKeepsKey
  <1>7. CASE UNCHANGED guardVars
    <2>1. timeline' = timeline /\ holds' = holds /\ now' = now
      BY <1>7 DEF guardVars
    <2>2. \A j \in Attempt : /\ Books(j, k)' <=> Books(j, k)
                             /\ CountsOn(j, k)' <=> CountsOn(j, k)
                             /\ Prev(j, k)' = Prev(j, k)
      BY <2>1, SameHold
    <2> QED
      BY <1>1, <2>1, <2>2
      DEF KeyInv, Covered, Separate, Nested, WaivedPast, WaivedBefore, Apart
  <1> QED
    BY <1>2, <1>3, <1>4, <1>5, <1>6, <1>7 DEF GuardNext

(* An interval of zero keeps any two attempts apart; a longer one does by    *)
(* the invariant.                                                            *)
LEMMA KeySeparate ==
    ASSUME GuardTypeOK, SpacingInv, NEW k \in Key, NEW i \in Attempt, NEW j \in Attempt,
           i # j, CountsOn(i, k), CountsOn(j, k)
    PROVE  Apart(i, j, Spacing(k))
  <1>1. Spacing(k) \in Nat
    BY KeyType
  <1>2. holds[i].at \in 1..MaxTime /\ holds[j].at \in 1..MaxTime
    BY BooksType DEF CountsOn
  <1>3. CASE Spacing(k) = 0
    BY <1>2, <1>3 DEF Apart
  <1>4. CASE Spacing(k) > 0
    BY <1>4 DEF SpacingInv, KeyInv, Separate
  <1> QED
    BY <1>1, <1>3, <1>4

LEMMA KeyIntervals ==
    ASSUME GuardTypeOK, SpacingInv, NEW k \in Key, NEW i \in Attempt, NEW j \in Attempt,
           i # j, CountsOn(i, k), CountsOn(j, k)
    PROVE  Apart(i, j, Interval(k))
  <1>1. Apart(i, j, Spacing(k)) /\ Spacing(k) \in Nat /\ Interval(k) \in Nat /\ Spacing(k) >= Interval(k)
    BY KeySeparate, KeyType
  <1>2. holds[i].at \in 1..MaxTime /\ holds[j].at \in 1..MaxTime
    BY BooksType DEF CountsOn
  <1> QED
    BY <1>1, <1>2 DEF Apart

LEMMA InvImpliesSpacing ==
    GuardTypeOK /\ SpacingInv => AccountSpacing /\ PlatformSpacing
  <1> SUFFICES ASSUME GuardTypeOK, SpacingInv PROVE AccountSpacing /\ PlatformSpacing
    OBVIOUS
  <1>1. ASSUME NEW k \in AccountKey, NEW i \in Attempt, NEW j \in Attempt, i # j,
               OnAccount(i, k), OnAccount(j, k)
        PROVE  Apart(i, j, AccountMin[k[1]])
    <2>1. k \in Key /\ k[2] # Shared
      BY GuardConstants DEF AccountKey, Key
    <2>2. CountsOn(i, k) /\ CountsOn(j, k)
      BY <1>1, <2>1 DEF OnAccount, CountsOn, Books
    <2> QED
      BY <1>1, <2>1, <2>2, KeyIntervals DEF Interval
  <1>2. ASSUME NEW p \in Platform, NEW i \in Attempt, NEW j \in Attempt, i # j,
               OnPlatform(i, p), OnPlatform(j, p)
        PROVE  Apart(i, j, PlatformMin[p])
    <2> DEFINE k == <<p, Shared>>
    <2>1. k \in Key /\ k[1] = p /\ k[2] = Shared
      BY DEF Key
    <2>2. CountsOn(i, k) /\ CountsOn(j, k)
      BY <1>2, <2>1 DEF OnPlatform, CountsOn, Books
    <2>3. Apart(i, j, Interval(k))
      BY <1>2, <2>1, <2>2, KeyIntervals
    <2> QED
      BY <2>1, <2>3 DEF Interval
  <1> QED
    BY <1>1, <1>2 DEF AccountSpacing, PlatformSpacing

(* Two attempts on one account that were not rolled back, and whose window   *)
(* no emergency release waived, are at least the account interval apart:     *)
(* check, recordPublish, release and clearWindow of the guard together.      *)
THEOREM GuardAccountSpacing == GuardSpec => []AccountSpacing
  <1>1. GuardInit => GuardTypeOK /\ SpacingInv
    BY GuardInitType, SpacingInit
  <1>2. GuardTypeOK /\ SpacingInv /\ [GuardNext]_guardVars => (GuardTypeOK /\ SpacingInv)'
    BY GuardNextType, SpacingNext
  <1>3. GuardTypeOK /\ SpacingInv => AccountSpacing
    BY InvImpliesSpacing
  <1> QED
    BY <1>1, <1>2, <1>3, PTL DEF GuardSpec

(* The same for the attempts of all accounts of a platform and the platform  *)
(* interval: the rollback of one account's attempt never opens the window    *)
(* another account's attempt holds.                                          *)
THEOREM GuardPlatformSpacing == GuardSpec => []PlatformSpacing
  <1>1. GuardInit => GuardTypeOK /\ SpacingInv
    BY GuardInitType, SpacingInit
  <1>2. GuardTypeOK /\ SpacingInv /\ [GuardNext]_guardVars => (GuardTypeOK /\ SpacingInv)'
    BY GuardNextType, SpacingNext
  <1>3. GuardTypeOK /\ SpacingInv => PlatformSpacing
    BY InvImpliesSpacing
  <1> QED
    BY <1>1, <1>2, <1>3, PTL DEF GuardSpec

----------------------------------------------------------------------------
(* The daily quota.  A count is not the number of the attempts booked on its *)
(* day: a refund goes to the day release() runs on.  But a window is given   *)
(* back only while no later attempt that counts has taken it, so on the day  *)
(* of a refund no attempt of the account stands, unless the attempt was made *)
(* that day itself: with an interval on the platform the count never falls   *)
(* below the attempts that stand.  And with the rollbacks it never falls     *)
(* below the attempts made.                                                  *)

Made(i) == holds[i].state # "none"

DaysInOrder ==
    \A i \in Attempt : Made(i) =>
        /\ holds[i].at <= now /\ holds[i].day <= today
        /\ holds[i].at = now => holds[i].day = today
        /\ \A j \in Attempt : Made(j) /\ holds[i].at <= holds[j].at => holds[i].day <= holds[j].day

StandingOn(k, d) == {i \in AttemptsOn(k, d) : Standing(i)}

Budget(k, d) ==
    /\ IsFiniteSet(AttemptsOn(k, d))
    /\ Cardinality(AttemptsOn(k, d)) <= count[k][d] + rollbacks[k][d]
    /\ rollbacks[k][d] <= RollbackCap(k[1])
    /\ DailyMax[k[1]] > 0 => count[k][d] <= DailyMax[k[1]]
    /\ PlatformMin[k[1]] > 0 => Cardinality(StandingOn(k, d)) <= count[k][d]

QuotaInv == DaysInOrder /\ \A k \in AccountKey, d \in Days : Budget(k, d)

LEMMA MadeType ==
    ASSUME GuardTypeOK, NEW i \in Attempt, Made(i)
    PROVE  /\ holds[i] \in Hold /\ holds[i].at \in 1..MaxTime /\ holds[i].day \in Days
           /\ holds[i].day \in Nat
  BY OpenIsHold, GuardConstants DEF Made, Hold, Days

LEMMA CountType ==
    ASSUME GuardTypeOK, NEW k \in AccountKey, NEW d \in Days
    PROVE  /\ count[k][d] \in Nat /\ rollbacks[k][d] \in Nat
           /\ k[1] \in Platform /\ k[2] \in Account /\ k = <<k[1], k[2]>>
           /\ DailyMax[k[1]] \in Nat /\ PlatformMin[k[1]] \in Nat
           /\ RollbackCap(k[1]) \in Nat
           /\ now \in 1..MaxTime /\ today \in Nat
  <1>1. k[1] \in Platform /\ k[2] \in Account /\ k = <<k[1], k[2]>>
    BY DEF AccountKey
  <1> QED
    BY <1>1, GuardConstants DEF GuardTypeOK, RollbackCap, Days

(* What a booking still says of its attempt: all but the waivers. *)
SameBooking(j) ==
    /\ Made(j)' <=> Made(j)
    /\ Standing(j)' <=> Standing(j)
    /\ Made(j) => /\ holds'[j].at = holds[j].at /\ holds'[j].day = holds[j].day
                  /\ holds'[j].platform = holds[j].platform /\ holds'[j].account = holds[j].account

LEMMA SameDays ==
    ASSUME GuardTypeOK, DaysInOrder, now' = now, today' = today,
           \A j \in Attempt : /\ Made(j)' <=> Made(j)
                              /\ Made(j) => holds'[j].at = holds[j].at /\ holds'[j].day = holds[j].day
    PROVE  DaysInOrder'
  BY DEF DaysInOrder

LEMMA SameBudget ==
    ASSUME \A j \in Attempt : SameBooking(j), NEW k, NEW d, Budget(k, d),
           count' = count, rollbacks' = rollbacks
    PROVE  Budget(k, d)'
  <1>1. AttemptsOn(k, d)' = AttemptsOn(k, d)
    BY DEF AttemptsOn, SameBooking, Made
  <1>2. StandingOn(k, d)' = StandingOn(k, d)
    BY <1>1 DEF StandingOn, AttemptsOn, SameBooking
  <1> QED
    BY <1>1, <1>2 DEF Budget

(* The attempt of a new booking is counted at once, on its own day. *)
LEMMA StartKeepsQuota ==
    ASSUME GuardTypeOK, QuotaInv, NEW i \in Attempt, NEW p \in Platform,
           NEW a \in Account \union {NoAccount}, Start(i, p, a)
    PROVE  QuotaInv'
  <1>1. /\ ~Made(i) /\ now' = now /\ today' = today /\ rollbacks' = rollbacks
        /\ \A j \in Attempt \ {i} : holds'[j] = holds[j]
        /\ holds'[i] = HoldFor(p, a)
    BY DEF Start, RecordPublish, GuardTypeOK, Made
  <1>2. /\ holds'[i].platform = p /\ holds'[i].account = a /\ holds'[i].at = now
        /\ holds'[i].day = today /\ holds'[i].state = "open"
    BY <1>1 DEF HoldFor
  <1>3. \A j \in Attempt \ {i} : SameBooking(j)
    BY <1>1 DEF SameBooking, Made, Standing
  <1>4. DaysInOrder'
    <2>1. \A j \in Attempt : Made(j) => /\ holds[j].at \in 1..MaxTime /\ holds[j].day \in Nat
                                       /\ j # i
      BY <1>1, MadeType
    <2>2. now \in 1..MaxTime /\ today \in Nat
      BY GuardConstants DEF GuardTypeOK, Days
    <2>3. ASSUME NEW j \in Attempt, Made(j)' PROVE holds'[j].at <= now /\ holds'[j].day <= today
                /\ (holds'[j].at = now => holds'[j].day = today)
      BY <1>2, <1>3, <2>2, <2>3 DEF QuotaInv, DaysInOrder, SameBooking
    <2>4. ASSUME NEW j \in Attempt, NEW l \in Attempt, Made(j)', Made(l)',
                 holds'[j].at <= holds'[l].at
          PROVE  holds'[j].day <= holds'[l].day
      <3>1. CASE l = i
        BY <1>2, <2>3, <2>4, <3>1
      <3>2. CASE l # i /\ j = i
        <4>1. holds'[l].at \in 1..MaxTime /\ holds'[l].at <= now
          BY <1>3, <2>1, <2>3, <2>4, <3>2 DEF SameBooking
        <4>2. holds'[l].at = now
          BY <1>2, <2>2, <2>4, <3>2, <4>1
        <4> QED
          BY <1>2, <2>2, <2>3, <2>4, <3>2, <4>2
      <3>3. CASE l # i /\ j # i
        BY <1>3, <2>4, <3>3 DEF QuotaInv, DaysInOrder, SameBooking
      <3> QED
        BY <3>1, <3>2, <3>3
    <2> QED
      BY <1>1, <2>3, <2>4 DEF DaysInOrder
  <1>5. ASSUME NEW k \in AccountKey, NEW d \in Days PROVE Budget(k, d)'
    <2> DEFINE S == AttemptsOn(k, d)
               T == StandingOn(k, d)
    <2>1. Budget(k, d)
      BY DEF QuotaInv
    <2>2. IsFiniteSet(S) /\ i \notin S /\ IsFiniteSet(T) /\ i \notin T
      <3>1. T \in SUBSET S
        BY DEF StandingOn
      <3> QED
        BY <1>1, <2>1, <3>1, FS_Subset DEF Budget, AttemptsOn, Made
    <2>3. CASE k = <<p, a>> /\ d = today
      <3>1. AttemptsOn(k, d)' = S \union {i}
        BY <1>2, <1>3, <2>3 DEF AttemptsOn, SameBooking, Made
      <3>2. StandingOn(k, d)' = T \union {i}
        BY <1>2, <1>3, <3>1 DEF StandingOn, AttemptsOn, SameBooking, Made, Standing
      <3>3. count'[k][d] = count[k][d] + 1
        <4>1. count'[k] = [count[k] EXCEPT ![today] = @ + 1] /\ count[k] \in [Days -> Nat]
          BY <2>3 DEF Start, RecordPublish, GuardTypeOK
        <4> QED
          BY <2>3, <4>1
      <3>4. DailyMax[k[1]] > 0 => count[k][d] < DailyMax[k[1]]
        <4>1. a # NoAccount /\ k[1] = p
          BY <2>3, GuardConstants DEF AccountKey
        <4> QED
          BY <2>3, <4>1, CountType DEF Start, Allowed, QuotaSpent
      <3> HIDE DEF S, T
      <3>5. /\ IsFiniteSet(S \union {i}) /\ Cardinality(S \union {i}) = Cardinality(S) + 1
            /\ Cardinality(T \union {i}) = Cardinality(T) + 1
            /\ Cardinality(S) \in Nat /\ Cardinality(T) \in Nat
        BY <2>2, FS_AddElement, FS_CardinalityType
      <3>6. Cardinality(S) <= count[k][d] + rollbacks[k][d]
            /\ (PlatformMin[k[1]] > 0 => Cardinality(T) <= count[k][d])
        BY <2>1 DEF Budget, S, T
      <3> QED
        BY <1>1, <2>1, <3>1, <3>2, <3>3, <3>4, <3>5, <3>6, CountType DEF Budget
    <2>4. CASE ~(k = <<p, a>> /\ d = today)
      <3>1. AttemptsOn(k, d)' = S
        BY <1>1, <1>2, <1>3, <2>4 DEF AttemptsOn, SameBooking, Made
      <3>2. StandingOn(k, d)' = T
        BY <1>3, <2>2, <3>1 DEF StandingOn, AttemptsOn, SameBooking
      <3>3. count'[k][d] = count[k][d]
        <4>1. count'[k] = (IF k = <<p, a>> THEN [count[k] EXCEPT ![today] = @ + 1] ELSE count[k])
              /\ count[k] \in [Days -> Nat]
          BY DEF Start, RecordPublish, GuardTypeOK
        <4> QED
          BY <2>4, <4>1
      <3> QED
        BY <1>1, <2>1, <3>1, <3>2, <3>3 DEF Budget
    <2> QED
      BY <2>3, <2>4
  <1> QED
    BY <1>4, <1>5 DEF QuotaInv

(* A later attempt on the platform keeps a window from being given back. *)
LEMMA ReleasedIsLast ==
    ASSUME GuardTypeOK, SpacingInv, NEW i \in Attempt, Release(i),
           PlatformMin[holds[i].platform] > 0,
           NEW j \in Attempt, Standing(j), holds[j].platform = holds[i].platform,
           holds[j].account = holds[i].account, holds[i].account # NoAccount
    PROVE  holds[j].at <= holds[i].at
  <1> DEFINE h == holds[i]
  <1>1. h \in Hold /\ Standing(i) /\ h.platform \in Platform /\ h.account \in Account
    BY OpenIsHold DEF Release, Standing, Hold
  <1>2. PICK k \in {<<h.platform, h.account>>, <<h.platform, Shared>>} : timeline[k] = h.at
    BY DEF Release, ReleaseWindow, Releasable, AccountMine, PlatformMine, StillMine
  <1>3. k \in Key /\ Books(j, k) /\ k[1] = h.platform
    BY <1>1, <1>2 DEF Key, Books
  <1>4. Spacing(k) > 0
    BY <1>1, <1>3, KeyType DEF Spacing
  <1>5. KeyInv(k)
    BY <1>3, <1>4 DEF SpacingInv
  <1>6. h.at \in 1..MaxTime /\ holds[j].at \in 1..MaxTime
    BY <1>1, <1>3, BooksType DEF Hold
  <1>7. CASE CountsOn(j, k)
    BY <1>2, <1>5, <1>7 DEF KeyInv, Covered
  <1>8. CASE ~CountsOn(j, k)
    BY <1>2, <1>3, <1>5, <1>6, <1>8 DEF KeyInv, WaivedPast, Never
  <1> QED
    BY <1>7, <1>8

LEMMA ReleaseKeepsQuota ==
    ASSUME GuardTypeOK, SpacingInv, QuotaInv, NEW i \in Attempt, Release(i)
    PROVE  QuotaInv'
  <1> DEFINE h == holds[i]
             own == <<h.platform, h.account>>
  <1>1. h \in Hold /\ h.state = "open" /\ Made(i) /\ Standing(i)
    BY OpenIsHold DEF Release, Made, Standing
  <1>2. /\ now' = now /\ today' = today
        /\ \A j \in Attempt \ {i} : holds'[j] = holds[j]
        /\ holds'[i] = [h EXCEPT !.state = "released"]
    BY DEF Release, ReleaseWindow, GuardTypeOK
  <1>3. /\ holds'[i].at = h.at /\ holds'[i].day = h.day /\ holds'[i].platform = h.platform
        /\ holds'[i].account = h.account /\ holds'[i].state = "released"
    BY <1>1, <1>2 DEF Hold
  <1>4. \A j \in Attempt : Made(j)' <=> Made(j)
    BY <1>1, <1>2, <1>3 DEF Made
  <1>5. \A j \in Attempt : Standing(j)' <=> Standing(j) /\ j # i
    BY <1>2, <1>3 DEF Standing
  <1>6. DaysInOrder'
    BY <1>2, <1>3, <1>4, SameDays DEF QuotaInv
  <1>7. \A j \in Attempt : /\ holds'[j].day = holds[j].day
                           /\ holds'[j].platform = holds[j].platform
                           /\ holds'[j].account = holds[j].account
    BY <1>2, <1>3
  <1>8. ASSUME NEW k \in AccountKey, NEW d \in Days PROVE Budget(k, d)'
    <2> DEFINE S == AttemptsOn(k, d)
               T == StandingOn(k, d)
    <2>1. Budget(k, d)
      BY DEF QuotaInv
    <2>2. AttemptsOn(k, d)' = S
      BY <1>4, <1>7 DEF AttemptsOn, Made
    <2>3. StandingOn(k, d)' = T \ {i}
      <3>1. S \subseteq Attempt
        BY DEF AttemptsOn
      <3> HIDE DEF S
      <3>2. {j \in S : Standing(j)'} = {j \in S : Standing(j)} \ {i}
        BY <1>5, <3>1
      <3> QED
        BY <2>2, <3>2 DEF StandingOn, S
    <2>4. IsFiniteSet(T) /\ Cardinality(T) \in Nat /\ Cardinality(S) \in Nat
          /\ IsFiniteSet(S)
      <3>1. T \in SUBSET S
        BY DEF StandingOn
      <3> QED
        BY <2>1, <3>1, FS_Subset, FS_CardinalityType DEF Budget
    <2>5. Cardinality(T \ {i}) = IF i \in T THEN Cardinality(T) - 1 ELSE Cardinality(T)
      <3> HIDE DEF T
      <3> QED
        BY <2>4, FS_RemoveElement
    <2>6. CASE k = own /\ d = today
      <3>1. h.account # NoAccount /\ h.platform = k[1]
        BY <2>6, GuardConstants DEF AccountKey
      <3>2. count'[k][d] = Refund(count[k][d]) /\ rollbacks'[k][d] = rollbacks[k][d] + 1
        <4>1. /\ count'[k] = [count[k] EXCEPT ![today] = Refund(@)] /\ count[k] \in [Days -> Nat]
              /\ rollbacks'[k] = [rollbacks[k] EXCEPT ![today] = @ + 1] /\ rollbacks[k] \in [Days -> Nat]
          BY <2>6 DEF Release, ReleaseWindow, GuardTypeOK
        <4> QED
          BY <2>6, <4>1
      <3>3. rollbacks[k][d] < RollbackCap(k[1])
        BY <2>6, <3>1, CountType DEF Release, ReleaseWindow, Releasable, Capped
      <3>4. PlatformMin[k[1]] > 0 => T = {} \/ i \in T
        <4> SUFFICES ASSUME PlatformMin[k[1]] > 0, NEW j \in T PROVE i \in T
          OBVIOUS
        <4>1. /\ j \in Attempt /\ Standing(j) /\ Made(j) /\ holds[j].day = today
              /\ holds[j].platform = h.platform /\ holds[j].account = h.account
          BY <2>6, <3>1 DEF StandingOn, AttemptsOn, Made
        <4>2. holds[j].at <= h.at
          BY <3>1, <4>1, ReleasedIsLast
        <4>3. today <= h.day /\ h.day <= today
          BY <1>1, <4>1, <4>2 DEF QuotaInv, DaysInOrder
        <4>4. h.day = today
          BY <1>1, <4>3, MadeType, CountType
        <4> QED
          BY <1>1, <2>6, <4>4 DEF StandingOn, AttemptsOn, Made
      <3>5. /\ Cardinality(S) <= count[k][d] + rollbacks[k][d]
            /\ PlatformMin[k[1]] > 0 => Cardinality(T) <= count[k][d]
        BY <2>1 DEF Budget
      <3>6. T = {} => Cardinality(T) = 0
        BY FS_EmptySet
      <3> HIDE DEF S, T
      <3> QED
        BY <2>1, <2>2, <2>3, <2>4, <2>5, <3>2, <3>3, <3>4, <3>5, <3>6, CountType
        DEF Budget, Refund, Monus
    <2>7. CASE ~(k = own /\ d = today)
      <3>1. count'[k][d] = count[k][d] /\ rollbacks'[k][d] = rollbacks[k][d]
        <4>1. /\ count'[k] = (IF k = own THEN [count[k] EXCEPT ![today] = Refund(@)] ELSE count[k])
              /\ rollbacks'[k] = (IF k = own THEN [rollbacks[k] EXCEPT ![today] = @ + 1] ELSE rollbacks[k])
              /\ count[k] \in [Days -> Nat] /\ rollbacks[k] \in [Days -> Nat]
          BY DEF Release, ReleaseWindow, GuardTypeOK
        <4> QED
          BY <2>7, <4>1
      <3> HIDE DEF S, T
      <3>2. Cardinality(T \ {i}) <= Cardinality(T)
        BY <2>4, <2>5
      <3>3. PlatformMin[k[1]] > 0 => Cardinality(T) <= count[k][d]
        BY <2>1 DEF Budget, T
      <3>4. Cardinality(T \ {i}) \in Nat
        BY <2>4, FS_RemoveElement, FS_CardinalityType
      <3>5. PlatformMin[k[1]] > 0 => Cardinality(T \ {i}) <= count[k][d]
        BY <2>4, <3>2, <3>3, <3>4, CountType
      <3> QED
        BY <2>1, <2>2, <2>3, <3>1, <3>5 DEF Budget, S
    <2> QED
      BY <2>6, <2>7
  <1> QED
    BY <1>6, <1>8 DEF QuotaInv

LEMMA KeepKeepsQuota ==
    ASSUME GuardTypeOK, QuotaInv, NEW i \in Attempt, Keep(i)
    PROVE  QuotaInv'
  <1>1. holds[i] \in Hold /\ holds[i].state = "open"
    BY OpenIsHold DEF Keep
  <1>2. /\ \A j \in Attempt \ {i} : holds'[j] = holds[j]
        /\ holds'[i] = [holds[i] EXCEPT !.state = "kept"]
        /\ now' = now /\ today' = today /\ count' = count /\ rollbacks' = rollbacks
    BY DEF Keep, KeepWindow, GuardTypeOK
  <1>3. /\ holds'[i].at = holds[i].at /\ holds'[i].day = holds[i].day
        /\ holds'[i].platform = holds[i].platform
        /\ holds'[i].account = holds[i].account /\ holds'[i].state = "kept"
    BY <1>1, <1>2 DEF Hold
  <1>4. \A j \in Attempt : SameBooking(j)
    BY <1>1, <1>2, <1>3 DEF SameBooking, Made, Standing
  <1> QED
    BY <1>2, <1>4, SameDays, SameBudget DEF QuotaInv, SameBooking

LEMMA ClearKeepsQuota ==
    ASSUME GuardTypeOK, QuotaInv, NEW p \in Platform, NEW a \in Account \union {NoAccount},
           EmergencyClear(p, a)
    PROVE  QuotaInv'
  <1>1. ASSUME NEW j \in Attempt PROVE SameBooking(j)
    <2>1. CASE holds[j].state = "none" \/ holds[j].platform # p
      <3>1. holds'[j] = holds[j]
        BY <2>1 DEF EmergencyClear, ClearWindow
      <3> QED
        BY <3>1 DEF SameBooking, Made, Standing
    <2>2. CASE ~(holds[j].state = "none" \/ holds[j].platform # p)
      <3>1. holds[j] \in Hold
        BY <2>2, OpenIsHold
      <3>2. holds'[j] = [holds[j] EXCEPT !.onPlatform = FALSE,
                            !.onAccount = holds[j].onAccount /\ holds[j].account # a]
        BY <2>2 DEF EmergencyClear, ClearWindow
      <3>3. /\ holds'[j].state = holds[j].state /\ holds'[j].platform = holds[j].platform
            /\ holds'[j].account = holds[j].account /\ holds'[j].at = holds[j].at
            /\ holds'[j].day = holds[j].day
        BY <3>1, <3>2 DEF Hold
      <3> QED
        BY <3>3 DEF SameBooking, Made, Standing
    <2> QED
      BY <2>1, <2>2
  <1>2. now' = now /\ today' = today /\ count' = count /\ rollbacks' = rollbacks
    BY DEF EmergencyClear, ClearWindow
  <1> QED
    BY <1>1, <1>2, SameDays, SameBudget DEF QuotaInv, SameBooking

LEMMA ClockKeepsQuota ==
    ASSUME GuardTypeOK, QuotaInv, Tick \/ Midnight
    PROVE  QuotaInv'
  <1>1. /\ holds' = holds /\ count' = count /\ rollbacks' = rollbacks /\ now' = now + 1
        /\ today' = today \/ today' = today + 1
        /\ now \in 1..MaxTime /\ today \in Nat
    BY GuardConstants DEF Tick, Midnight, GuardTypeOK, Days
  <1>2. \A j \in Attempt : SameBooking(j)
    BY <1>1 DEF SameBooking, Made, Standing
  <1>3. \A j \in Attempt : Made(j) => holds[j].at \in 1..MaxTime /\ holds[j].day \in Nat
    BY MadeType
  <1>4. DaysInOrder'
    BY <1>1, <1>3 DEF QuotaInv, DaysInOrder, Made
  <1> QED
    BY <1>1, <1>2, <1>4, SameBudget DEF QuotaInv

LEMMA QuotaInit == GuardInit => QuotaInv
  <1> SUFFICES ASSUME GuardInit PROVE QuotaInv
    OBVIOUS
  <1>1. \A i \in Attempt : ~Made(i)
    BY DEF GuardInit, NoHold, Made
  <1>2. ASSUME NEW k \in AccountKey, NEW d \in Days PROVE Budget(k, d)
    <2>1. AttemptsOn(k, d) = {} /\ StandingOn(k, d) = {}
      BY <1>1 DEF AttemptsOn, StandingOn, Made
    <2>2. IsFiniteSet({}) /\ Cardinality({}) = 0
      BY FS_EmptySet
    <2>3. count[k][d] = 0 /\ rollbacks[k][d] = 0
      BY DEF GuardInit
    <2> QED
      BY <2>1, <2>2, <2>3, CountType, GuardInitType DEF Budget
  <1> QED
    BY <1>1, <1>2 DEF QuotaInv, DaysInOrder

LEMMA QuotaNext ==
    GuardTypeOK /\ SpacingInv /\ QuotaInv /\ [GuardNext]_guardVars => QuotaInv'
  <1> SUFFICES ASSUME GuardTypeOK, SpacingInv, QuotaInv, [GuardNext]_guardVars
               PROVE  QuotaInv'
    OBVIOUS
  <1>1. CASE Tick \/ Midnight
    BY <1>1, ClockKeepsQuota
  <1>2. ASSUME NEW i \in Attempt, NEW p \in Platform,
               NEW a \in Account \union {NoAccount}, Start(i, p, a)
        PROVE  QuotaInv'
    BY <1>2, StartKeepsQuota
  <1>3. ASSUME NEW i \in Attempt, Release(i) PROVE QuotaInv'
    BY <1>3, ReleaseKeepsQuota
  <1>4. ASSUME NEW i \in Attempt, Keep(i) PROVE QuotaInv'
    BY <1>4, KeepKeepsQuota
  <1>5. ASSUME NEW p \in Platform, NEW a \in Account \union {NoAccount}, EmergencyClear(p, a)
        PROVE  QuotaInv'
    BY <1>5, ClearKeepsQuota
  <1>6. CASE UNCHANGED guardVars
    <2>1. /\ holds' = holds /\ count' = count /\ rollbacks' = rollbacks
          /\ now' = now /\ today' = today
      BY <1>6 DEF guardVars
    <2>2. \A j \in Attempt : SameBooking(j)
      BY <2>1 DEF SameBooking, Made, Standing
    <2> QED
      BY <2>1, <2>2, SameDays, SameBudget DEF QuotaInv, SameBooking
  <1> QED
    BY <1>1, <1>2, <1>3, <1>4, <1>5, <1>6 DEF GuardNext

LEMMA InvImpliesQuota == GuardTypeOK /\ QuotaInv => QuotaBound /\ AttemptsBounded
  <1> SUFFICES ASSUME GuardTypeOK, QuotaInv PROVE QuotaBound /\ AttemptsBounded
    OBVIOUS
  <1>1. ASSUME NEW k \in AccountKey, NEW d \in Days, DailyMax[k[1]] > 0, PlatformMin[k[1]] > 0
        PROVE  Cardinality({i \in AttemptsOn(k, d) : Standing(i)}) <= DailyMax[k[1]]
    <2>1. Budget(k, d) /\ IsFiniteSet(StandingOn(k, d))
      BY FS_Subset DEF QuotaInv, Budget, StandingOn
    <2> QED
      BY <1>1, <2>1, CountType, FS_CardinalityType DEF Budget, StandingOn
  <1>2. ASSUME NEW k \in AccountKey, NEW d \in Days, DailyMax[k[1]] > 0
        PROVE  Cardinality(AttemptsOn(k, d)) <= DailyMax[k[1]] + RollbackCap(k[1])
    <2>1. Budget(k, d) /\ Cardinality(AttemptsOn(k, d)) \in Nat
      BY FS_CardinalityType DEF QuotaInv, Budget
    <2> QED
      BY <1>2, <2>1, CountType DEF Budget
  <1> QED
    BY <1>1, <1>2 DEF QuotaBound, AttemptsBounded

LEMMA QuotaAlways == GuardSpec => [](GuardTypeOK /\ QuotaInv)
  <1>1. GuardInit => GuardTypeOK /\ SpacingInv /\ QuotaInv
    BY GuardInitType, SpacingInit, QuotaInit
  <1>2. GuardTypeOK /\ SpacingInv /\ QuotaInv /\ [GuardNext]_guardVars
            => (GuardTypeOK /\ SpacingInv /\ QuotaInv)'
    BY GuardNextType, SpacingNext, QuotaNext
  <1> QED
    BY <1>1, <1>2, PTL DEF GuardSpec

(* On a platform with an interval, the attempts of one account that stay     *)
(* booked on a day never exceed its quota, although release() refunds the    *)
(* day it runs on (line 394): midnight between a booking and its rollback    *)
(* never buys an extra attempt.                                              *)
THEOREM GuardQuotaBound == GuardSpec => []QuotaBound
  BY QuotaAlways, InvImpliesQuota, PTL

(* Attempt, roll back, refund, attempt again: an account makes at most its   *)
(* quota and the rollback cap of attempts on one day.                        *)
THEOREM GuardAttemptsBounded == GuardSpec => []AttemptsBounded
  BY QuotaAlways, InvImpliesQuota, PTL
=============================================================================
