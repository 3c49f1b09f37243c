---------------------- MODULE PlatformSchedulerProofs ----------------------
(***************************************************************************)
(* Proofs about PlatformScheduler for any records, users and bounds: a     *)
(* record reaches the queue once at most, never after its cancel, and no   *)
(* pending record of the user logged in is forgotten.                      *)
(***************************************************************************)
EXTENDS PlatformScheduler, TLAPS

-----------------------------------------------------------------------------
Unsent == {"none", "pending", "submitted"}

(* What the file, the timers and the operations say of one record. *)
RecordInv(x) ==
    /\ op[x] = "claimed" => disk[x] = "dispatching" /\ sent[x] = 0
    /\ op[x] = "added" => disk[x] = "dispatching"
    /\ disk[x] \in Unsent => sent[x] = 0
    /\ sent[x] <= 1
    /\ x \in timers \/ op[x] \in Waiting \cup {"refused"} => expected[x] \in {"pending", "submitted"}
    /\ x \in timers \/ Active(x) => disk[x] # "none"
Tracked(x) ==
    ~stopped /\ disk[x] = "pending" /\ Mine(x) => x \in timers \/ Active(x) \/ x \in told

SchedInv == SchedTypeOK /\ \A x \in Record : RecordInv(x) /\ Tracked(x)

USE SchedulerAssumption

(* The types of what one step may change, and what it leaves alone. *)
LEMMA ClaimFacts ==
    ASSUME SchedTypeOK, NEW r \in Record, NEW n, NEW d \in [Record -> Status], NEW from,
           Claim(r, n, d, from)
    PROVE  /\ op' \in [Record -> Op] /\ disk' \in [Record -> Status]
           /\ told \subseteq told' /\ told' \subseteq Record /\ fails' \in 0 .. MaxFails
           /\ \A x \in Record \ {r} : op'[x] = op[x] /\ disk'[x] = d[x]
           /\ op'[r] \in {"refused", "claimed"} \cup Waiting
           /\ op'[r] = "claimed" => d[r] = from /\ disk'[r] = "dispatching"
           /\ op'[r] # "claimed" => disk'[r] = d[r]
           /\ op'[r] \in Waiting => d[r] = from
<1> USE DEF SchedTypeOK, Status, Op, Waiting, SchedulerAssumption
<1>1. CASE stopped /\ op' = [op EXCEPT ![r] = "refused"] /\ disk' = d /\ UNCHANGED <<told, fails>>
  BY <1>1
<1>2. CASE /\ ~stopped /\ d[r] = from
           /\ disk' = [d EXCEPT ![r] = "dispatching"] /\ op' = [op EXCEPT ![r] = "claimed"]
           /\ UNCHANGED <<told, fails>>
  BY <1>2
<1>3. CASE /\ ~stopped /\ d[r] # from
           /\ disk' = d /\ op' = [op EXCEPT ![r] = "refused"] /\ UNCHANGED <<told, fails>>
  BY <1>3
<1>4. CASE /\ ~stopped /\ d[r] = from /\ MayFail(1) /\ disk' = d
           /\ IF n = 3 THEN op' = [op EXCEPT ![r] = "refused"] /\ told' = told \cup {r}
              ELSE op' = [op EXCEPT ![r] = IF n = 1 THEN "wait1" ELSE "wait2"] /\ UNCHANGED told
  BY <1>4 DEF MayFail
<1> QED BY <1>1, <1>2, <1>3, <1>4 DEF Claim

LEMMA TryFacts ==
    ASSUME SchedTypeOK, NEW r \in Record, NEW d \in [Record -> Status],
           NEW from, NEW to \in Status, TryStatus(d, r, from, to)
    PROVE  /\ disk' \in [Record -> Status] /\ fails' \in 0 .. MaxFails
           /\ \A x \in Record \ {r} : disk'[x] = d[x]
           /\ disk'[r] = d[r] \/ (d[r] = from /\ disk'[r] = to)
  BY DEF SchedTypeOK, TryStatus, Written, MayFail, SchedulerAssumption

-----------------------------------------------------------------------------
LEMMA InvInit == Init => SchedInv
<1> SUFFICES ASSUME Init PROVE SchedInv
  OBVIOUS
<1>b. MaxFails \in Nat /\ MaxLogins \in Nat /\ MaxRestarts \in Nat
  BY DEF SchedulerAssumption
<1>t. timers \subseteq {r \in Record : ~Active(r)}
  BY DEF Init, Active, SchedulerAssumption
<1>1. SchedTypeOK
  <2>1. identity \in BOOLEAN /\ login \in Owner \cup {Nobody} /\ stopped \in BOOLEAN
    BY DEF Init
  <2>2. /\ disk \in [Record -> Status] /\ op \in [Record -> Op] /\ sent \in [Record -> Nat]
        /\ expected \in [Record -> Status]
    BY DEF Init, Status, Op
  <2>3. due \subseteq Record /\ told \subseteq Record /\ lost \subseteq Record
    BY DEF Init
  <2>4. fails \in 0 .. MaxFails /\ logins \in 0 .. MaxLogins /\ restarts \in 0 .. MaxRestarts
    BY <1>b DEF Init
  <2> QED BY <1>t, <2>1, <2>2, <2>3, <2>4 DEF SchedTypeOK
<1>2. ASSUME NEW x \in Record PROVE RecordInv(x) /\ Tracked(x)
  BY DEF Init, RecordInv, Tracked, Active, Waiting, Unsent, Mine
<1> QED BY <1>1, <1>2 DEF SchedInv

(* A record that a step leaves alone, or prunes. *)
LEMMA Untouched ==
    ASSUME NEW x \in Record, RecordInv(x), Tracked(x), SchedTypeOK,
           op'[x] = op[x], sent'[x] = sent[x], told \subseteq told',
           disk'[x] = disk[x] \/ (disk[x] \in Terminal /\ disk'[x] = "gone"),
           x \in timers' <=> x \in timers, expected'[x] = expected[x],
           UNCHANGED <<identity, login>>, stopped' = stopped
    PROVE  RecordInv(x)' /\ Tracked(x)'
<1>1. Active(x)' <=> Active(x)
  BY DEF Active
<1>2. Mine(x)' <=> Mine(x)
  BY DEF Mine
<1>3. CASE disk'[x] = disk[x]
  BY <1>1, <1>2, <1>3 DEF RecordInv, Tracked
<1>4. CASE disk[x] \in Terminal /\ disk'[x] = "gone"
  BY <1>1, <1>2, <1>4 DEF RecordInv, Tracked, Terminal, Unsent
<1> QED BY <1>3, <1>4

LEMMA CreateKeeps ==
    ASSUME SchedInv, NEW r \in Record, Create(r) PROVE SchedInv'
<1>a. SchedTypeOK /\ \A x \in Record : RecordInv(x) /\ Tracked(x)
  BY DEF SchedInv
<1>b. op[r] = "idle" /\ r \notin timers /\ sent[r] = 0
  BY <1>a DEF Create, RecordInv, Active, Unsent
<1>c. UNCHANGED <<identity, login, due, timers, stopped, sent, lost, logins, restarts>>
  BY DEF Create
<1>1. ASSUME ~stopped, NEW d \in Marked(r), Claim(r, 1, d, "submitted"),
             expected' = [expected EXCEPT ![r] = "submitted"]
      PROVE  SchedInv'
  <2>1. d \in [Record -> Status] /\ d[r] = "submitted"
    BY <1>a DEF Marked, SchedTypeOK, Status
  <2>2. \A x \in Record \ {r} : d[x] = disk[x] \/ (disk[x] \in Terminal /\ d[x] = "gone")
    BY DEF Marked
  <2>c. /\ op' \in [Record -> Op] /\ disk' \in [Record -> Status]
        /\ told \subseteq told' /\ told' \subseteq Record /\ fails' \in 0 .. MaxFails
        /\ \A x \in Record \ {r} : op'[x] = op[x] /\ disk'[x] = d[x]
        /\ op'[r] \in {"refused", "claimed"} \cup Waiting
        /\ op'[r] = "claimed" => d[r] = "submitted" /\ disk'[r] = "dispatching"
        /\ op'[r] # "claimed" => disk'[r] = d[r]
    BY <1>a, <1>1, <2>1, ClaimFacts
  <2>3. SchedTypeOK'
    BY <1>a, <1>b, <1>c, <1>1, <2>c DEF SchedTypeOK, Active, Status
  <2>4. RecordInv(r)' /\ Tracked(r)'
    BY <1>a, <1>b, <1>c, <1>1, <2>1, <2>c DEF SchedTypeOK, RecordInv, Tracked, Active, Unsent, Waiting
  <2>5. ASSUME NEW x \in Record \ {r} PROVE RecordInv(x)' /\ Tracked(x)'
    BY <1>a, <1>c, <1>1, <2>2, <2>c, Untouched DEF SchedTypeOK
  <2> QED BY <2>3, <2>4, <2>5 DEF SchedInv
<1>2. ASSUME \/ TryStatus([disk EXCEPT ![r] = "submitted"], r, "submitted", "failed") /\ stopped
             \/ (disk' = [disk EXCEPT ![r] = "failed"] /\ MayFail(1))
             \/ (disk' = [disk EXCEPT ![r] = "pending"] /\ MayFail(2)),
             told' = told \cup {r}, UNCHANGED <<op, expected>>
      PROVE  SchedInv'
  <2>1. /\ disk' \in [Record -> Status] /\ fails' \in 0 .. MaxFails
        /\ \A x \in Record \ {r} : disk'[x] = disk[x]
        /\ disk'[r] \in {"submitted", "failed", "pending"}
    <3>1. CASE TryStatus([disk EXCEPT ![r] = "submitted"], r, "submitted", "failed")
      <4> DEFINE d == [disk EXCEPT ![r] = "submitted"]
      <4>1. d \in [Record -> Status] /\ "failed" \in Status /\ d[r] = "submitted"
            /\ \A x \in Record \ {r} : d[x] = disk[x]
        BY <1>a DEF SchedTypeOK, Status
      <4> HIDE DEF d
      <4>2. TryStatus(d, r, "submitted", "failed")
        BY <3>1 DEF d
      <4> QED BY <1>a, <4>1, <4>2, TryFacts
    <3>2. CASE disk' = [disk EXCEPT ![r] = "failed"] /\ MayFail(1)
      BY <1>a, <3>2 DEF SchedTypeOK, Status, MayFail, SchedulerAssumption
    <3>3. CASE disk' = [disk EXCEPT ![r] = "pending"] /\ MayFail(2)
      BY <1>a, <3>3 DEF SchedTypeOK, Status, MayFail, SchedulerAssumption
    <3> QED BY <1>2, <3>1, <3>2, <3>3
  <2>2. SchedTypeOK'
    BY <1>a, <1>c, <1>2, <2>1 DEF SchedTypeOK, Active
  <2>3. RecordInv(r)' /\ Tracked(r)'
    BY <1>a, <1>b, <1>c, <1>2, <2>1 DEF RecordInv, Tracked, Active, Waiting
  <2>4. ASSUME NEW x \in Record \ {r} PROVE RecordInv(x)' /\ Tracked(x)'
    BY <1>a, <1>c, <1>2, <2>1, Untouched
  <2> QED BY <2>2, <2>3, <2>4 DEF SchedInv
<1> QED BY <1>1, <1>2 DEF Create

(* The steps of a dispatch operation. *)
LEMMA FireKeeps ==
    ASSUME SchedInv, NEW r \in Record, Fire(r) PROVE SchedInv'
<1>a. SchedTypeOK /\ \A x \in Record : RecordInv(x) /\ Tracked(x)
  BY DEF SchedInv
<1>b. op[r] = "idle" /\ expected[r] \in {"pending", "submitted"} /\ disk[r] # "none"
  BY <1>a DEF Fire, SchedTypeOK, RecordInv, Active
<1>c. /\ UNCHANGED <<identity, login, due, expected, stopped, sent, lost, logins, restarts>>
      /\ timers' = timers \ {r}
  BY DEF Fire
<1>1. CASE Mine(r) /\ ~stopped
  <2>c. /\ op' \in [Record -> Op] /\ disk' \in [Record -> Status]
        /\ told \subseteq told' /\ told' \subseteq Record /\ fails' \in 0 .. MaxFails
        /\ \A x \in Record \ {r} : op'[x] = op[x] /\ disk'[x] = disk[x]
        /\ op'[r] \in {"refused", "claimed"} \cup Waiting
        /\ op'[r] = "claimed" => disk[r] = expected[r] /\ disk'[r] = "dispatching"
        /\ op'[r] # "claimed" => disk'[r] = disk[r]
    <3>1. disk \in [Record -> Status] /\ Claim(r, 1, disk, expected[r])
      BY <1>1, <1>a DEF Fire, SchedTypeOK
    <3> QED BY <1>a, <3>1, ClaimFacts
  <2>1. SchedTypeOK'
    <3>1. (timers \subseteq {x \in Record : ~Active(x)})'
      BY <1>a, <1>c, <2>c DEF SchedTypeOK, Active
    <3> QED BY <1>a, <1>c, <2>c, <3>1 DEF SchedTypeOK
  <2>2. RecordInv(r)' /\ Tracked(r)'
    <3>1. Active(r)' /\ r \notin timers' /\ op'[r] # "added"
      BY <1>c, <2>c DEF Active, Waiting
    <3>2. /\ sent'[r] = sent[r]
          /\ sent[r] <= 1
          /\ disk[r] \in Unsent => sent[r] = 0
      BY <1>a, <1>c DEF RecordInv
    <3>3. op'[r] = "claimed" => sent[r] = 0
      BY <1>b, <2>c, <3>2 DEF Unsent
    <3>4. RecordInv(r)'
      BY <1>b, <1>c, <2>c, <3>1, <3>2, <3>3 DEF RecordInv, Unsent, Waiting, Active
    <3> QED BY <3>1, <3>4 DEF Tracked
  <2>3. ASSUME NEW x \in Record \ {r} PROVE RecordInv(x)' /\ Tracked(x)'
    BY <1>a, <1>c, <2>c, Untouched
  <2> QED BY <2>1, <2>2, <2>3 DEF SchedInv
<1>2. CASE ~(Mine(r) /\ ~stopped)
  <2>1. UNCHANGED <<disk, op, told, fails>>
    BY <1>2 DEF Fire
  <2>2. SchedTypeOK'
    BY <1>a, <1>c, <2>1 DEF SchedTypeOK, Active
  <2>3. RecordInv(r)' /\ Tracked(r)'
    BY <1>2, <1>a, <1>b, <1>c, <2>1 DEF RecordInv, Tracked, Active, Waiting, Mine
  <2>4. ASSUME NEW x \in Record \ {r} PROVE RecordInv(x)' /\ Tracked(x)'
    BY <1>a, <1>c, <2>1, Untouched
  <2> QED BY <2>2, <2>3, <2>4 DEF SchedInv
<1> QED BY <1>1, <1>2

LEMMA RetryKeeps ==
    ASSUME SchedInv, NEW r \in Record, Retry(r) PROVE SchedInv'
<1>a. SchedTypeOK /\ \A x \in Record : RecordInv(x) /\ Tracked(x)
  BY DEF SchedInv
<1>b. Active(r) /\ r \notin timers /\ expected[r] \in {"pending", "submitted"}
  BY <1>a DEF Retry, SchedTypeOK, RecordInv, Active, Waiting
<1>c. UNCHANGED <<identity, login, due, timers, expected, stopped, sent, lost, logins, restarts>>
  BY DEF Retry
<1>d. /\ op' \in [Record -> Op] /\ disk' \in [Record -> Status]
      /\ told \subseteq told' /\ told' \subseteq Record /\ fails' \in 0 .. MaxFails
      /\ \A x \in Record \ {r} : op'[x] = op[x] /\ disk'[x] = disk[x]
      /\ op'[r] \in {"refused", "claimed"} \cup Waiting
      /\ op'[r] = "claimed" => disk[r] = expected[r] /\ disk'[r] = "dispatching"
      /\ op'[r] # "claimed" => disk'[r] = disk[r]
  <2> DEFINE n == IF op[r] = "wait1" THEN 2 ELSE 3
  <2>1. disk \in [Record -> Status] /\ Claim(r, n, disk, expected[r])
    BY <1>a DEF Retry, SchedTypeOK
  <2> HIDE DEF n
  <2> QED BY <1>a, <2>1, ClaimFacts
<1>1. SchedTypeOK'
  BY <1>a, <1>b, <1>c, <1>d DEF SchedTypeOK, Active
<1>2. RecordInv(r)' /\ Tracked(r)'
  BY <1>a, <1>b, <1>c, <1>d DEF SchedTypeOK, RecordInv, Tracked, Active, Unsent, Waiting
<1>3. ASSUME NEW x \in Record \ {r} PROVE RecordInv(x)' /\ Tracked(x)'
  BY <1>a, <1>c, <1>d, Untouched
<1> QED BY <1>1, <1>2, <1>3 DEF SchedInv

LEMMA RefuseKeeps ==
    ASSUME SchedInv, NEW r \in Record, Refuse(r) PROVE SchedInv'
<1>a. SchedTypeOK /\ \A x \in Record : RecordInv(x) /\ Tracked(x)
  BY DEF SchedInv
<1>b. Active(r) /\ r \notin timers /\ disk[r] # "none"
  BY <1>a DEF Refuse, SchedTypeOK, RecordInv, Active
<1>c. /\ UNCHANGED <<identity, login, due, timers, expected, stopped, sent, lost, logins, restarts>>
      /\ op' = [op EXCEPT ![r] = "idle"]
  BY DEF Refuse, Over
<1>d. /\ disk' \in [Record -> Status] /\ fails' \in 0 .. MaxFails
      /\ \A x \in Record \ {r} : disk'[x] = disk[x]
      /\ disk'[r] = disk[r] \/ disk'[r] = "failed"
      /\ told' = told \/ told' = told \cup {r}
      /\ stopped \/ r \in told'
  <2>1. CASE stopped
    BY <1>a, <2>1 DEF Refuse, SchedTypeOK
  <2>2. CASE ~stopped
    <3>1. TryStatus(disk, r, expected[r], "failed") /\ told' = told \cup {r}
      BY <2>2 DEF Refuse
    <3>2. disk \in [Record -> Status] /\ "failed" \in Status
      BY <1>a DEF SchedTypeOK, Status
    <3> QED BY <1>a, <3>1, <3>2, TryFacts
  <2> QED BY <2>1, <2>2
<1>1. SchedTypeOK'
  <2>1. op' \in [Record -> Op] /\ told' \subseteq Record
    BY <1>a, <1>c, <1>d DEF SchedTypeOK, Op
  <2>2. (timers \subseteq {x \in Record : ~Active(x)})'
    BY <1>a, <1>b, <1>c DEF SchedTypeOK, Active
  <2> QED BY <1>a, <1>c, <1>d, <2>1, <2>2 DEF SchedTypeOK
<1>2. RecordInv(r)' /\ Tracked(r)'
  BY <1>a, <1>b, <1>c, <1>d DEF SchedTypeOK, RecordInv, Tracked, Active, Unsent, Waiting
<1>3. ASSUME NEW x \in Record \ {r} PROVE RecordInv(x)' /\ Tracked(x)'
  BY <1>a, <1>c, <1>d, Untouched DEF SchedTypeOK
<1> QED BY <1>1, <1>2, <1>3 DEF SchedInv

LEMMA SubmitKeeps ==
    ASSUME SchedInv, NEW r \in Record, Submit(r) PROVE SchedInv'
<1>a. SchedTypeOK /\ \A x \in Record : RecordInv(x) /\ Tracked(x)
  BY DEF SchedInv
<1>b. op[r] = "claimed" /\ r \notin timers /\ disk[r] = "dispatching" /\ sent[r] = 0
  BY <1>a DEF Submit, SchedTypeOK, RecordInv, Active
<1>c. UNCHANGED <<identity, login, due, timers, expected, stopped, logins, restarts>>
  BY DEF Submit
<1>d. /\ disk' \in [Record -> Status] /\ fails' \in 0 .. MaxFails
      /\ sent' \in [Record -> Nat] /\ told' \subseteq Record /\ lost' \subseteq Record
      /\ told \subseteq told'
      /\ \A x \in Record \ {r} : disk'[x] = disk[x] /\ sent'[x] = sent[x]
      /\ \/ /\ op' = [op EXCEPT ![r] = "idle"] /\ sent' = sent
            /\ disk'[r] \in {"dispatching", "submitted", "failed"}
         \/ /\ op' = [op EXCEPT ![r] = "added"] /\ sent'[r] = 1 /\ disk' = disk
  <2>t. disk \in [Record -> Status] /\ "failed" \in Status /\ "submitted" \in Status
    BY <1>a DEF SchedTypeOK, Status
  <2>1. CASE stopped /\ op' = Over(r) /\ UNCHANGED <<disk, told, lost, sent, fails>>
    BY <1>a, <1>b, <2>1 DEF SchedTypeOK, Over
  <2>2. CASE /\ op' = Over(r) /\ lost' = lost \cup {r}
             /\ TryStatus(disk, r, "dispatching", "submitted") /\ UNCHANGED <<told, sent>>
    <3>1. /\ disk' \in [Record -> Status] /\ fails' \in 0 .. MaxFails
          /\ \A x \in Record \ {r} : disk'[x] = disk[x]
          /\ disk'[r] = disk[r] \/ disk'[r] = "submitted"
      BY <1>a, <2>t, <2>2, TryFacts
    <3> QED BY <1>a, <1>b, <2>2, <3>1 DEF SchedTypeOK, Over
  <2>3. CASE /\ op' = [op EXCEPT ![r] = "added"]
             /\ sent' = [sent EXCEPT ![r] = @ + 1] /\ UNCHANGED <<disk, told, lost, fails>>
    BY <1>a, <1>b, <2>3 DEF SchedTypeOK
  <2>4. CASE /\ op' = Over(r) /\ told' = told \cup {r}
             /\ TryStatus(disk, r, "dispatching", "failed") /\ UNCHANGED <<sent, lost>>
    <3>1. /\ disk' \in [Record -> Status] /\ fails' \in 0 .. MaxFails
          /\ \A x \in Record \ {r} : disk'[x] = disk[x]
          /\ disk'[r] = disk[r] \/ disk'[r] = "failed"
      BY <1>a, <2>t, <2>4, TryFacts
    <3> QED BY <1>a, <1>b, <2>4, <3>1 DEF SchedTypeOK, Over
  <2> QED BY <2>1, <2>2, <2>3, <2>4 DEF Submit
<1>1. SchedTypeOK'
  <2>1. op' \in [Record -> Op]
    BY <1>a, <1>d DEF SchedTypeOK, Op
  <2>2. (timers \subseteq {x \in Record : ~Active(x)})'
    BY <1>a, <1>b, <1>c, <1>d DEF SchedTypeOK, Active
  <2> QED BY <1>a, <1>c, <1>d, <2>1, <2>2 DEF SchedTypeOK
<1>2. RecordInv(r)' /\ Tracked(r)'
  BY <1>a, <1>b, <1>c, <1>d DEF SchedTypeOK, RecordInv, Tracked, Active, Unsent, Waiting
<1>3. ASSUME NEW x \in Record \ {r} PROVE RecordInv(x)' /\ Tracked(x)'
  <2>1. op'[x] = op[x]
    BY <1>a, <1>d DEF SchedTypeOK
  <2> QED BY <1>a, <1>c, <1>d, <2>1, Untouched
<1> QED BY <1>1, <1>2, <1>3 DEF SchedInv

LEMMA FinishKeeps ==
    ASSUME SchedInv, NEW r \in Record, Finish(r) PROVE SchedInv'
<1>a. SchedTypeOK /\ \A x \in Record : RecordInv(x) /\ Tracked(x)
  BY DEF SchedInv
<1>b. Active(r) /\ r \notin timers /\ disk[r] = "dispatching"
  BY <1>a DEF Finish, SchedTypeOK, RecordInv, Active
<1>c. /\ UNCHANGED <<identity, login, due, timers, expected, stopped, sent, lost, logins, restarts>>
      /\ op' = [op EXCEPT ![r] = "idle"]
  BY DEF Finish, Over
<1>d. /\ disk' \in [Record -> Status] /\ fails' \in 0 .. MaxFails
      /\ \A x \in Record \ {r} : disk'[x] = disk[x]
      /\ disk'[r] \in {"dispatching", "executed", "failed"}
      /\ told \subseteq told' /\ told' \subseteq Record
  BY <1>a, <1>b DEF Finish, SchedTypeOK, Status, Written, MayFail, SchedulerAssumption
<1>1. SchedTypeOK'
  <2>1. op' \in [Record -> Op]
    BY <1>a, <1>c DEF SchedTypeOK, Op
  <2>2. (timers \subseteq {x \in Record : ~Active(x)})'
    BY <1>a, <1>b, <1>c DEF SchedTypeOK, Active
  <2> QED BY <1>a, <1>c, <1>d, <2>1, <2>2 DEF SchedTypeOK
<1>2. RecordInv(r)' /\ Tracked(r)'
  BY <1>a, <1>b, <1>c, <1>d DEF SchedTypeOK, RecordInv, Tracked, Active, Unsent, Waiting
<1>3. ASSUME NEW x \in Record \ {r} PROVE RecordInv(x)' /\ Tracked(x)'
  BY <1>a, <1>c, <1>d, Untouched DEF SchedTypeOK
<1> QED BY <1>1, <1>2, <1>3 DEF SchedInv

LEMMA CancelKeeps ==
    ASSUME SchedInv, NEW r \in Record, Cancel(r) PROVE SchedInv'
<1>a. SchedTypeOK /\ \A x \in Record : RecordInv(x) /\ Tracked(x)
  BY DEF SchedInv
<1>b. ~Active(r) /\ disk' = [disk EXCEPT ![r] = "cancelled"] /\ timers' = timers \ {r}
  BY DEF Cancel
<1>c. UNCHANGED <<identity, login, due, op, expected, stopped, sent, told, lost, fails, logins, restarts>>
  BY DEF Cancel, bounds
<1>1. SchedTypeOK'
  <2>1. disk' \in [Record -> Status]
    BY <1>a, <1>b DEF SchedTypeOK, Status
  <2>2. (timers \subseteq {x \in Record : ~Active(x)})'
    BY <1>a, <1>b, <1>c DEF SchedTypeOK, Active
  <2> QED BY <1>a, <1>c, <2>1, <2>2 DEF SchedTypeOK
<1>2. RecordInv(r)' /\ Tracked(r)'
  BY <1>a, <1>b, <1>c DEF SchedTypeOK, RecordInv, Tracked, Active, Unsent, Waiting
<1>3. ASSUME NEW x \in Record \ {r} PROVE RecordInv(x)' /\ Tracked(x)'
  BY <1>a, <1>b, <1>c, Untouched DEF SchedTypeOK
<1> QED BY <1>1, <1>2, <1>3 DEF SchedInv

(* The steps about all records: timers are set only for records that are   *)
(* pending in the file and have no operation.                              *)
LEMMA ArmsPending ==
    ASSUME SchedInv, NEW S, NEW others \in SUBSET timers, Arm(S, others),
           S \subseteq {x \in Record : disk[x] = "pending"}
    PROVE  /\ timers' \subseteq Record /\ expected' \in [Record -> Status]
           /\ \A x \in timers' : disk[x] # "none" /\ expected'[x] \in {"pending", "submitted"}
           /\ \A x \in Record : x \notin S => expected'[x] = expected[x]
  BY DEF Arm, SchedInv, SchedTypeOK, RecordInv, Status

LEMMA LoginKeeps ==
    ASSUME SchedInv, NEW who \in Owner \cup {Nobody}, Login(who) PROVE SchedInv'
<1>a. SchedTypeOK /\ \A x \in Record : RecordInv(x) /\ Tracked(x)
  BY DEF SchedInv
<1> DEFINE tracked == timers \cup {r \in Record : Active(r)}
           S == IF who = Nobody \/ stopped THEN {} ELSE ToArm(who, tracked)
<1>b. S \subseteq {x \in Record : disk[x] = "pending" /\ x \notin tracked}
  BY DEF ToArm, Restored
<1>c. /\ identity /\ login' = who /\ logins' \in 0 .. MaxLogins /\ timers' = timers \cup S
      /\ UNCHANGED <<identity, disk, due, op, stopped, sent, told, lost, fails, restarts>>
  BY <1>a DEF Login, Arm, SchedTypeOK, SchedulerAssumption
<1>d. /\ timers' \subseteq Record /\ expected' \in [Record -> Status]
      /\ \A x \in timers' : disk[x] # "none" /\ expected'[x] \in {"pending", "submitted"}
      /\ \A x \in Record : x \notin S => expected'[x] = expected[x]
  <2>1. Arm(S, timers)
    BY DEF Login
  <2> HIDE DEF S
  <2> QED BY <1>b, <2>1, ArmsPending
<1>1. SchedTypeOK'
  <2>2. (timers \subseteq {x \in Record : ~Active(x)})'
    BY <1>a, <1>b, <1>c DEF SchedTypeOK, Active
  <2> QED BY <1>a, <1>c, <1>d, <2>2 DEF SchedTypeOK
<1>2. ASSUME NEW x \in Record PROVE RecordInv(x)' /\ Tracked(x)'
  <2>1. RecordInv(x)'
    <3>1. op[x] \in Waiting => x \notin S
      BY <1>b DEF Active, Waiting
    <3> HIDE DEF S
    <3> QED BY <1>a, <1>c, <1>d, <3>1 DEF RecordInv, Active
  <2>2. Tracked(x)'
    <3> SUFFICES ASSUME ~stopped, disk[x] = "pending", OwnerOf[x] = who
                 PROVE  x \in timers' \/ Active(x)
      BY <1>c DEF Tracked, Mine, Active
    <3>1. who # Nobody
      BY DEF SchedulerAssumption
    <3>2. x \in tracked \/ x \in S
      BY <3>1 DEF ToArm, Restored
    <3> QED BY <1>c, <3>2
  <2> QED BY <2>1, <2>2
<1> QED BY <1>1, <1>2 DEF SchedInv

LEMMA RearmKeeps ==
    ASSUME SchedInv, Rearm PROVE SchedInv'
<1>a. SchedTypeOK /\ \A x \in Record : RecordInv(x) /\ Tracked(x)
  BY DEF SchedInv
<1> DEFINE S == ToArm(login, {r \in Record : Active(r)})
<1>b. S = {x \in Record : disk[x] = "pending" /\ ~Active(x)}
  BY DEF ToArm, Restored, Rearm
<1>c. /\ timers' = S
      /\ UNCHANGED <<identity, login, disk, due, stopped, sent, told, lost, fails, logins, restarts>>
  BY DEF Rearm, Arm, bounds
<1>d. /\ timers' \subseteq Record /\ expected' \in [Record -> Status]
      /\ \A x \in timers' : disk[x] # "none" /\ expected'[x] \in {"pending", "submitted"}
  <2>1. Arm(S, {})
    BY DEF Rearm
  <2> HIDE DEF S
  <2> QED BY <1>b, <2>1, ArmsPending
<1>e. /\ op' \in [Record -> Op]
      /\ \A x \in Record : op'[x] = IF op[x] \in Waiting THEN "refused" ELSE op[x]
  BY <1>a DEF Rearm, Woken, SchedTypeOK, Op
<1>f. \A x \in Record : Active(x) => expected'[x] = expected[x]
  BY <1>b DEF Rearm, Arm
<1>1. SchedTypeOK'
  <2>2. (timers \subseteq {x \in Record : ~Active(x)})'
    BY <1>b, <1>c, <1>e DEF Active, Waiting
  <2> QED BY <1>a, <1>c, <1>d, <1>e, <2>2 DEF SchedTypeOK
<1>2. ASSUME NEW x \in Record PROVE RecordInv(x)' /\ Tracked(x)'
  <2>1. RecordInv(x)'
    <3>1. op'[x] \in Waiting \cup {"refused"} => op[x] \in Waiting \cup {"refused"} /\ Active(x)
      BY <1>e DEF Active, Waiting
    <3> QED BY <1>a, <1>c, <1>d, <1>e, <1>f, <3>1 DEF RecordInv, Active, Waiting, Unsent
  <2>2. Tracked(x)'
    BY <1>b, <1>c, <1>e DEF Tracked, Active, Waiting
  <2> QED BY <2>1, <2>2
<1> QED BY <1>1, <1>2 DEF SchedInv

LEMMA StopKeeps ==
    ASSUME SchedInv, StopAll PROVE SchedInv'
<1>a. SchedTypeOK /\ \A x \in Record : RecordInv(x)
  BY DEF SchedInv
<1>c. /\ timers' = {} /\ stopped' = TRUE /\ lost' \subseteq Record
      /\ UNCHANGED <<identity, login, disk, due, expected, sent, told, fails, logins, restarts>>
  BY <1>a DEF StopAll, bounds, SchedTypeOK
<1>e. /\ op' \in [Record -> Op]
      /\ \A x \in Record : op'[x] = IF op[x] \in Waiting THEN "refused" ELSE op[x]
  BY <1>a DEF StopAll, Woken, SchedTypeOK, Op
<1>1. SchedTypeOK'
  BY <1>a, <1>c, <1>e DEF SchedTypeOK
<1>2. ASSUME NEW x \in Record PROVE RecordInv(x)' /\ Tracked(x)'
  <2>1. RecordInv(x)'
    BY <1>a, <1>c, <1>e DEF RecordInv, Active, Waiting, Unsent
  <2>2. Tracked(x)'
    BY <1>c DEF Tracked
  <2> QED BY <2>1, <2>2
<1> QED BY <1>1, <1>2 DEF SchedInv

LEMMA RestartKeepsInv ==
    ASSUME SchedInv, NEW who \in Owner \cup {Nobody}, Restart(who) PROVE SchedInv'
<1>a. SchedTypeOK /\ \A x \in Record : RecordInv(x) /\ Tracked(x)
  BY DEF SchedInv
<1> DEFINE S == IF identity /\ who = Nobody THEN {} ELSE ToArm(who, {})
<1>b. S \subseteq {x \in Record : disk[x] = "pending"}
  BY DEF ToArm, Restored
<1>c. /\ login' = who /\ restarts' \in 0 .. MaxRestarts /\ timers' = S /\ stopped' = FALSE
      /\ op' = [r \in Record |-> "idle"] /\ lost' \subseteq Record
      /\ UNCHANGED <<identity, disk, due, sent, told, fails, logins>>
  BY <1>a DEF Restart, Arm, SchedTypeOK, SchedulerAssumption
<1>d. /\ timers' \subseteq Record /\ expected' \in [Record -> Status]
      /\ \A x \in timers' : disk[x] # "none" /\ expected'[x] \in {"pending", "submitted"}
  <2>1. Arm(S, {})
    BY DEF Restart
  <2> HIDE DEF S
  <2> QED BY <1>b, <2>1, ArmsPending
<1>1. SchedTypeOK'
  <2>1. (timers \subseteq {x \in Record : ~Active(x)})' /\ op' \in [Record -> Op]
    BY <1>c, <1>d DEF Active, Op
  <2>2. stopped' \in BOOLEAN
    BY <1>c
  <2> QED BY <1>a, <1>c, <1>d, <2>1, <2>2 DEF SchedTypeOK
<1>2. ASSUME NEW x \in Record PROVE RecordInv(x)' /\ Tracked(x)'
  <2>1. RecordInv(x)'
    <3> HIDE DEF S
    <3> QED BY <1>a, <1>c, <1>d DEF RecordInv, Active, Waiting, Unsent
  <2>2. Tracked(x)'
    <3> SUFFICES ASSUME disk[x] = "pending", identity => who = OwnerOf[x] PROVE x \in timers'
      BY <1>c DEF Tracked, Mine
    <3> QED BY <1>c DEF ToArm, Restored, SchedulerAssumption
  <2> QED BY <2>1, <2>2
<1> QED BY <1>1, <1>2 DEF SchedInv

-----------------------------------------------------------------------------
LEMMA StepKeepsInv == SchedInv /\ [Next]_schedVars => SchedInv'
<1> SUFFICES ASSUME SchedInv, [Next]_schedVars PROVE SchedInv'
  OBVIOUS
<1>1. ASSUME NEW r \in Record, Create(r) PROVE SchedInv'
  BY <1>1, CreateKeeps
<1>2. ASSUME NEW r \in Record, Fire(r) \/ Retry(r) \/ Refuse(r) \/ Submit(r) \/ Finish(r) \/ Cancel(r)
      PROVE  SchedInv'
  BY <1>2, FireKeeps, RetryKeeps, RefuseKeeps, SubmitKeeps, FinishKeeps, CancelKeeps
<1>3. ASSUME NEW r \in Record, TimePasses(r) PROVE SchedInv'
  <2>1. due' \subseteq Record
    BY <1>3 DEF TimePasses, SchedInv, SchedTypeOK
  <2>2. UNCHANGED <<identity, login, disk, timers, op, expected, stopped, sent, told, lost,
                    fails, logins, restarts>>
    BY <1>3 DEF TimePasses, bounds
  <2> QED BY <2>1, <2>2 DEF SchedInv, SchedTypeOK, RecordInv, Tracked, Active, Mine
<1>4. ASSUME NEW who \in Owner \cup {Nobody}, Login(who) \/ Restart(who) PROVE SchedInv'
  BY <1>4, LoginKeeps, RestartKeepsInv
<1>5. CASE Rearm \/ StopAll
  BY <1>5, RearmKeeps, StopKeeps
<1>6. CASE UNCHANGED schedVars
  BY <1>6 DEF schedVars, SchedInv, SchedTypeOK, RecordInv, Tracked, Active, Mine
<1> QED BY <1>1, <1>2, <1>3, <1>4, <1>5, <1>6 DEF Next

LEMMA InvAlways == SchedSpec => []SchedInv
  BY InvInit, StepKeepsInv, PTL DEF SchedSpec

(* The file, the timers and the operations are of their types, and no      *)
(* record has a timer while its operation runs, in any reachable state.    *)
THEOREM SchedTypeCorrect == SchedSpec => []SchedTypeOK
<1>1. SchedInv => SchedTypeOK
  BY DEF SchedInv
<1> QED BY <1>1, InvAlways, PTL

(* A record reaches the queue, and so the platform, once at most, whatever *)
(* writes fail and wherever the process is cut off and started again.      *)
THEOREM RecordSentOnce == SchedSpec => []SentOnce
<1>1. SchedInv => SentOnce
  BY DEF SchedInv, SentOnce, RecordInv
<1> QED BY <1>1, InvAlways, PTL

(* A record still pending whose owner is logged in has a timer or an       *)
(* operation, or its failure was reported: no login, wake-up or start      *)
(* passes it over.                                                         *)
THEOREM PendingIsTracked == SchedSpec => []PendingTracked
<1>1. SchedInv => PendingTracked
  BY DEF SchedInv, PendingTracked, Tracked
<1> QED BY <1>1, InvAlways, PTL

(* One step and a cancelled record: a cancel is refused while an operation *)
(* runs, no claim starts from 'cancelled', and outcomes are written only   *)
(* over the status the operation left.                                     *)
LEMMA StepKeepsCancelled ==
    ASSUME SchedInv, Next, NEW x \in Record, disk[x] = "cancelled"
    PROVE  sent'[x] = sent[x] /\ disk'[x] \in {"cancelled", "gone"}
<1>0. SchedTypeOK /\ RecordInv(x) /\ disk \in [Record -> Status]
  BY DEF SchedInv, SchedTypeOK
<1>1. ASSUME NEW r \in Record, Create(r) PROVE sent'[x] = sent[x] /\ disk'[x] \in {"cancelled", "gone"}
  <2>0. r # x /\ sent' = sent
    BY <1>1 DEF Create
  <2>1. CASE \E d \in Marked(r) : Claim(r, 1, d, "submitted")
    <3>1. PICK d \in Marked(r) : Claim(r, 1, d, "submitted")
      BY <2>1
    <3>2. d \in [Record -> Status] /\ d[x] \in {"cancelled", "gone"}
      BY <1>0, <2>0 DEF Marked, Status
    <3>3. disk'[x] = d[x]
      BY <1>0, <2>0, <3>1, <3>2, ClaimFacts
    <3> QED BY <2>0, <3>2, <3>3
  <2>2. CASE TryStatus([disk EXCEPT ![r] = "submitted"], r, "submitted", "failed")
    <3>1. [disk EXCEPT ![r] = "submitted"] \in [Record -> Status] /\ "failed" \in Status
      BY <1>0 DEF Status
    <3>2. disk'[x] = [disk EXCEPT ![r] = "submitted"][x]
      BY <1>0, <2>0, <2>2, <3>1, TryFacts
    <3> QED BY <1>0, <2>0, <3>2
  <2>3. CASE disk' = [disk EXCEPT ![r] = "failed"] \/ disk' = [disk EXCEPT ![r] = "pending"]
    BY <1>0, <2>0, <2>3
  <2> QED BY <1>1, <2>1, <2>2, <2>3 DEF Create
<1>2. ASSUME NEW r \in Record, Fire(r) \/ Retry(r)
      PROVE  sent'[x] = sent[x] /\ disk'[x] \in {"cancelled", "gone"}
  <2>1. sent' = sent /\ (disk' = disk \/ \E n \in 1 .. 3 : Claim(r, n, disk, expected[r]))
    BY <1>2 DEF Fire, Retry
  <2>2. r = x => expected[r] # "cancelled"
    BY <1>0, <1>2 DEF RecordInv, Fire, Retry
  <2>3. ASSUME NEW n \in 1 .. 3, Claim(r, n, disk, expected[r]) PROVE disk'[x] = disk[x]
    <3>1. /\ \A y \in Record \ {r} : disk'[y] = disk[y]
          /\ op'[r] = "claimed" => disk[r] = expected[r]
          /\ op'[r] # "claimed" => disk'[r] = disk[r]
      BY <1>0, <2>3, ClaimFacts
    <3> QED BY <2>2, <3>1
  <2> QED BY <2>1, <2>3
<1>3. ASSUME NEW r \in Record, Refuse(r) PROVE sent'[x] = sent[x] /\ disk'[x] \in {"cancelled", "gone"}
  <2>1. sent' = sent /\ (disk' = disk \/ TryStatus(disk, r, expected[r], "failed"))
    BY <1>3 DEF Refuse
  <2>2. r = x => expected[r] # "cancelled"
    BY <1>0, <1>3 DEF RecordInv, Refuse
  <2>3. CASE TryStatus(disk, r, expected[r], "failed")
    BY <1>0, <2>1, <2>2, <2>3 DEF TryStatus, Written
  <2> QED BY <2>1, <2>3
<1>4. ASSUME NEW r \in Record, Submit(r) PROVE sent'[x] = sent[x] /\ disk'[x] \in {"cancelled", "gone"}
  <2>1. r # x
    BY <1>0, <1>4 DEF Submit, RecordInv
  <2>2. sent'[x] = sent[x]
    BY <1>0, <1>4, <2>1 DEF Submit, SchedTypeOK
  <2>3. disk'[x] = disk[x]
    BY <1>0, <1>4, <2>1 DEF Submit, TryStatus, Written
  <2> QED BY <2>2, <2>3
<1>5. ASSUME NEW r \in Record, Finish(r) \/ Cancel(r) \/ TimePasses(r)
      PROVE  sent'[x] = sent[x] /\ disk'[x] \in {"cancelled", "gone"}
  BY <1>0, <1>5 DEF Finish, Cancel, TimePasses, RecordInv, Written
<1>6. ASSUME NEW who \in Owner \cup {Nobody}, Login(who) \/ Restart(who)
      PROVE  sent'[x] = sent[x] /\ disk'[x] \in {"cancelled", "gone"}
  BY <1>6 DEF Login, Restart
<1>7. CASE Rearm \/ StopAll
  BY <1>7 DEF Rearm, StopAll
<1> QED BY <1>1, <1>2, <1>3, <1>4, <1>5, <1>6, <1>7 DEF Next

(* What was cancelled stays cancelled and is never handed to the queue.    *)
THEOREM CancelledStays == SchedSpec => CancelledNotSent
<1>1. SchedInv /\ [Next]_schedVars =>
        [\A r \in Record : disk[r] = "cancelled" =>
            sent'[r] = sent[r] /\ disk'[r] \in {"cancelled", "gone"}]_schedVars
  BY StepKeepsCancelled
<1> QED BY <1>1, InvAlways, PTL DEF SchedSpec, CancelledNotSent
=============================================================================
