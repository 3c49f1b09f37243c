------------------------ MODULE PipelineEngineProofs ------------------------
(***************************************************************************)
(* Proofs about PipelineEngine for any runs, stages, pauses and budgets.   *)
(***************************************************************************)
EXTENDS PipelineEngine, TLAPS

Gate == {"scene_asset_selection", "cost_confirm"}

(* The gates before stage n are confirmed in sure, for a run that has any. *)
Passed(r, n, sure) == r \notin Batch => \A s \in 0 .. n - 1 : Kind[s] \in Gate => s \in sure

Idle(o) == \A c \in Call : o.fly[c] = 0

(* What an object, a history entry and a snapshot say of the work done:    *)
(* the stages before the present one have run and their gates were passed; *)
(* at a pause that a stage asked for, this stage has run too.              *)
Reached(r, n) ==
    /\ 0 .. n.stage - 1 \subseteq n.out /\ Passed(r, n.stage, n.sure)
    /\ n.ck \in Pause \ {"manual_pause"} => n.stage \in n.out
    /\ n.ck = "stage" => Kind[n.stage] = "stage"

(* An executor was called with everything before its stage done.           *)
Called(r, o) ==
    \A c \in Call : o.fly[c] > 0 =>
        /\ 0 .. c[1] - 1 \subseteq o.out /\ Passed(r, c[1], o.sure)
        /\ c[2] => c[1] \in o.sure

(* One executor at most works for an object, on its present stage.         *)
OneCall(o) ==
    \A c \in Call : o.fly[c] > 0 =>
        c[1] = o.stage /\ o.fly[c] = 1 /\ \A d \in Call : o.fly[d] > 0 => d = c

(* What holds of every object of a run that no call has forced.            *)
Works(r, o) == Reached(r, o) /\ Called(r, o) /\ OneCall(o)

(* What holds of every object: past its last stage only one that ended, or *)
(* one resumed there, has no executor and no pause.                        *)
Shape(o) == o.stage = NumStages /\ ~o.ended => Idle(o) /\ o.status # "paused"

(* The registered object, and that of a run that no call has forced: it is *)
(* worked on while it runs, and at a pause exactly if the user made it.    *)
Held(o) ==
    /\ ~o.ended /\ o.status \in {"running", "paused", "cancelled"}
    /\ o.cancelled <=> o.status = "cancelled"
    /\ o.status = "cancelled" => o.stage = NumStages
Busy(o) ==
    /\ o.status = "running" => o.ck = None /\ (o.stage < NumStages => ~Idle(o))
    /\ o.status = "paused" => (o.ck = "manual_pause" <=> ~Idle(o))

Record == Snapshot \cup {None}
Terminal == {"failed", "cancelled", "completed"}
Cancelled(d) == d # None /\ d.status = "cancelled"
Resumes(o, d) == d # None /\ (Waits(d) \/ Resumable(d)) /\ d.stage <= o.stage

(* A run id's slots: its objects os, the position g of the registered one, *)
(* the history entry h and the snapshot file d; fs is the set of the runs  *)
(* that were forced.                                                       *)
Objects(r, os, g, fs) ==
    /\ os \in Seq(Object) /\ Len(os) <= MaxLives[r] /\ g \in {0, Len(os)}
    /\ \A i \in DOMAIN os : Shape(os[i]) /\ (r \notin fs => Works(r, os[i]))
    /\ g # 0 => Held(os[g]) /\ (r \notin fs => Busy(os[g]))

Records(r, h, d, fs) ==
    /\ h \in Record /\ d \in Record
    /\ h # None => h.status \in Terminal
    /\ h # None /\ h.status = "completed" => d = None
    /\ d # None /\ d.status = "paused" => d.stage < NumStages
    /\ r \notin fs => (h # None => Reached(r, h)) /\ (d # None => Reached(r, d))

(* Once the record says cancelled, the last object has ended: only one     *)
(* replaced before can still write.                                        *)
Slots(r, os, g, h, d, fs) ==
    /\ g # 0 => (h # None => h.status = "failed")
    /\ Cancelled(d) => /\ g = 0 /\ (h # None => h.status = "cancelled")
                       /\ os # <<>> => os[Len(os)].ended
    /\ g # 0 /\ r \notin fs /\ os[g].stage < NumStages => Resumes(os[g], d)

RunOK(r, os, g, h, d, fs) ==
    Objects(r, os, g, fs) /\ Records(r, h, d, fs) /\ Slots(r, os, g, h, d, fs)

(* The current object is the last one of its run and has not ended.        *)
Pointed == current # None =>
    \E r \in Run : /\ obj[r] # <<>> /\ current = <<r, Len(obj[r])>>
                   /\ ~obj[r][Len(obj[r])].ended

EngineInv ==
    /\ obj \in [Run -> Seq(Object)] /\ reg \in [Run -> Nat]
    /\ hist \in [Run -> Record] /\ disk \in [Run -> Record]
    /\ boots \in 0 .. MaxBoots /\ forced \subseteq Run
    /\ Pointed /\ \A r \in Run : RunOK(r, obj[r], reg[r], hist[r], disk[r], forced)

USE EngineAssumption, NoneAssumption

-----------------------------------------------------------------------------
(* What the changes of one run id preserve. *)
LEMMA SnapshotIsRecord == Snapshot \subseteq Record /\ None \in Record /\ None \notin Snapshot
  BY DEF Record

(* What is claimed of a run that was forced is less. *)
LEMMA Forcing ==
    ASSUME NEW r \in Run, NEW os, NEW g, NEW h, NEW d, NEW fs, NEW gs,
           RunOK(r, os, g, h, d, fs), fs \subseteq gs
    PROVE  RunOK(r, os, g, h, d, gs)
<1>1. r \notin gs => r \notin fs
  OBVIOUS
<1>2. Objects(r, os, g, gs)
  BY <1>1 DEF RunOK, Objects
<1>3. Records(r, h, d, gs)
  BY <1>1 DEF RunOK, Records
<1>4. Slots(r, os, g, h, d, gs)
  BY <1>1 DEF RunOK, Slots
<1>5. QED
  BY <1>2, <1>3, <1>4 DEF RunOK

(* One object of os changes to o. *)
Fine(r, o, fs) == o \in Object /\ Shape(o) /\ (r \notin fs => Works(r, o))
DiskOK(r, o, d, fs) ==
    /\ d \in Record /\ ~Cancelled(d)
    /\ d # None /\ d.status = "paused" => d.stage < NumStages
    /\ r \notin fs => (d # None => Reached(r, d)) /\ (o.stage < NumStages => Resumes(o, d))

LEMMA Replaced ==
    ASSUME NEW os \in Seq(Object), NEW j \in DOMAIN os, NEW o \in Object
    PROVE  LET ns == [os EXCEPT ![j] = o]
           IN  /\ ns \in Seq(Object) /\ Len(ns) = Len(os) /\ DOMAIN ns = DOMAIN os /\ ns[j] = o
               /\ \A i \in DOMAIN os : i # j => ns[i] = os[i]
               /\ Len(os) \in Nat /\ j \in 1 .. Len(os) /\ ns # <<>> /\ os # <<>>
               /\ Len(os) \in DOMAIN os
  OBVIOUS

(* The registered object goes on. *)
LEMMA Goes ==
    ASSUME NEW r \in Run, NEW os, NEW g, NEW h, NEW d, NEW fs, RunOK(r, os, g, h, d, fs), g # 0,
           NEW o, Fine(r, o, fs), Held(o), r \notin fs => Busy(o),
           NEW e, DiskOK(r, o, e, fs)
    PROVE  RunOK(r, [os EXCEPT ![g] = o], g, h, e, fs)
<1> DEFINE ns == [os EXCEPT ![g] = o]
<1>1. os \in Seq(Object) /\ g \in DOMAIN os /\ g = Len(os) /\ o \in Object
  BY DEF RunOK, Objects, Fine
<1>2. /\ ns \in Seq(Object) /\ Len(ns) = Len(os) /\ DOMAIN ns = DOMAIN os /\ ns[g] = o
      /\ \A i \in DOMAIN os : i # g => ns[i] = os[i]
  BY <1>1, Replaced
<1> HIDE DEF ns
<1>4. Objects(r, ns, g, fs)
  BY <1>1, <1>2 DEF RunOK, Objects, Fine
<1>5. Records(r, h, e, fs)
  BY DEF RunOK, Records, Slots, DiskOK
<1>6. Slots(r, ns, g, h, e, fs)
  BY <1>2 DEF RunOK, Slots, DiskOK
<1>8. QED
  BY <1>4, <1>5, <1>6 DEF RunOK, ns

(* An object, registered or not, ends and leaves the record n. *)
LEMMA Ends ==
    ASSUME NEW r \in Run, NEW os, NEW g, NEW h, NEW d, NEW fs, RunOK(r, os, g, h, d, fs),
           NEW j \in DOMAIN os, NEW o, Fine(r, o, fs), o.ended,
           NEW n \in Snapshot, n.status \in Terminal, r \notin fs => Reached(r, n),
           n.status = "cancelled" => j = Len(os)
    PROVE  RunOK(r, [os EXCEPT ![j] = o], 0, n, IF n.status = "completed" THEN None ELSE n, fs)
<1> DEFINE ns == [os EXCEPT ![j] = o]
           e == IF n.status = "completed" THEN None ELSE n
<1>1. os \in Seq(Object) /\ o \in Object /\ Len(os) <= MaxLives[r]
  BY DEF RunOK, Objects, Fine
<1>2. /\ ns \in Seq(Object) /\ Len(ns) = Len(os) /\ DOMAIN ns = DOMAIN os /\ ns[j] = o
      /\ \A i \in DOMAIN os : i # j => ns[i] = os[i]
  BY <1>1, Replaced
<1>e. e \in Record /\ n # None /\ (e = None \/ e = n) /\ (n.status = "completed" => e = None)
  BY SnapshotIsRecord
<1> HIDE DEF ns, e
<1>4. Objects(r, ns, 0, fs)
  BY <1>1, <1>2 DEF RunOK, Objects, Fine
<1>5. Records(r, n, e, fs)
  BY <1>e, SnapshotIsRecord DEF Records, Terminal
<1>6. Slots(r, ns, 0, n, e, fs)
  BY <1>2, <1>e DEF Slots, Cancelled
<1>8. QED
  BY <1>4, <1>5, <1>6 DEF RunOK, ns, e

(* An object that is not registered changes and leaves no record. *)
LEMMA Beside ==
    ASSUME NEW r \in Run, NEW os, NEW g, NEW h, NEW d, NEW fs, RunOK(r, os, g, h, d, fs),
           NEW j \in DOMAIN os, j # g, NEW o, Fine(r, o, fs), os[j].ended => o.ended
    PROVE  RunOK(r, [os EXCEPT ![j] = o], g, h, d, fs)
<1> DEFINE ns == [os EXCEPT ![j] = o]
<1>1. os \in Seq(Object) /\ o \in Object /\ g \in {0, Len(os)}
  BY DEF RunOK, Objects, Fine
<1>2. /\ ns \in Seq(Object) /\ Len(ns) = Len(os) /\ DOMAIN ns = DOMAIN os /\ ns[j] = o
      /\ \A i \in DOMAIN os : i # j => ns[i] = os[i]
      /\ Len(os) \in DOMAIN os /\ os # <<>>
  BY <1>1, Replaced
<1> HIDE DEF ns
<1>4. Objects(r, ns, g, fs)
  BY <1>1, <1>2 DEF RunOK, Objects, Fine
<1>6. Slots(r, ns, g, h, d, fs)
  BY <1>1, <1>2 DEF RunOK, Slots
<1>8. QED
  BY <1>4, <1>6 DEF RunOK, ns

(* A new object is registered. *)
LEMMA Joins ==
    ASSUME NEW r \in Run, NEW os, NEW g, NEW h, NEW d, NEW fs, RunOK(r, os, g, h, d, fs),
           Len(os) + 1 <= MaxLives[r], h # None => h.status = "failed",
           NEW o, Fine(r, o, fs), Held(o), r \notin fs => Busy(o),
           NEW e, DiskOK(r, o, e, fs)
    PROVE  RunOK(r, Append(os, o), Len(os) + 1, h, e, fs)
<1> DEFINE ns == Append(os, o)
<1>1. os \in Seq(Object) /\ Len(os) \in Nat /\ o \in Object
  BY DEF RunOK, Objects, Fine
<1>2. ns \in Seq(Object) /\ Len(ns) = Len(os) + 1 /\ ns[Len(os) + 1] = o
  BY <1>1
<1>3. \A i \in DOMAIN ns : i # Len(os) + 1 => i \in DOMAIN os /\ ns[i] = os[i]
  BY <1>1
<1> HIDE DEF ns
<1>4. Objects(r, ns, Len(os) + 1, fs)
  BY <1>1, <1>2, <1>3 DEF RunOK, Objects, Fine
<1>5. Records(r, h, e, fs)
  BY DEF RunOK, Records, DiskOK
<1>6. Slots(r, ns, Len(os) + 1, h, e, fs)
  BY <1>1, <1>2 DEF Slots, DiskOK
<1>8. QED
  BY <1>4, <1>5, <1>6 DEF RunOK, ns

(* The record of a run is deleted. *)
LEMMA Deleted ==
    ASSUME NEW r \in Run, NEW os, NEW g, NEW h, NEW d, NEW fs, RunOK(r, os, g, h, d, fs)
    PROVE  RunOK(r, os, 0, None, None, fs)
<1>1. Objects(r, os, 0, fs)
  BY DEF RunOK, Objects
<1>2. Records(r, None, None, fs)
  BY SnapshotIsRecord DEF Records
<1>3. QED
  BY <1>1, <1>2 DEF RunOK, Slots, Cancelled

(* After a restart, only the snapshot is there. *)
LEMMA Restarted ==
    ASSUME NEW r \in Run, NEW fs, NEW e \in Record, r \notin fs => (e # None => Reached(r, e)),
           e # None /\ e.status = "paused" => e.stage < NumStages
    PROVE  RunOK(r, <<>>, 0, None, e, fs)
<1>1. Objects(r, <<>>, 0, fs)
  BY DEF Objects
<1>2. Records(r, None, e, fs)
  BY SnapshotIsRecord DEF Records
<1>3. QED
  BY <1>1, <1>2 DEF RunOK, Slots

-----------------------------------------------------------------------------
(* What a handler sees and what it leaves, as far as the steps of one run  *)
(* id need it.                                                             *)
Worlds == [id : Run \X Nat, o : Object, reg : Nat, cur : (Run \X Nat) \cup {None},
           hist : Record, disk : Record]
Same(w, v) == v.id = w.id /\ v.reg = w.reg /\ v.cur = w.cur /\ v.hist = w.hist

(* The object of v is held, and v differs from w in it and the file only.  *)
Kept(r, w, v, fs) ==
    /\ v \in Worlds /\ Same(w, v)
    /\ Fine(r, v.o, fs) /\ Held(v.o) /\ (r \notin fs => Busy(v.o)) /\ DiskOK(r, v.o, v.disk, fs)

(* The object of v is over. *)
Over(r, w, v, fs) ==
    /\ v \in Worlds /\ v.id = w.id /\ v.reg = 0
    /\ v.cur = IF w.cur = w.id THEN None ELSE w.cur
    /\ Fine(r, v.o, fs) /\ v.o.ended /\ v.o.status \in Terminal
    /\ v.hist \in Snapshot /\ (r \notin fs => Reached(r, v.hist)) /\ v.hist.status \in Terminal
    /\ v.disk = IF v.hist.status = "completed" THEN None ELSE v.hist

(* The object may go on; nobody works for it, unless it was forced.        *)
Going(r, w, fs) ==
    /\ w \in Worlds /\ Shape(w.o) /\ Held(w.o)
    /\ r \notin fs => /\ Reached(r, w.o) /\ Idle(w.o)
                      /\ w.o.status = "running" => w.o.ck = None
                      /\ w.o.status = "paused" => w.o.ck # "manual_pause"

LEMMA CopyIsSnapshot ==
    ASSUME NEW o, NEW status \in Status, o.stage \in 0 .. NumStages, o.ck \in Checkpoint,
           o.out \in SUBSET Stage, o.sure \in SUBSET Stage
    PROVE  /\ Copy(o, status) \in Snapshot /\ Copy(o, status) \in Record /\ Copy(o, status) # None
           /\ Copy(o, status).status = status /\ Copy(o, status).stage = o.stage
           /\ Copy(o, status).ck = o.ck
           /\ \A r \in Run : Reached(r, o) => Reached(r, Copy(o, status))
  BY SnapshotIsRecord DEF Copy, Snapshot, Reached

LEMMA IdleWorks == ASSUME NEW r \in Run, NEW o, Idle(o), Reached(r, o) PROVE Works(r, o)
  BY DEF Idle, Called, OneCall, Works

LEMMA ObjectFacts ==
    ASSUME NEW o \in Object
    PROVE  /\ o.stage \in 0 .. NumStages /\ o.ck \in Checkpoint /\ o.status \in Status
           /\ o.out \in SUBSET Stage /\ o.sure \in SUBSET Stage /\ o.fly \in [Call -> 0 .. MaxFly]
           /\ o.stage < NumStages \/ o.stage = NumStages
           /\ ~(o.stage < NumStages /\ o.stage = NumStages)
           /\ \A c \in Call : o.fly[c] = 0 \/ o.fly[c] > 0
  BY DEF Object

(* A running snapshot of the object is one it may be resumed from. *)
LEMMA RunningCopy ==
    ASSUME NEW r \in Run, NEW o \in Object, NEW fs, r \notin fs => Reached(r, o)
    PROVE  DiskOK(r, o, Copy(o, "running"), fs) /\ Copy(o, "running") \in Record
<1>1. /\ Copy(o, "running") \in Record /\ Copy(o, "running") # None
      /\ Copy(o, "running").status = "running" /\ Copy(o, "running").stage = o.stage
      /\ (Reached(r, o) => Reached(r, Copy(o, "running"))) /\ o.stage \in Nat
  BY ObjectFacts, CopyIsSnapshot DEF Status
<1>2. QED
  BY <1>1 DEF DiskOK, Cancelled, Resumes, Resumable

(* The call of the present stage makes the object one that is worked on.   *)
LEMMA LaunchKeeps ==
    ASSUME NEW r \in Run, NEW w, NEW fs, Going(r, w, fs), CanFly(w.o),
           (w.o.status = "running" /\ w.o.stage < NumStages) \/ DiskOK(r, w.o, w.disk, fs)
    PROVE  Kept(r, w, Launch(w), fs)
<1> DEFINE c == NextCall(w.o)
           v == Launch(w)
<1>t. /\ w.o \in Object /\ w.o.stage \in 0 .. NumStages /\ w.o.ck \in Checkpoint
      /\ w.o.out \in SUBSET Stage /\ w.o.sure \in SUBSET Stage /\ w.o.fly \in [Call -> 0 .. MaxFly]
      /\ w \in Worlds
  BY DEF Going, Worlds, Object
<1>1. CASE w.o.status = "running" /\ w.o.stage < NumStages
  <2> DEFINE o == [w.o EXCEPT !.fly[c] = @ + 1]
  <2>c. c \in Call /\ c[1] = w.o.stage /\ (c[2] => c[1] \in w.o.sure) /\ w.o.fly[c] < MaxFly
    <3>1. (w.o.stage \in w.o.sure) \in BOOLEAN
      OBVIOUS
    <3>2. w.o.stage \in Stage
      BY <1>t, <1>1 DEF Stage
    <3>3. w.o.fly[c] < MaxFly
      BY <1>1 DEF CanFly
    <3>4. QED
      BY <3>1, <3>2, <3>3 DEF NextCall, Call
  <2>2. /\ o \in Object /\ o.fly[c] = w.o.fly[c] + 1 /\ (\A d \in Call : d # c => o.fly[d] = w.o.fly[d])
        /\ o.stage = w.o.stage /\ o.ck = w.o.ck /\ o.out = w.o.out /\ o.sure = w.o.sure
        /\ o.ended = w.o.ended /\ o.status = w.o.status /\ o.cancelled = w.o.cancelled
    <3>2. [w.o.fly EXCEPT ![c] = @ + 1] \in [Call -> 0 .. MaxFly]
      BY <1>t, <2>c
    <3>3. o = [w.o EXCEPT !.fly = [w.o.fly EXCEPT ![c] = @ + 1]]
      BY <1>t DEF Object
    <3> HIDE DEF o, c
    <3>4. QED
      BY <1>t, <2>c, <3>2, <3>3 DEF Object
  <2> HIDE DEF o, c, v
  <2>3. Copy(w.o, "running") \in Record
    BY <1>t, CopyIsSnapshot DEF Status
  <2>4. v \in Worlds /\ Same(w, v) /\ v.o = o /\ v.disk = Copy(w.o, "running")
    <3> DEFINE m == SaveRunning(w)
    <3>1. v = [m EXCEPT !.o = [m.o EXCEPT !.fly = [m.o.fly EXCEPT ![c] = @ + 1]]]
      BY <1>1 DEF Launch, v, c
    <3>2. m \in Worlds /\ Same(w, m) /\ m.o = w.o /\ m.disk = Copy(w.o, "running")
      BY <2>3, <1>t DEF SaveRunning, Worlds, Same
    <3>3. o = [w.o EXCEPT !.fly = [w.o.fly EXCEPT ![c] = @ + 1]]
      BY <1>t DEF Object, o
    <3>4. v = [m EXCEPT !.o = o]
      BY <3>1, <3>2, <3>3
    <3> HIDE DEF m
    <3>5. QED
      BY <2>2, <3>2, <3>4 DEF Worlds, Same
  <2>5. ASSUME r \notin fs
        PROVE  Works(r, o) /\ Busy(o)
    <3>1. Reached(r, w.o) /\ Idle(w.o) /\ w.o.ck = None
      BY <1>1, <2>5 DEF Going
    <3>2. o.fly[c] = 1 /\ \A d \in Call : d # c => o.fly[d] = 0
      BY <2>2, <2>c, <3>1 DEF Idle
    <3>3. Reached(r, o) /\ Called(r, o) /\ OneCall(o)
      BY <2>2, <2>c, <1>t, <3>1, <3>2 DEF Reached, Called, OneCall
    <3>4. QED
      BY <1>1, <2>2, <2>c, <3>1, <3>2, <3>3 DEF Works, Busy, Idle
  <2>6. Held(o) /\ Shape(o)
    BY <2>2, <1>1, <1>t DEF Held, Shape, Going
  <2>7. DiskOK(r, o, Copy(w.o, "running"), fs)
    <3>1. DiskOK(r, w.o, Copy(w.o, "running"), fs)
      BY <1>t, RunningCopy DEF Going
    <3>2. QED
      BY <2>2, <3>1 DEF DiskOK, Resumes
  <2>8. QED
    BY <2>2, <2>4, <2>5, <2>6, <2>7 DEF Kept, Fine, v
<1>2. CASE ~(w.o.status = "running" /\ w.o.stage < NumStages)
  <2>1. v = w
    BY <1>2 DEF Launch
  <2>2. r \notin fs => Works(r, w.o) /\ Busy(w.o)
    BY <1>2, IdleWorks DEF Going, Busy
  <2>3. QED
    BY <1>2, <1>t, <2>1, <2>2 DEF Kept, Going, Same, Fine
<1>3. QED
  BY <1>1, <1>2

(* The object is finalized, once. *)
LEMMA FinalizeEnds ==
    ASSUME NEW r \in Run, NEW w \in Worlds, NEW fs, ~w.o.ended, r \notin fs => Works(r, w.o),
           NEW status \in Terminal, NEW saved \in BOOLEAN
    PROVE  /\ Over(r, w, Finalize(w, status, saved), fs)
           /\ Finalize(w, status, saved).hist.status = "cancelled" => status = "cancelled"
<1> DEFINE final == IF status = "completed" /\ ~saved THEN "failed" ELSE status
           copy == Copy(w.o, final)
           o == [[w.o EXCEPT !.status = final] EXCEPT !.ended = TRUE]
           v == Finalize(w, status, saved)
           e == IF final = "completed" THEN None ELSE copy
           cur == IF w.cur = w.id THEN None ELSE w.cur
<1>t. /\ w.o \in Object /\ w.o.stage \in 0 .. NumStages /\ w.o.ck \in Checkpoint
      /\ w.o.out \in SUBSET Stage /\ w.o.sure \in SUBSET Stage
  BY DEF Worlds, Object
<1>1. final \in Terminal /\ final \in Status /\ (final = "cancelled" => status = "cancelled")
  BY DEF Terminal, Status
<1>3. /\ o \in Object /\ o.ended /\ o.status = final /\ o.fly = w.o.fly
      /\ o.stage = w.o.stage /\ o.ck = w.o.ck /\ o.out = w.o.out /\ o.sure = w.o.sure
  BY <1>t, <1>1 DEF Object
<1> HIDE DEF final
<1>4. /\ copy \in Snapshot /\ copy \in Record /\ (Reached(r, w.o) => Reached(r, copy))
      /\ copy.status = final /\ copy.stage = w.o.stage
  BY <1>t, <1>1, CopyIsSnapshot
<1> HIDE DEF copy, o, v
<1>5. /\ v \in Worlds /\ v.id = w.id /\ v.reg = 0 /\ v.cur = cur /\ v.o = o /\ v.hist = copy
      /\ v.disk = e
  <2> DEFINE m == [w EXCEPT !.o = [w.o EXCEPT !.status = final]]
             p == [m EXCEPT !.o = [m.o EXCEPT !.ended = TRUE]]
  <2>1. /\ m \in Worlds /\ m.o = [w.o EXCEPT !.status = final] /\ m.cur = w.cur /\ m.id = w.id
    BY <1>t, <1>1 DEF Worlds, Object
  <2>2. p.o = o
    BY <2>1 DEF Worlds, o
  <2>3. v = [p EXCEPT !.disk = e, !.hist = copy, !.reg = 0, !.cur = IF @ = w.id THEN None ELSE @]
    BY DEF Finalize, v, copy, final
  <2> HIDE DEF m, final
  <2>4. p \in Worlds /\ p.cur = w.cur /\ p.id = w.id
    BY <2>1, <2>2, <1>3 DEF Worlds
  <2> HIDE DEF p
  <2>5. e \in Record /\ cur \in (Run \X Nat) \cup {None}
    BY <1>4, SnapshotIsRecord DEF Worlds
  <2> HIDE DEF e
  <2>6. QED
    BY <2>2, <2>3, <2>4, <2>5, <1>3, <1>4, SnapshotIsRecord DEF Worlds
<1>6. Fine(r, o, fs)
  BY <1>3 DEF Fine, Shape, Works, Reached, Called, OneCall
<1>7. r \notin fs => Reached(r, copy)
  BY <1>4 DEF Works
<1>8. QED
  BY <1>1, <1>3, <1>4, <1>5, <1>6, <1>7 DEF Over, v

(* The present stage has run and its gate is passed: on to the next one,   *)
(* or the run is complete.                                                 *)
LEMMA AdvanceGoes ==
    ASSUME NEW r \in Run, NEW w, NEW fs, w \in Worlds, Held(w.o), w.o.stage < NumStages,
           r \notin fs => /\ Reached(r, w.o) /\ Idle(w.o) /\ w.o.stage \in w.o.out
                          /\ r \notin Batch => (Kind[w.o.stage] \in Gate => w.o.stage \in w.o.sure),
           DiskOK(r, w.o, w.disk, fs), NEW saved \in Saves
    PROVE  LET a == Advance(w, saved)
           IN  \/ Over(r, w, a, fs)
               \/ /\ Going(r, a, fs) /\ Same(w, a) /\ DiskOK(r, a.o, a.disk, fs)
                  /\ a.o.stage = w.o.stage + 1 /\ a.o.stage < NumStages /\ a.o.ck = None
                  /\ a.o.status = w.o.status /\ a.o.fly = w.o.fly /\ a.o.sure = w.o.sure
<1> DEFINE o == [[w.o EXCEPT !.ck = None] EXCEPT !.stage = @ + 1]
           n == [w EXCEPT !.o.ck = None, !.o.stage = @ + 1]
<1>t. /\ w.o \in Object /\ w.o.stage \in 0 .. NumStages /\ w.o.ck \in Checkpoint
      /\ w.o.out \in SUBSET Stage /\ w.o.sure \in SUBSET Stage /\ w.o.fly \in [Call -> 0 .. MaxFly]
  BY DEF Worlds, Object
<1>1. w.o.stage \in 0 .. NumStages - 1 /\ w.o.stage + 1 \in 0 .. NumStages
  BY <1>t
<1>2. /\ o \in Object /\ o.ck = None /\ o.stage = w.o.stage + 1 /\ o.out = w.o.out /\ o.sure = w.o.sure
      /\ o.fly = w.o.fly /\ o.status = w.o.status /\ o.ended = w.o.ended /\ o.cancelled = w.o.cancelled
  BY <1>t, <1>1 DEF Object, Checkpoint
<1>3. Advance(w, saved) = IF n.o.stage = NumStages THEN Finalize(n, "completed", saved) ELSE n
  BY DEF Advance
<1> HIDE DEF o
<1>4. n \in Worlds /\ n.o = o /\ Same(w, n) /\ n.disk = w.disk
  <2>1. n.o = o
    BY <1>t DEF Worlds, o
  <2>2. QED
    BY <1>2, <2>1 DEF Worlds, Same
<1> HIDE DEF n
<1>5. ASSUME r \notin fs PROVE Reached(r, o) /\ Idle(o) /\ Works(r, o)
  <2>0. Reached(r, w.o) /\ Idle(w.o) /\ w.o.stage \in w.o.out
    BY <1>5
  <2>1. 0 .. o.stage - 1 \subseteq o.out
    BY <1>1, <1>2, <2>0 DEF Reached
  <2>2. Passed(r, o.stage, o.sure)
    <3>1. \A s \in 0 .. o.stage - 1 : s = w.o.stage \/ s \in 0 .. w.o.stage - 1
      BY <1>1, <1>2
    <3>2. QED
      BY <1>2, <1>5, <3>1 DEF Reached, Passed
  <2>3. o.ck \notin Pause
    BY <1>2
  <2>4. Reached(r, o) /\ Idle(o)
    BY <1>2, <2>0, <2>1, <2>2, <2>3 DEF Reached, Pause, Idle
  <2>5. QED
    BY <2>4, IdleWorks
<1>7. CASE o.stage = NumStages
  <2>1. saved \in BOOLEAN
    BY DEF Saves
  <2>2. Over(r, n, Finalize(n, "completed", saved), fs)
    BY <1>2, <1>4, <1>5, <2>1, FinalizeEnds DEF Terminal, Held
  <2>3. QED
    BY <1>3, <1>4, <1>7, <2>2 DEF Over, Same
<1>8. CASE o.stage # NumStages
  <2>1. Advance(w, saved) = n /\ o.stage < NumStages
    BY <1>1, <1>2, <1>3, <1>4, <1>8
  <2>2. DiskOK(r, o, w.disk, fs)
    <3>1. w.disk # None => w.disk.stage \in Nat
      BY DEF Worlds, Record, Snapshot
    <3>2. Resumes(w.o, w.disk) => Resumes(o, w.disk)
      BY <1>2, <1>t, <3>1 DEF Resumes
    <3>3. QED
      BY <3>2 DEF DiskOK
  <2>3. Shape(o) /\ Held(o)
    BY <1>2, <1>8, <1>1 DEF Shape, Held
  <2>4. Going(r, n, fs)
    BY <1>2, <1>4, <1>5, <2>3 DEF Going, Pause
  <2>5. QED
    BY <1>2, <1>4, <2>1, <2>2, <2>4
<1>9. QED
  BY <1>7, <1>8

-----------------------------------------------------------------------------
(* From one run id to the engine. *)
Forces(r) == forced \subseteq forced' /\ forced' \subseteq forced \cup {r}

LEMMA OthersKeep ==
    ASSUME EngineInv, NEW r \in Run, Forces(r),
           \A q \in Run \ {r} : /\ obj'[q] = obj[q] /\ reg'[q] = reg[q]
                                /\ hist'[q] = hist[q] /\ disk'[q] = disk[q]
    PROVE  \A q \in Run \ {r} : RunOK(q, obj'[q], reg'[q], hist'[q], disk'[q], forced')
  BY Forcing DEF EngineInv, Forces

LEMMA RunTypes ==
    ASSUME NEW r \in Run, NEW os, NEW g, NEW h, NEW d, NEW fs, RunOK(r, os, g, h, d, fs)
    PROVE  /\ os \in Seq(Object) /\ g \in Nat /\ g \in {0, Len(os)} /\ h \in Record /\ d \in Record
           /\ g # 0 => g \in DOMAIN os
  BY DEF RunOK, Objects, Records

LEMMA CommitKeeps ==
    ASSUME EngineInv, NEW r \in Run, NEW g \in DOMAIN obj[r], NEW v, Commit(r, g, v), Forces(r),
           v.o \in Object,
           RunOK(r, [obj[r] EXCEPT ![g] = v.o], v.reg, v.hist, v.disk, forced'),
           v.cur = current \/ v.cur = None, v.cur # <<r, g>> \/ ~v.o.ended
    PROVE  EngineInv'
<1> DEFINE os == [obj[r] EXCEPT ![g] = v.o]
<1>1. /\ obj' = [obj EXCEPT ![r] = os] /\ reg' = [reg EXCEPT ![r] = v.reg] /\ current' = v.cur
      /\ hist' = [hist EXCEPT ![r] = v.hist] /\ disk' = [disk EXCEPT ![r] = v.disk] /\ boots' = boots
  BY DEF Commit
<1>2. /\ os \in Seq(Object) /\ v.reg \in Nat /\ v.hist \in Record /\ v.disk \in Record
  BY RunTypes
<1>o. obj[r] \in Seq(Object)
  BY DEF EngineInv
<1>r. Len(os) = Len(obj[r]) /\ os[g] = v.o /\ (\A i \in DOMAIN obj[r] : i # g => os[i] = obj[r][i])
      /\ os # <<>> /\ Len(obj[r]) \in DOMAIN obj[r]
  BY <1>o, Replaced
<1> HIDE DEF os
<1>3. /\ obj' \in [Run -> Seq(Object)] /\ reg' \in [Run -> Nat]
      /\ hist' \in [Run -> Record] /\ disk' \in [Run -> Record] /\ boots' \in 0 .. MaxBoots
      /\ forced' \subseteq Run
  BY <1>1, <1>2 DEF EngineInv, Forces
<1>4. RunOK(r, obj'[r], reg'[r], hist'[r], disk'[r], forced')
  BY <1>1 DEF EngineInv, os
<1>5. \A q \in Run \ {r} : RunOK(q, obj'[q], reg'[q], hist'[q], disk'[q], forced')
  BY <1>1, OthersKeep DEF EngineInv
<1>6. Pointed'
  <2>1. CASE current' # None
    <3>1. current' = current /\ current # None
      BY <1>1, <2>1
    <3>2. PICK q \in Run : /\ obj[q] # <<>> /\ current = <<q, Len(obj[q])>>
                           /\ ~obj[q][Len(obj[q])].ended
      BY <3>1 DEF EngineInv, Pointed
    <3>3. CASE q # r
      <4>1. obj'[q] = obj[q]
        BY <1>1, <3>3 DEF EngineInv
      <4>2. QED
        BY <3>1, <3>2, <4>1 DEF Pointed
    <3>4. CASE q = r
      <4>1. obj'[r] = os
        BY <1>1 DEF EngineInv
      <4>2. ~os[Len(obj[r])].ended
        BY <1>1, <1>r, <3>1, <3>2, <3>4
      <4>3. QED
        BY <1>r, <3>1, <3>2, <3>4, <4>1, <4>2 DEF Pointed
    <3>5. QED
      BY <3>3, <3>4
  <2>2. QED
    BY <2>1 DEF Pointed
<1>7. QED
  BY <1>3, <1>4, <1>5, <1>6 DEF EngineInv

(* What a handler sees. *)
LEMMA WorldFacts ==
    ASSUME EngineInv, NEW r \in Run, NEW g \in DOMAIN obj[r]
    PROVE  /\ World(r, g) \in Worlds /\ World(r, g).o = obj[r][g] /\ World(r, g).id = <<r, g>>
           /\ World(r, g).reg = reg[r] /\ World(r, g).cur = current
           /\ World(r, g).hist = hist[r] /\ World(r, g).disk = disk[r]
           /\ obj[r] \in Seq(Object) /\ obj[r][g] \in Object /\ g \in Nat
           /\ Fine(r, obj[r][g], forced)
<1>1. /\ obj[r] \in Seq(Object) /\ reg[r] \in Nat /\ hist[r] \in Record /\ disk[r] \in Record
      /\ RunOK(r, obj[r], reg[r], hist[r], disk[r], forced)
  BY DEF EngineInv
<1>2. g \in Nat /\ obj[r][g] \in Object
  BY <1>1
<1>3. current \in (Run \X Nat) \cup {None}
  BY DEF EngineInv, Pointed
<1>4. Fine(r, obj[r][g], forced)
  BY <1>1, <1>2 DEF RunOK, Objects, Fine
<1>5. QED
  BY <1>1, <1>2, <1>3, <1>4 DEF World, Worlds

LEMMA RegisteredFacts ==
    ASSUME EngineInv, NEW r \in Run, reg[r] # 0
    PROVE  /\ reg[r] \in DOMAIN obj[r] /\ Registered(r) = obj[r][reg[r]] /\ reg[r] = Len(obj[r])
           /\ Held(obj[r][reg[r]]) /\ (r \notin forced => Busy(obj[r][reg[r]]))
           /\ DiskOK(r, obj[r][reg[r]], disk[r], forced)
           /\ hist[r] # None => hist[r].status = "failed"
<1>1. RunOK(r, obj[r], reg[r], hist[r], disk[r], forced)
  BY DEF EngineInv
<1>2. reg[r] \in DOMAIN obj[r] /\ reg[r] = Len(obj[r])
  BY <1>1, RunTypes
<1>3. QED
  BY <1>1, <1>2 DEF RunOK, Objects, Slots, Records, DiskOK, Registered

(* A handler that ends with the registered object held. *)
LEMMA KeptKeeps ==
    ASSUME EngineInv, NEW r \in Run, reg[r] # 0, NEW v, Forces(r),
           Kept(r, World(r, reg[r]), v, forced'), Commit(r, reg[r], v)
    PROVE  EngineInv'
<1> DEFINE g == reg[r]
<1>1. g \in DOMAIN obj[r] /\ RunOK(r, obj[r], g, hist[r], disk[r], forced')
  BY RegisteredFacts, Forcing DEF EngineInv, Forces
<1>2. /\ World(r, g).id = <<r, g>> /\ World(r, g).reg = g
      /\ World(r, g).cur = current /\ World(r, g).hist = hist[r]
  BY <1>1, WorldFacts
<1>3. /\ Fine(r, v.o, forced') /\ Held(v.o) /\ (r \notin forced' => Busy(v.o))
      /\ DiskOK(r, v.o, v.disk, forced') /\ v.reg = g /\ v.cur = current /\ v.hist = hist[r]
  BY <1>2 DEF Kept, Worlds, Same
<1>4. RunOK(r, [obj[r] EXCEPT ![g] = v.o], g, hist[r], v.disk, forced')
  BY <1>1, <1>3, Goes
<1>5. ~v.o.ended /\ v.o \in Object
  BY <1>3 DEF Held, Fine
<1>6. QED
  BY <1>1, <1>3, <1>4, <1>5, CommitKeeps

(* A handler that ends with an object over. *)
LEMMA OverKeeps ==
    ASSUME EngineInv, NEW r \in Run, NEW g \in DOMAIN obj[r], NEW v, Forces(r),
           Over(r, World(r, g), v, forced'), Commit(r, g, v),
           v.hist.status = "cancelled" => g = Len(obj[r])
    PROVE  EngineInv'
<1>1. RunOK(r, obj[r], reg[r], hist[r], disk[r], forced')
  BY Forcing DEF EngineInv, Forces
<1>2. World(r, g).id = <<r, g>> /\ World(r, g).cur = current
  BY WorldFacts
<1>3. /\ Fine(r, v.o, forced') /\ v.o.ended /\ v.o \in Object
      /\ v.hist \in Snapshot /\ (r \notin forced' => Reached(r, v.hist)) /\ v.hist.status \in Terminal
      /\ v.reg = 0 /\ v.disk = IF v.hist.status = "completed" THEN None ELSE v.hist
      /\ v.cur = IF current = <<r, g>> THEN None ELSE current
  BY <1>2 DEF Over, Fine
<1>4. RunOK(r, [obj[r] EXCEPT ![g] = v.o], 0, v.hist, v.disk, forced')
  BY <1>1, <1>3, Ends
<1>5. v.cur # <<r, g>> /\ (v.cur = current \/ v.cur = None)
  <2>1. <<r, g>> \in Run \X Nat
    BY WorldFacts
  <2>2. QED
    BY <1>3, <2>1
<1>6. QED
  BY <1>3, <1>4, <1>5, CommitKeeps

(* A handler that ends with an object not registered, and no record.       *)
LEMMA BesideKeeps ==
    ASSUME EngineInv, NEW r \in Run, NEW g \in DOMAIN obj[r], g # reg[r], NEW v, UNCHANGED forced,
           Commit(r, g, v), v.reg = reg[r], v.cur = current, v.hist = hist[r], v.disk = disk[r],
           Fine(r, v.o, forced), v.o.ended <=> obj[r][g].ended
    PROVE  EngineInv'
<1>1. RunOK(r, obj[r], reg[r], hist[r], disk[r], forced) /\ obj[r] \in Seq(Object)
  BY DEF EngineInv
<1>2. RunOK(r, [obj[r] EXCEPT ![g] = v.o], reg[r], hist[r], disk[r], forced)
  BY <1>1, Beside
<1>3. v.cur # <<r, g>> \/ ~v.o.ended
  <2>1. CASE current = <<r, g>>
    <3>1. PICK q \in Run : /\ obj[q] # <<>> /\ current = <<q, Len(obj[q])>>
                           /\ ~obj[q][Len(obj[q])].ended
      BY <2>1 DEF EngineInv, Pointed
    <3>2. q = r /\ Len(obj[q]) = g
      BY <2>1, <3>1
    <3>3. QED
      BY <3>1, <3>2
  <2>2. QED
    BY <2>1
<1>4. v.o \in Object /\ Forces(r) /\ forced' = forced
  BY DEF Fine, Forces
<1>5. QED
  BY <1>2, <1>3, <1>4, CommitKeeps

LEMMA KeptTrans ==
    ASSUME NEW r, NEW w, NEW u, NEW v, NEW fs, Same(w, u)
    PROVE  (Kept(r, u, v, fs) => Kept(r, w, v, fs)) /\ (Over(r, u, v, fs) => Over(r, w, v, fs))
  BY DEF Same, Kept, Over

LEMMA StaysForced == ASSUME NEW r \in Run, UNCHANGED forced PROVE Forces(r) /\ forced' = forced
  BY DEF Forces

-----------------------------------------------------------------------------
(* The handlers. *)
LEMMA StageSavesKeeps ==
    ASSUME EngineInv, NEW r \in Run, StageSaves(r)
    PROVE  EngineInv'
<1> DEFINE w == World(r, reg[r])
           o == obj[r][reg[r]]
<1>1. /\ reg[r] # 0 /\ w \in Worlds /\ w.o = o /\ Fine(r, o, forced) /\ Held(o)
      /\ (r \notin forced => Busy(o)) /\ Commit(r, reg[r], SaveRunning(w)) /\ UNCHANGED forced
  BY RegisteredFacts, WorldFacts DEF StageSaves
<1> HIDE DEF o, w
<1>3. DiskOK(r, o, Copy(o, "running"), forced) /\ Copy(o, "running") \in Record
  BY <1>1, RunningCopy DEF Fine, Works
<1>4. Kept(r, w, SaveRunning(w), forced)
  BY <1>1, <1>3 DEF SaveRunning, Kept, Worlds, Same
<1>5. QED
  BY <1>1, <1>4, KeptKeeps, StaysForced DEF w

LEMMA PauseRunKeeps ==
    ASSUME EngineInv, NEW r \in Run, PauseRun(r)
    PROVE  EngineInv'
<1> DEFINE w == World(r, reg[r])
           o == obj[r][reg[r]]
           u == [w EXCEPT !.o.status = "paused", !.o.ck = "manual_pause"]
           p == [[o EXCEPT !.status = "paused"] EXCEPT !.ck = "manual_pause"]
<1>1. /\ reg[r] # 0 /\ w \in Worlds /\ w.o = o /\ Fine(r, o, forced) /\ o \in Object /\ Held(o)
      /\ (r \notin forced => Busy(o)) /\ Commit(r, reg[r], SavePaused(u))
      /\ o.status = "running" /\ o.stage < NumStages /\ UNCHANGED forced
  BY RegisteredFacts, WorldFacts DEF PauseRun, IsRunning, Fine
<1>2. /\ p \in Object /\ p.status = "paused" /\ p.ck = "manual_pause" /\ p.stage = o.stage
      /\ p.out = o.out /\ p.sure = o.sure /\ p.fly = o.fly /\ p.ended = o.ended
      /\ p.cancelled = o.cancelled
  BY <1>1 DEF Object, Status, Checkpoint, Pause
<1>3. u.o = p /\ u \in Worlds /\ Same(w, u)
  BY <1>1, <1>2 DEF Worlds, Same
<1> HIDE DEF o, w, u, p
<1>4. /\ Copy(p, "paused") \in Record /\ Copy(p, "paused") # None /\ Copy(p, "paused").stage = p.stage
      /\ Copy(p, "paused").status = "paused" /\ Copy(p, "paused").ck = "manual_pause"
      /\ (Reached(r, p) => Reached(r, Copy(p, "paused"))) /\ p.stage \in Nat
  BY <1>2, ObjectFacts, CopyIsSnapshot DEF Status
<1>5. Shape(p) /\ Held(p)
  BY <1>1, <1>2 DEF Shape, Held, Idle, Fine
<1>6. r \notin forced => Works(r, p) /\ Busy(p)
  BY <1>1, <1>2 DEF Fine, Works, Reached, Called, OneCall, Busy, Idle
<1>7. DiskOK(r, p, Copy(p, "paused"), forced)
  BY <1>1, <1>2, <1>4, <1>6 DEF DiskOK, Cancelled, Resumes, Resumable, Works
<1>8. Kept(r, w, SavePaused(u), forced)
  BY <1>2, <1>3, <1>4, <1>5, <1>6, <1>7 DEF SavePaused, Kept, Worlds, Same, Fine
<1>9. QED
  BY <1>1, <1>8, KeptKeeps, StaysForced DEF w

(* cancelRun, and cancel of a run that has a stage left: the last object.  *)
LEMMA CancelObjectKeeps ==
    ASSUME EngineInv, NEW r \in Run, NEW g \in DOMAIN obj[r], g = Len(obj[r]), ~obj[r][g].ended,
           CancelObject(r, g)
    PROVE  EngineInv'
<1> DEFINE w == World(r, g)
           o == obj[r][g]
           u == [w EXCEPT !.o.cancelled = TRUE, !.o.status = "cancelled"]
           p == [[o EXCEPT !.cancelled = TRUE] EXCEPT !.status = "cancelled"]
           v == Finalize(u, "cancelled", TRUE)
<1>0. Commit(r, g, v) /\ UNCHANGED forced
  BY DEF CancelObject
<1>1. w \in Worlds /\ w.o = o /\ o \in Object /\ Fine(r, o, forced) /\ ~o.ended
  BY WorldFacts
<1>2. /\ p \in Object /\ p.ck = o.ck /\ p.stage = o.stage
      /\ p.out = o.out /\ p.sure = o.sure /\ p.fly = o.fly /\ p.ended = o.ended
  BY <1>1 DEF Object, Status
<1>3. u.o = p /\ u \in Worlds /\ Same(w, u)
  BY <1>1, <1>2 DEF Worlds, Same
<1> HIDE DEF o, w, u, p
<1>5. ~p.ended /\ (r \notin forced => Works(r, p))
  BY <1>1, <1>2 DEF Fine, Works, Reached, Called, OneCall
<1>6. Over(r, u, v, forced)
  BY <1>3, <1>5, FinalizeEnds DEF Terminal
<1> HIDE DEF v
<1>7. QED
  <2>1. Over(r, w, v, forced) /\ (v.hist.status = "cancelled" => g = Len(obj[r]))
    BY <1>3, <1>6, KeptTrans
  <2>2. QED
    BY <1>0, <2>1, OverKeeps, StaysForced DEF w

(* Past the last stage cancel() throws half way. *)
LEMMA CancelKeeps ==
    ASSUME EngineInv, Cancel
    PROVE  EngineInv'
<1>1. PICK r \in Run : /\ obj[r] # <<>> /\ current = <<r, Len(obj[r])>>
                       /\ ~obj[r][Len(obj[r])].ended
  BY DEF EngineInv, Pointed, Cancel
<1> DEFINE g == Len(obj[r])
           w == World(r, g)
           o == obj[r][g]
           u == [w EXCEPT !.o.cancelled = TRUE, !.o.status = "cancelled"]
           p == [[o EXCEPT !.cancelled = TRUE] EXCEPT !.status = "cancelled"]
<1>g. g \in DOMAIN obj[r]
  BY <1>1 DEF EngineInv
<1>2. /\ w \in Worlds /\ w.o = o /\ o \in Object /\ Fine(r, o, forced) /\ ~o.ended
      /\ w.reg = reg[r] /\ w.cur = current /\ w.hist = hist[r] /\ w.disk = disk[r]
  BY <1>1, <1>g, WorldFacts
<1>3. CASE o.stage < NumStages
  BY <1>1, <1>g, <1>2, <1>3, CancelObjectKeeps DEF Cancel
<1>4. CASE ~(o.stage < NumStages)
  <2>1. Commit(r, g, u) /\ UNCHANGED forced
    BY <1>1, <1>4 DEF Cancel
  <2>2. /\ p \in Object /\ p.ck = o.ck /\ p.stage = o.stage
        /\ p.out = o.out /\ p.sure = o.sure /\ p.fly = o.fly /\ p.ended = o.ended
        /\ p.status = "cancelled" /\ p.cancelled = TRUE
    BY <1>2 DEF Object, Status
  <2>3. u.o = p /\ u \in Worlds /\ Same(w, u) /\ u.disk = w.disk
    BY <1>2, <2>2 DEF Worlds, Same
  <2>s. g \in DOMAIN obj[r] /\ (reg[r] # 0 => reg[r] = g)
    BY <1>g, RegisteredFacts
  <2> HIDE DEF o, w, u, p, g
  <2>4. o.stage = NumStages
    BY <1>2, <1>4, ObjectFacts
  <2>5. Shape(p) /\ Held(p)
    BY <1>2, <2>2, <2>4 DEF Fine, Shape, Idle, Held
  <2>6. Fine(r, p, forced)
    BY <1>2, <2>2, <2>5 DEF Fine, Works, Reached, Called, OneCall
  <2>7. CASE reg[r] = g
    <3>0. reg[r] # 0
      BY <2>7, <2>s DEF EngineInv
    <3>1. DiskOK(r, o, w.disk, forced) /\ ~(o.stage < NumStages)
      BY <1>2, <1>4, <2>7, <3>0, RegisteredFacts DEF o
    <3>2. DiskOK(r, p, w.disk, forced) /\ Busy(p)
      BY <2>2, <3>1 DEF DiskOK, Busy
    <3>3. Kept(r, w, u, forced)
      BY <2>3, <2>5, <2>6, <3>2 DEF Kept
    <3>4. QED
      BY <2>1, <2>7, <3>0, <3>3, KeptKeeps, StaysForced DEF w
  <2>8. CASE reg[r] # g
    <3>1. /\ u.reg = reg[r] /\ u.cur = current /\ u.hist = hist[r] /\ u.disk = disk[r]
          /\ (u.o.ended <=> obj[r][g].ended) /\ Fine(r, u.o, forced)
      BY <1>2, <2>2, <2>3, <2>6 DEF Same, o
    <3>2. QED
      BY <2>1, <2>s, <2>8, <3>1, BesideKeeps
  <2>9. QED
    BY <2>7, <2>8
<1>5. QED
  BY <1>3, <1>4

(* The stage has run: the object goes on, pauses or is complete.           *)
LEMMA ProceedGoes ==
    ASSUME NEW r \in Run, NEW w, NEW fs,
           w \in Worlds, Held(w.o), w.o.status \in {"running", "paused"}, w.o.stage < NumStages,
           NEW c \in Call,
           r \notin fs => /\ Reached(r, w.o) /\ Idle(w.o) /\ w.o.stage \in w.o.out
                          /\ c[1] = w.o.stage /\ (c[2] => c[1] \in w.o.sure),
           DiskOK(r, w.o, w.disk, fs), NEW saved \in Saves,
           CanFly([w.o EXCEPT !.stage = @ + 1])
    PROVE  \/ Kept(r, w, Proceed(w, Asks(r, c), saved), fs)
           \/ Over(r, w, Proceed(w, Asks(r, c), saved), fs)
<1> DEFINE ask == Asks(r, c)
           v == Proceed(w, ask, saved)
           o == w.o
<1>t. /\ o \in Object /\ o.stage \in 0 .. NumStages /\ o.ck \in Checkpoint
      /\ o.out \in SUBSET Stage /\ o.sure \in SUBSET Stage /\ o.fly \in [Call -> 0 .. MaxFly]
  BY DEF Worlds, Object
<1>k. Kind[c[1]] \in {"plain", "stage", "scene_asset_selection", "cost_confirm"} /\ c[1] \in Stage
  BY DEF Call
<1>1. CASE ask # None
  <2> DEFINE u == [w EXCEPT !.o.ck = ask, !.o.status = "paused"]
             p == [[o EXCEPT !.ck = ask] EXCEPT !.status = "paused"]
  <2>1. ask \in {"stage", "scene_asset_selection", "cost_confirm"} /\ ask = Kind[c[1]]
    BY <1>1, <1>k DEF Asks
  <2>2. /\ p \in Object /\ p.status = "paused" /\ p.ck = ask /\ p.stage = o.stage
        /\ p.out = o.out /\ p.sure = o.sure /\ p.fly = o.fly /\ p.ended = o.ended
        /\ p.cancelled = o.cancelled
    BY <1>t, <2>1 DEF Object, Status, Checkpoint, Pause
  <2>3. u.o = p /\ u \in Worlds /\ Same(w, u) /\ u.disk = w.disk
    BY <2>2 DEF Worlds, Same
  <2>4. v = IF ask \in {"scene_asset_selection", "cost_confirm"} THEN SavePaused(u) ELSE u
    BY <1>1 DEF Proceed
  <2> HIDE DEF ask, u, p, v
  <2>5. Shape(p) /\ Held(p) /\ p.stage < NumStages
    BY <2>2, <1>t DEF Shape, Held
  <2>6. ASSUME r \notin fs PROVE Reached(r, p) /\ Works(r, p) /\ Busy(p)
    <3>1. Reached(r, o) /\ Idle(o) /\ o.stage \in o.out /\ c[1] = o.stage
      BY <2>6
    <3>2. Reached(r, p) /\ Idle(p)
      BY <2>1, <2>2, <3>1 DEF Reached, Idle
    <3>3. QED
      BY <2>1, <2>2, <3>2, IdleWorks DEF Busy
  <2>7. DiskOK(r, p, w.disk, fs)
    BY <2>2 DEF DiskOK, Resumes
  <2>8. CASE ask \notin {"scene_asset_selection", "cost_confirm"}
    BY <2>2, <2>3, <2>4, <2>5, <2>6, <2>7, <2>8 DEF Kept, Fine, v, ask
  <2>9. CASE ask \in {"scene_asset_selection", "cost_confirm"}
    <3>1. /\ Copy(p, "paused") \in Record /\ Copy(p, "paused") # None
          /\ Copy(p, "paused").stage = p.stage /\ Copy(p, "paused").status = "paused"
          /\ Copy(p, "paused").ck = ask /\ (Reached(r, p) => Reached(r, Copy(p, "paused")))
      BY <2>2, <1>t, CopyIsSnapshot DEF Status, Object
    <3>2. DiskOK(r, p, Copy(p, "paused"), fs)
      BY <3>1, <2>5, <2>6, <2>2, <1>t, <2>9 DEF DiskOK, Cancelled, Resumes, Waits
    <3>3. SavePaused(u) \in Worlds /\ Same(w, SavePaused(u)) /\ SavePaused(u).o = p
          /\ SavePaused(u).disk = Copy(p, "paused")
      BY <2>2, <2>3, <3>1 DEF SavePaused, Worlds, Same
    <3>4. QED
      BY <2>2, <2>4, <2>5, <2>6, <2>9, <3>2, <3>3 DEF Kept, Fine, v, ask
  <2>10. QED
    BY <2>8, <2>9
<1>2. CASE ask = None
  <2> DEFINE a == Advance(w, saved)
  <2>1. ASSUME r \notin fs
        PROVE  r \notin Batch => (Kind[o.stage] \in Gate => o.stage \in o.sure)
    BY <1>2, <1>k, <2>1 DEF Asks, Gate, Pause
  <2>2. v = Launch(a)
    BY <1>2 DEF Proceed
  <2>3. \/ Over(r, w, a, fs)
        \/ /\ Going(r, a, fs) /\ Same(w, a) /\ DiskOK(r, a.o, a.disk, fs)
           /\ a.o.stage = w.o.stage + 1 /\ a.o.fly = w.o.fly /\ a.o.sure = w.o.sure
    BY <2>1, AdvanceGoes
  <2> HIDE DEF a, v, ask
  <2>4. CASE Over(r, w, a, fs)
    <3>1. a.o.status # "running"
      BY <2>4 DEF Over, Terminal
    <3>2. v = a
      BY <2>2, <3>1 DEF Launch
    <3>3. QED
      BY <2>4, <3>2 DEF v, ask
  <2>5. CASE /\ Going(r, a, fs) /\ Same(w, a) /\ DiskOK(r, a.o, a.disk, fs)
             /\ a.o.stage = w.o.stage + 1 /\ a.o.fly = w.o.fly /\ a.o.sure = w.o.sure
    <3> DEFINE n == [w.o EXCEPT !.stage = @ + 1]
    <3>1. n.stage = a.o.stage /\ n.fly = a.o.fly /\ n.sure = a.o.sure
      BY <2>5, <1>t DEF Object
    <3>2. CanFly(a.o)
      <4>1. CanFly(n)
        OBVIOUS
      <4> HIDE DEF n
      <4>2. QED
        BY <3>1, <4>1 DEF CanFly, NextCall
    <3>3. QED
      BY <2>2, <2>5, <3>2, LaunchKeeps, KeptTrans DEF v, ask
  <2>6. QED
    BY <2>3, <2>4, <2>5
<1>3. QED
  BY <1>1, <1>2

LEMMA StageEndsKeeps ==
    ASSUME EngineInv, NEW r \in Run, NEW g \in DOMAIN obj[r], NEW c \in Call,
           NEW ok \in BOOLEAN, NEW saved \in Saves, StageEnds(r, g, c, ok, saved)
    PROVE  EngineInv'
<1> DEFINE x == World(r, g)
           o == obj[r][g]
           w == [x EXCEPT !.o.fly[c] = @ - 1]
           p == [o EXCEPT !.fly = [o.fly EXCEPT ![c] = @ - 1]]
           lost == w.o.cancelled \/ w.reg # g
           done == [w EXCEPT !.o.out = @ \cup {c[1]}]
           kept == IF c[1] \in Assets THEN SaveRunning(done) ELSE done
           v == IF lost \/ ~ok THEN Finalize(w, "failed", saved)
                ELSE Proceed(kept, Asks(r, c), saved)
<1>1. /\ o.fly[c] > 0 /\ Commit(r, g, v) /\ UNCHANGED forced
      /\ CanFly([w.o EXCEPT !.stage = @ + 1])
  BY DEF StageEnds
<1>2. /\ x \in Worlds /\ x.o = o /\ x.id = <<r, g>> /\ x.reg = reg[r] /\ x.cur = current
      /\ x.hist = hist[r] /\ x.disk = disk[r] /\ o \in Object /\ g \in Nat
      /\ Fine(r, o, forced)
  BY WorldFacts
<1>t. /\ o.stage \in 0 .. NumStages /\ o.ck \in Checkpoint
      /\ o.out \in SUBSET Stage /\ o.sure \in SUBSET Stage /\ o.fly \in [Call -> 0 .. MaxFly]
  BY <1>2 DEF Object
<1>s. saved \in BOOLEAN
  BY DEF Saves
<1>c. c[1] \in Stage
  BY DEF Call
<1>3. /\ p \in Object /\ p.fly[c] = o.fly[c] - 1 /\ (\A d \in Call : d # c => p.fly[d] = o.fly[d])
      /\ p.stage = o.stage /\ p.ck = o.ck /\ p.out = o.out /\ p.sure = o.sure
      /\ p.ended = o.ended /\ p.status = o.status /\ p.cancelled = o.cancelled
  <2>1. [o.fly EXCEPT ![c] = @ - 1] \in [Call -> 0 .. MaxFly]
    BY <1>t, <1>1
  <2>2. QED
    BY <1>2, <1>t, <2>1 DEF Object
<1>4. w.o = p /\ w \in Worlds /\ Same(x, w) /\ w.disk = x.disk
  BY <1>2, <1>3 DEF Worlds, Same
<1>5. Fine(r, p, forced)
  <2>1. \A d \in Call : p.fly[d] > 0 => o.fly[d] > 0
    BY <1>t, <1>3
  <2>2. ~Idle(o)
    BY <1>1 DEF Idle
  <2>3. Shape(p)
    BY <1>2, <1>3, <2>2 DEF Fine, Shape
  <2>4. ASSUME r \notin forced PROVE Works(r, p)
    <3>1. Reached(r, o) /\ Called(r, o) /\ OneCall(o)
      BY <1>2, <2>4 DEF Fine, Works
    <3>2. Reached(r, p) /\ Called(r, p)
      BY <1>3, <2>1, <3>1 DEF Reached, Called
    <3>3. Idle(p)
      BY <1>1, <1>3, <1>t, <3>1 DEF OneCall, Idle
    <3>4. QED
      BY <3>2, <3>3, IdleWorks
  <2>5. QED
    BY <1>3, <2>3, <2>4 DEF Fine
<1> HIDE DEF x, o, w, p
<1>6. CASE lost \/ ~ok
  <2>1. v = Finalize(w, "failed", saved)
    BY <1>6
  <2> HIDE DEF v, lost
  <2>2. CASE o.ended
    <3>1. v = w
      BY <2>1, <2>2, <1>3, <1>4 DEF Finalize
    <3>2. g # reg[r]
      <4>1. reg[r] # 0 => ~obj[r][reg[r]].ended
        BY RegisteredFacts DEF Held
      <4>2. g # 0
        BY <1>2, RunTypes DEF EngineInv
      <4>3. QED
        BY <2>2, <4>1, <4>2 DEF o
    <3>3. w.reg = reg[r] /\ w.cur = current /\ w.hist = hist[r] /\ w.disk = disk[r]
      BY <1>2, <1>4 DEF Same
    <3>4. (w.o.ended <=> obj[r][g].ended) /\ Fine(r, w.o, forced)
      BY <1>3, <1>4, <1>5 DEF o
    <3>5. QED
      BY <1>1, <3>1, <3>2, <3>3, <3>4, BesideKeeps
  <2>3. CASE ~o.ended
    <3>1. /\ Over(r, w, v, forced)
          /\ v.hist.status = "cancelled" => "failed" = "cancelled"
      <4>1. w \in Worlds /\ ~w.o.ended /\ (r \notin forced => Works(r, w.o))
        BY <2>3, <1>3, <1>4, <1>5 DEF Fine
      <4>2. "failed" \in Terminal
        BY DEF Terminal
      <4>3. QED
        BY <2>1, <4>1, <4>2, <1>s, FinalizeEnds
    <3>2. Over(r, x, v, forced) /\ v.hist.status # "cancelled"
      BY <1>4, <3>1, KeptTrans
    <3>3. QED
      BY <1>1, <3>2, OverKeeps, StaysForced DEF x
  <2>4. QED
    BY <2>2, <2>3
<1>7. CASE ~lost /\ ok
  <2>0. g = reg[r] /\ reg[r] # 0
    <3>1. g = reg[r]
      BY <1>2, <1>4, <1>7 DEF Same
    <3>2. g # 0
      BY <1>2, RunTypes DEF EngineInv
    <3>3. QED
      BY <3>1, <3>2
  <2>1. Held(o) /\ DiskOK(r, o, x.disk, forced) /\ (r \notin forced => Busy(o))
    BY <1>2, <2>0, RegisteredFacts DEF o
  <2>2. o.stage < NumStages /\ o.status \in {"running", "paused"} /\ ~o.cancelled
    <3>1. ~Idle(o)
      BY <1>1 DEF Idle
    <3>2. o.stage # NumStages
      BY <1>2, <2>1, <3>1 DEF Fine, Shape, Held
    <3>3. QED
      BY <1>t, <2>1, <3>2 DEF Held
  <2>3. r \notin forced => c[1] = o.stage /\ (c[2] => c[1] \in o.sure) /\ Idle(p)
    <3>1. ASSUME r \notin forced PROVE Called(r, o) /\ OneCall(o)
      BY <1>2, <3>1 DEF Fine, Works
    <3>2. QED
      BY <1>1, <1>3, <1>t, <3>1 DEF Called, OneCall, Idle
  <2> DEFINE q == [p EXCEPT !.out = @ \cup {c[1]}]
  <2>4. v = Proceed(kept, Asks(r, c), saved)
    BY <1>7
  <2>5. /\ q \in Object /\ q.stage = o.stage /\ q.ck = o.ck /\ q.out = o.out \cup {c[1]}
        /\ q.sure = o.sure /\ q.fly = p.fly /\ q.ended = o.ended /\ q.status = o.status
        /\ q.cancelled = o.cancelled
    BY <1>3, <1>t, <1>c DEF Object
  <2>6. done.o = q /\ done \in Worlds /\ Same(x, done) /\ done.disk = x.disk
    BY <1>4, <2>5 DEF Worlds, Same
  <2>f. CanFly([q EXCEPT !.stage = @ + 1])
    <3> DEFINE m == [p EXCEPT !.stage = @ + 1]
               n == [q EXCEPT !.stage = @ + 1]
    <3>1. n.stage = m.stage /\ n.fly = m.fly /\ n.sure = m.sure
      BY <1>3, <2>5 DEF Object
    <3>2. CanFly(m)
      BY <1>1, <1>4
    <3> HIDE DEF m, n
    <3>3. CanFly(n)
      BY <3>1, <3>2 DEF CanFly, NextCall
    <3>4. QED
      BY <3>3 DEF n
  <2> HIDE DEF q, done, v, lost
  <2>7. r \notin forced => Reached(r, q) /\ Idle(q)
    BY <1>2, <2>5, <2>3 DEF Fine, Works, Reached, Idle
  <2>8. Held(q) /\ DiskOK(r, q, x.disk, forced)
    BY <2>1, <2>5 DEF Held, DiskOK, Resumes
  <2>9. kept \in Worlds /\ kept.o = q /\ Same(x, kept) /\ DiskOK(r, q, kept.disk, forced)
    <3>1. CASE c[1] \notin Assets
      BY <2>6, <2>8, <3>1
    <3>2. CASE c[1] \in Assets
      <4>1. Copy(q, "running") \in Record /\ DiskOK(r, q, Copy(q, "running"), forced)
        BY <2>5, <2>7, RunningCopy
      <4>2. kept = SaveRunning(done)
        BY <3>2
      <4>3. QED
        BY <2>6, <4>1, <4>2 DEF SaveRunning, Worlds, Same
    <3>3. QED
      BY <3>1, <3>2
  <2> HIDE DEF kept
  <2>10. r \notin forced => kept.o.stage \in kept.o.out
    BY <2>3, <2>5, <2>9
  <2>11. Kept(r, kept, v, forced) \/ Over(r, kept, v, forced)
    BY <2>2, <2>3, <2>4, <2>5, <2>f, <2>7, <2>8, <2>9, <2>10, ProceedGoes
  <2>12. CASE Kept(r, kept, v, forced)
    <3>1. Kept(r, x, v, forced)
      BY <2>9, <2>12, KeptTrans
    <3>2. Commit(r, g, v)
      BY <1>1 DEF v, kept, done, lost
    <3>3. QED
      BY <1>1, <2>0, <3>1, <3>2, KeptKeeps, StaysForced DEF x
  <2>13. CASE Over(r, kept, v, forced)
    <3>1. Over(r, x, v, forced)
      BY <2>9, <2>13, KeptTrans
    <3>2. Commit(r, g, v)
      BY <1>1 DEF v, kept, done, lost
    <3>3. g = Len(obj[r])
      BY <2>0, RegisteredFacts
    <3>4. QED
      BY <1>1, <3>1, <3>2, <3>3, OverKeeps, StaysForced DEF x
  <2>14. QED
    BY <2>11, <2>12, <2>13
<1>8. QED
  BY <1>6, <1>7


-----------------------------------------------------------------------------
(* A user's answer to a pause. *)
LEMMA ForcingDisk ==
    ASSUME NEW r \in Run, NEW o, NEW d, NEW fs, NEW gs, fs \subseteq gs, DiskOK(r, o, d, fs)
    PROVE  DiskOK(r, o, d, gs)
  BY DEF DiskOK

LEMMA PausedFacts ==
    ASSUME EngineInv, NEW r \in Run, reg[r] # 0, obj[r][reg[r]].status = "paused"
    PROVE  /\ obj[r][reg[r]].stage < NumStages /\ obj[r][reg[r]].stage \in Stage
           /\ r \notin forced =>
                 (obj[r][reg[r]].ck # "manual_pause" => Idle(obj[r][reg[r]]))
<1> DEFINE o == obj[r][reg[r]]
<1>1. Held(o) /\ (r \notin forced => Busy(o)) /\ Fine(r, o, forced) /\ o \in Object
  BY RegisteredFacts, WorldFacts
<1> HIDE DEF o
<1>2. o.status = "paused"
  BY DEF o
<1>3. o.stage # NumStages
  BY <1>1, <1>2 DEF Fine, Shape, Held
<1>4. o.stage < NumStages /\ o.stage \in Stage
  BY <1>1, <1>3 DEF Object, Stage
<1>5. QED
  BY <1>1, <1>2, <1>4 DEF Busy, o

LEMMA ConfirmedKeeps ==
    ASSUME EngineInv, NEW r \in Run, reg[r] # 0, Forces(r),
           NEW w \in Worlds, Same(World(r, reg[r]), w),
           Held(w.o), w.o.status = "paused", w.o.stage < NumStages,
           r \notin forced' => /\ Reached(r, w.o) /\ Idle(w.o) /\ w.o.stage \in w.o.out
                               /\ r \notin Batch => (Kind[w.o.stage] \in Gate => w.o.stage \in w.o.sure),
           DiskOK(r, w.o, w.disk, forced'), NEW saved \in Saves, Confirmed(r, w, saved)
    PROVE  EngineInv'
<1> DEFINE a == Advance(w, saved)
           b == IF a.o.ended THEN a ELSE [a EXCEPT !.o.status = "running"]
           v == Launch(b)
<1>1. w.id = <<r, reg[r]>> /\ Commit(r, reg[r], v) /\ CanFly(b.o)
  BY RegisteredFacts, WorldFacts DEF Confirmed, Same
<1>2. \/ Over(r, w, a, forced')
      \/ /\ Going(r, a, forced') /\ Same(w, a) /\ DiskOK(r, a.o, a.disk, forced')
         /\ a.o.stage < NumStages /\ a.o.ck = None /\ a.o.status = w.o.status
  BY AdvanceGoes
<1>r. reg[r] \in DOMAIN obj[r] /\ reg[r] = Len(obj[r])
  BY RegisteredFacts
<1> HIDE DEF a
<1>3. CASE Over(r, w, a, forced')
  <2>1. b = a /\ a.o.status # "running"
    BY <1>3 DEF Over, Terminal
  <2>2. v = a
    BY <2>1 DEF Launch
  <2> HIDE DEF v
  <2>3. Over(r, World(r, reg[r]), v, forced')
    BY <1>3, <2>2, KeptTrans
  <2>4. QED
    BY <1>1, <1>r, <2>3, OverKeeps
<1>4. CASE /\ Going(r, a, forced') /\ Same(w, a) /\ DiskOK(r, a.o, a.disk, forced')
           /\ a.o.stage < NumStages /\ a.o.ck = None /\ a.o.status = w.o.status
  <2> DEFINE o == [a.o EXCEPT !.status = "running"]
  <2>0. a \in Worlds /\ a.o \in Object /\ Shape(a.o) /\ Held(a.o) /\ ~a.o.ended /\ ~a.o.cancelled
    BY <1>4 DEF Going, Worlds, Held
  <2>1. /\ o \in Object /\ o.status = "running" /\ o.stage = a.o.stage /\ o.ck = None
        /\ o.out = a.o.out /\ o.sure = a.o.sure /\ o.fly = a.o.fly /\ o.ended = a.o.ended
        /\ o.cancelled = a.o.cancelled
    BY <1>4, <2>0 DEF Object, Status
  <2>2. b = [a EXCEPT !.o.status = "running"]
    BY <2>0
  <2>3. b \in Worlds /\ b.o = o /\ Same(a, b)
    BY <2>0, <2>1, <2>2 DEF Worlds, Same
  <2> HIDE DEF o, b
  <2>4. Shape(o) /\ Held(o)
    BY <1>4, <2>0, <2>1 DEF Shape, Held
  <2>5. r \notin forced' => Reached(r, o) /\ Idle(o)
    BY <1>4, <2>1 DEF Going, Reached, Idle
  <2>6. Going(r, b, forced')
    BY <2>1, <2>3, <2>4, <2>5 DEF Going
  <2>7. Kept(r, b, v, forced')
    BY <1>1, <1>4, <2>1, <2>3, <2>6, LaunchKeeps DEF b
  <2>8. Same(World(r, reg[r]), b)
    BY <1>4, <2>3 DEF Same
  <2> HIDE DEF v
  <2>9. Kept(r, World(r, reg[r]), v, forced')
    BY <2>7, <2>8, KeptTrans
  <2>10. QED
    BY <1>1, <2>9, KeptKeeps
<1>5. QED
  BY <1>2, <1>3, <1>4

LEMMA ConfirmSceneAssetsKeeps ==
    ASSUME EngineInv, NEW r \in Run, NEW saved \in Saves, ConfirmSceneAssets(r, saved)
    PROVE  EngineInv'
<1> DEFINE x == World(r, reg[r])
           o == obj[r][reg[r]]
           w == [x EXCEPT !.o.sure = @ \cup {Registered(r).stage}]
           p == [o EXCEPT !.sure = @ \cup {o.stage}]
<1>1. /\ reg[r] # 0 /\ Registered(r) = o /\ x \in Worlds /\ x.o = o /\ o \in Object
      /\ x.disk = disk[r] /\ Held(o) /\ Fine(r, o, forced) /\ DiskOK(r, o, disk[r], forced)
      /\ o.status = "paused" /\ o.ck = "scene_asset_selection" /\ Confirmed(r, w, saved)
      /\ UNCHANGED forced
  BY RegisteredFacts, WorldFacts DEF ConfirmSceneAssets, Waits
<1>2. /\ o.stage \in Stage /\ o.stage < NumStages
      /\ r \notin forced => Idle(o) /\ Reached(r, o) /\ o.stage \in o.out
  BY <1>1, PausedFacts DEF Fine, Works, Reached, Pause
<1>3. /\ p \in Object /\ p.sure = o.sure \cup {o.stage} /\ p.stage = o.stage /\ p.ck = o.ck
      /\ p.out = o.out /\ p.fly = o.fly /\ p.ended = o.ended /\ p.status = o.status
      /\ p.cancelled = o.cancelled
  BY <1>1, <1>2 DEF Object
<1>4. w.o = p /\ w \in Worlds /\ Same(x, w) /\ w.disk = x.disk
  BY <1>1, <1>3 DEF Worlds, Same
<1> HIDE DEF x, o, w, p
<1>5. Held(p) /\ DiskOK(r, p, w.disk, forced)
  BY <1>1, <1>3, <1>4 DEF Held, DiskOK, Resumes
<1>6. r \notin forced => Reached(r, p) /\ Idle(p) /\ p.stage \in p.out /\ p.stage \in p.sure
  BY <1>2, <1>3 DEF Reached, Passed, Idle
<1>7. forced' = forced /\ Forces(r)
  BY <1>1, StaysForced
<1>8. QED
  BY <1>1, <1>2, <1>3, <1>4, <1>5, <1>6, <1>7, ConfirmedKeeps DEF x

LEMMA AdvanceToNextKeeps ==
    ASSUME EngineInv, NEW r \in Run, NEW saved \in Saves, AdvanceToNextCheckpoint(r, saved)
    PROVE  EngineInv'
<1> DEFINE x == World(r, reg[r])
           o == obj[r][reg[r]]
<1>1. /\ reg[r] # 0 /\ Registered(r) = o /\ x \in Worlds /\ x.o = o /\ o \in Object
      /\ x.disk = disk[r] /\ Held(o) /\ Fine(r, o, forced) /\ DiskOK(r, o, disk[r], forced)
      /\ (r \notin forced => Busy(o))
      /\ forced' = IF o.ck = "stage" THEN forced ELSE forced \cup {r}
  BY RegisteredFacts, WorldFacts DEF AdvanceToNextCheckpoint
<1> HIDE DEF x, o
<1>2. Forces(r) /\ (r \notin forced' => r \notin forced /\ o.ck = "stage")
  BY <1>1 DEF Forces
<1>3. DiskOK(r, o, x.disk, forced')
  BY <1>1, <1>2, ForcingDisk DEF Forces
<1>4. CASE o.status = "paused" /\ Confirmed(r, x, saved)
  <2>1. o.stage < NumStages /\ (r \notin forced' => Idle(o))
    BY <1>1, <1>2, <1>4, PausedFacts DEF o
  <2>2. r \notin forced' => /\ Reached(r, o) /\ o.stage \in o.out
                            /\ Kind[o.stage] \notin Gate
    BY <1>1, <1>2 DEF Fine, Works, Reached, Pause, Gate
  <2>3. QED
    BY <1>1, <1>2, <1>3, <1>4, <2>1, <2>2, ConfirmedKeeps DEF x, Same
<1>5. CASE o.status = "running" /\ CanFly(o) /\ Commit(r, reg[r], Launch(x))
  <2>1. r \in forced'
    BY <1>1, <1>2, <1>5 DEF Busy, Pause
  <2>2. Going(r, x, forced')
    BY <1>1, <2>1 DEF Going, Fine
  <2>3. Kept(r, x, Launch(x), forced')
    BY <1>1, <1>3, <1>5, <2>2, LaunchKeeps
  <2>4. QED
    BY <1>1, <1>2, <1>5, <2>3, KeptKeeps DEF x
<1>6. QED
  BY <1>1, <1>4, <1>5 DEF AdvanceToNextCheckpoint, IsRunning, x

LEMMA ConfirmStageGateKeeps ==
    ASSUME EngineInv, NEW r \in Run, ConfirmStageGate(r)
    PROVE  EngineInv'
<1> DEFINE x == World(r, reg[r])
           o == obj[r][reg[r]]
           w == [x EXCEPT !.o.sure = @ \cup {Registered(r).stage},
                          !.o.ck = None, !.o.status = "running"]
           p == [[[o EXCEPT !.sure = @ \cup {o.stage}] EXCEPT !.ck = None] EXCEPT !.status = "running"]
<1>1. /\ reg[r] # 0 /\ Registered(r) = o /\ x \in Worlds /\ x.o = o /\ o \in Object
      /\ x.disk = disk[r] /\ Held(o) /\ Fine(r, o, forced) /\ DiskOK(r, o, disk[r], forced)
      /\ o.status = "paused" /\ CanFly(w.o) /\ Commit(r, reg[r], Launch(w))
      /\ forced' = IF o.ck = "manual_pause" THEN forced \cup {r} ELSE forced
  BY RegisteredFacts, WorldFacts DEF ConfirmStageGate
<1>f. Forces(r) /\ (r \notin forced' => r \notin forced /\ o.ck # "manual_pause")
  BY <1>1 DEF Forces
<1>2. /\ o.stage \in Stage /\ o.stage < NumStages
      /\ r \notin forced' => Idle(o) /\ Reached(r, o)
  BY <1>1, <1>f, PausedFacts DEF Fine, Works
<1>3. /\ p \in Object /\ p.sure = o.sure \cup {o.stage} /\ p.stage = o.stage /\ p.ck = None
      /\ p.out = o.out /\ p.fly = o.fly /\ p.ended = o.ended /\ p.status = "running"
      /\ p.cancelled = o.cancelled
  BY <1>1, <1>2 DEF Object, Checkpoint, Status
<1>4. w.o = p /\ w \in Worlds /\ Same(x, w) /\ w.disk = x.disk
  BY <1>1, <1>3 DEF Worlds, Same
<1> HIDE DEF x, o, w, p
<1>5. r \notin forced' => Reached(r, p) /\ Idle(p)
  BY <1>2, <1>3 DEF Reached, Passed, Idle, Pause
<1>6. Shape(p) /\ Held(p)
  BY <1>1, <1>2, <1>3 DEF Shape, Held
<1>7. Going(r, w, forced')
  BY <1>3, <1>4, <1>5, <1>6 DEF Going
<1>8. Kept(r, w, Launch(w), forced')
  BY <1>1, <1>2, <1>3, <1>4, <1>7, LaunchKeeps
<1>9. Kept(r, x, Launch(w), forced')
  BY <1>4, <1>8, KeptTrans
<1>10. QED
  BY <1>1, <1>f, <1>9, KeptKeeps DEF x

-----------------------------------------------------------------------------
(* A new object under a run id. *)
LEMMA RegisterKeeps ==
    ASSUME EngineInv, NEW r \in Run, NEW o \in Object, Shape(o), Idle(o),
           r \notin forced => Reached(r, o),
           ~o.ended, ~o.cancelled, o.status \in {"running", "paused"},
           o.status = "running" => o.ck = None, o.status = "paused" => o.ck # "manual_pause",
           NEW keep \in Record,
           (o.status = "running" /\ o.stage < NumStages) \/ DiskOK(r, o, keep, forced),
           hist[r] # None => hist[r].status = "failed",
           NEW indexed \in BOOLEAN, indexed \/ obj[r] = <<>>, Register(r, o, indexed, keep)
    PROVE  EngineInv'
<1> DEFINE g == Len(obj[r]) + 1
           w == [id |-> <<r, g>>, o |-> o, reg |-> g,
                 cur |-> IF indexed THEN <<r, g>> ELSE current,
                 hist |-> hist[r], disk |-> keep]
           v == Launch(w)
<1>1. /\ g <= MaxLives[r] /\ obj' = [obj EXCEPT ![r] = Append(@, v.o)]
      /\ reg' = [reg EXCEPT ![r] = g] /\ current' = v.cur
      /\ disk' = [disk EXCEPT ![r] = v.disk] /\ hist' = hist /\ boots' = boots
      /\ forced' = forced
  BY DEF Register
<1>2. /\ obj[r] \in Seq(Object) /\ hist[r] \in Record
      /\ RunOK(r, obj[r], reg[r], hist[r], disk[r], forced)
      /\ current \in (Run \X Nat) \cup {None}
  BY DEF EngineInv, Pointed
<1>3. w \in Worlds /\ w.o = o /\ w.disk = keep
  BY <1>2 DEF Worlds
<1>4. w.cur = (IF indexed THEN <<r, g>> ELSE current) /\ w.hist = hist[r]
  OBVIOUS
<1>c. CanFly(o)
  <2>1. o.stage < NumStages => NextCall(o) \in Call
    <3>1. (o.stage \in o.sure) \in BOOLEAN
      OBVIOUS
    <3>2. o.stage < NumStages => o.stage \in Stage
      BY DEF Object, Stage
    <3>3. QED
      BY <3>1, <3>2 DEF NextCall, Call
  <2>2. QED
    BY <2>1 DEF CanFly, Idle
<1> HIDE DEF w
<1>5. Going(r, w, forced)
  BY <1>3 DEF Going, Held
<1>6. Kept(r, w, v, forced)
  BY <1>3, <1>5, <1>c, LaunchKeeps
<1> HIDE DEF v
<1>7. /\ v.o \in Object /\ v.disk \in Record /\ v.cur = w.cur /\ ~v.o.ended
      /\ Fine(r, v.o, forced) /\ Held(v.o) /\ (r \notin forced => Busy(v.o))
      /\ DiskOK(r, v.o, v.disk, forced)
  BY <1>6 DEF Kept, Worlds, Same, Held
<1>8. RunOK(r, Append(obj[r], v.o), g, hist[r], v.disk, forced)
  BY <1>1, <1>2, <1>7, Joins
<1>9. \A q \in Run \ {r} : RunOK(q, obj'[q], reg'[q], hist'[q], disk'[q], forced')
  BY <1>1, OthersKeep, StaysForced DEF EngineInv
<1>10. RunOK(r, obj'[r], reg'[r], hist'[r], disk'[r], forced')
  BY <1>1, <1>8 DEF EngineInv
<1>11. /\ obj' \in [Run -> Seq(Object)] /\ reg' \in [Run -> Nat]
       /\ hist' \in [Run -> Record] /\ disk' \in [Run -> Record] /\ boots' \in 0 .. MaxBoots
       /\ forced' \subseteq Run
  BY <1>1, <1>2, <1>7 DEF EngineInv
<1>12. Pointed'
  <2>1. /\ obj'[r] = Append(obj[r], v.o) /\ \A q \in Run \ {r} : obj'[q] = obj[q]
    BY <1>1 DEF EngineInv
  <2>2. obj'[r] # <<>> /\ Len(obj'[r]) = g /\ obj'[r][g] = v.o
    <3>1. Append(obj[r], v.o) \in Seq(Object) /\ Len(Append(obj[r], v.o)) = g
          /\ Append(obj[r], v.o)[g] = v.o /\ Append(obj[r], v.o) # <<>>
      BY <1>2, <1>7
    <3>2. QED
      BY <2>1, <3>1
  <2>3. CASE indexed
    BY <1>1, <1>4, <1>7, <2>2, <2>3 DEF Pointed
  <2>4. CASE ~indexed
    <3>1. obj[r] = <<>> /\ current' = current
      BY <1>1, <1>4, <1>7, <2>4
    <3>2. CASE current # None
      <4>1. PICK q \in Run : /\ obj[q] # <<>> /\ current = <<q, Len(obj[q])>>
                             /\ ~obj[q][Len(obj[q])].ended
        BY <3>2 DEF EngineInv, Pointed
      <4>2. obj'[q] = obj[q]
        BY <2>1, <3>1, <4>1
      <4>3. QED
        BY <3>1, <4>1, <4>2 DEF Pointed
    <3>3. QED
      BY <3>1, <3>2 DEF Pointed
  <2>5. QED
    BY <2>3, <2>4
<1>13. QED
  BY <1>9, <1>10, <1>11, <1>12 DEF EngineInv

LEMMA RestoreFacts ==
    ASSUME NEW n, n.stage \in 0 .. NumStages, n.out \in SUBSET Stage, n.sure \in SUBSET Stage,
           NEW status \in Status, NEW ck \in Checkpoint
    PROVE  LET o == Restore(n, status, ck)
           IN  /\ o \in Object /\ o.status = status /\ o.stage = n.stage /\ o.ck = ck
               /\ o.out = n.out /\ o.sure = n.sure /\ ~o.cancelled /\ ~o.ended /\ Idle(o)
<1>1. [c \in Call |-> 0] \in [Call -> 0 .. MaxFly]
  OBVIOUS
<1>2. QED
  BY <1>1 DEF Restore, Object, Idle

LEMMA StartKeeps ==
    ASSUME EngineInv, NEW r \in Run, Start(r)
    PROVE  EngineInv'
<1> DEFINE n == [stage |-> 0, out |-> {}, sure |-> {}]
           o == Restore(n, "running", None)
           indexed == r \notin Batch
<1>1. obj[r] = <<>> /\ hist[r] = None /\ Register(r, o, indexed, None)
  BY DEF Start
<1>2. /\ o \in Object /\ o.status = "running" /\ o.stage = 0 /\ o.ck = None
      /\ ~o.cancelled /\ ~o.ended /\ Idle(o)
  BY RestoreFacts DEF Status, Checkpoint
<1> HIDE DEF o
<1>3. Reached(r, o) /\ Shape(o)
  BY <1>2 DEF Reached, Passed, Pause, Shape
<1>4. indexed \in BOOLEAN /\ 0 < NumStages
  OBVIOUS
<1> HIDE DEF indexed
<1>5. QED
  BY <1>1, <1>2, <1>3, <1>4, SnapshotIsRecord, RegisterKeeps

LEMMA ResumeKeeps ==
    ASSUME EngineInv, NEW r \in Run, ResumeOrchestration(r)
    PROVE  EngineInv'
<1> DEFINE n == Source(r)
<1>1. RunOK(r, obj[r], reg[r], hist[r], disk[r], forced)
  BY DEF EngineInv
<1>2. n # None /\ n \in Snapshot /\ (r \notin forced => Reached(r, n))
  BY <1>1 DEF ResumeOrchestration, Source, RunOK, Records, Record
<1>3. Waits(n) \/ Resumable(n)
  BY DEF ResumeOrchestration
<1>5. hist[r] # None => hist[r].status = "failed"
  BY <1>1, <1>3 DEF Source, Waits, Resumable, RunOK, Records, Terminal
<1>t. n.stage \in 0 .. NumStages /\ n.out \in SUBSET Stage /\ n.sure \in SUBSET Stage
      /\ n.ck \in Checkpoint
  BY <1>2 DEF Snapshot
<1>7. CASE Waits(n) /\ Register(r, Restore(n, "paused", n.ck), TRUE, disk[r])
  <2> DEFINE o == Restore(n, "paused", n.ck)
  <2>1. /\ o \in Object /\ o.status = "paused" /\ o.stage = n.stage /\ o.ck = n.ck
        /\ o.out = n.out /\ o.sure = n.sure /\ ~o.cancelled /\ ~o.ended /\ Idle(o)
    BY <1>t, RestoreFacts DEF Status
  <2> HIDE DEF o
  <2>2. n = disk[r] /\ n.status = "paused"
    BY <1>5, <1>7 DEF Source, Waits
  <2>3. o.stage < NumStages
    BY <1>1, <1>2, <2>1, <2>2 DEF RunOK, Records
  <2>4. Shape(o) /\ (r \notin forced => Reached(r, o))
    BY <1>2, <1>t, <2>1, <2>3 DEF Reached, Shape
  <2>5. DiskOK(r, o, disk[r], forced)
    <3>1. disk[r] \in Record /\ disk[r] # None /\ ~Cancelled(disk[r])
      BY <1>2, <2>2, SnapshotIsRecord DEF Cancelled
    <3>2. (r \notin forced => Reached(r, disk[r])) /\ disk[r].stage < NumStages
      BY <1>2, <2>1, <2>2, <2>3
    <3>3. disk[r].stage <= o.stage /\ Waits(disk[r])
      BY <1>t, <1>7, <2>1, <2>2
    <3> HIDE DEF n
    <3>4. QED
      BY <3>1, <3>2, <3>3 DEF DiskOK, Resumes
  <2>6. o.ck # "manual_pause" /\ disk[r] \in Record
    BY <1>1, <1>7, <2>1, RunTypes DEF Waits
  <2> HIDE DEF n
  <2>7. QED
    BY <1>5, <1>7, <2>1, <2>4, <2>5, <2>6, RegisterKeeps DEF o
<1>8. CASE Resumable(n) /\ Register(r, Restore(n, "running", None), TRUE, None)
  <2> DEFINE o == Restore(n, "running", None)
  <2>1. /\ o \in Object /\ o.status = "running" /\ o.stage = n.stage /\ o.ck = None
        /\ o.out = n.out /\ o.sure = n.sure /\ ~o.cancelled /\ ~o.ended /\ Idle(o)
    BY <1>t, RestoreFacts DEF Status, Checkpoint
  <2> HIDE DEF o
  <2>3. Shape(o) /\ (r \notin forced => Reached(r, o))
    BY <1>2, <2>1 DEF Reached, Pause, Shape
  <2>4. (o.status = "running" /\ o.stage < NumStages) \/ DiskOK(r, o, None, forced)
    BY <2>1, SnapshotIsRecord DEF DiskOK, Cancelled
  <2> HIDE DEF n
  <2>5. QED
    BY <1>5, <1>8, <2>1, <2>3, <2>4, SnapshotIsRecord, RegisterKeeps DEF o
<1>9. QED
  BY <1>7, <1>8 DEF ResumeOrchestration

LEMMA DeleteRunKeeps ==
    ASSUME EngineInv, NEW r \in Run, DeleteRun(r)
    PROVE  EngineInv'
<1>1. RunOK(r, obj[r], reg[r], hist[r], disk[r], forced)
  BY DEF EngineInv
<1>3. RunOK(r, obj[r], 0, None, None, forced)
  BY <1>1, Deleted
<1>4. /\ reg' = [reg EXCEPT ![r] = 0] /\ hist' = [hist EXCEPT ![r] = None]
      /\ disk' = [disk EXCEPT ![r] = None] /\ obj' = obj /\ boots' = boots /\ forced' = forced
      /\ current' = IF reg[r] # 0 /\ current = <<r, reg[r]>> THEN None ELSE current
  BY DEF DeleteRun
<1>5. /\ obj' \in [Run -> Seq(Object)] /\ reg' \in [Run -> Nat] /\ forced' \subseteq Run
      /\ hist' \in [Run -> Record] /\ disk' \in [Run -> Record] /\ boots' \in 0 .. MaxBoots
  BY <1>4, SnapshotIsRecord DEF EngineInv
<1>6. RunOK(r, obj'[r], reg'[r], hist'[r], disk'[r], forced')
  BY <1>3, <1>4 DEF EngineInv
<1>7. \A q \in Run \ {r} : RunOK(q, obj'[q], reg'[q], hist'[q], disk'[q], forced')
  BY <1>4, OthersKeep, StaysForced DEF EngineInv
<1>8. Pointed'
  BY <1>4 DEF EngineInv, Pointed
<1>9. QED
  BY <1>5, <1>6, <1>7, <1>8 DEF EngineInv

LEMMA RestartKeeps ==
    ASSUME EngineInv, NEW flush \in BOOLEAN, Restart(flush)
    PROVE  EngineInv'
<1> DEFINE e(r) == IF flush /\ IsRunning(r) THEN Copy(Registered(r), "running") ELSE disk[r]
<1>1. ASSUME NEW r \in Run
      PROVE  /\ e(r) \in Record /\ (r \notin forced => (e(r) # None => Reached(r, e(r))))
             /\ e(r) # None /\ e(r).status = "paused" => e(r).stage < NumStages
  <2>1. RunOK(r, obj[r], reg[r], hist[r], disk[r], forced)
    BY DEF EngineInv
  <2>2. CASE ~(flush /\ IsRunning(r))
    BY <2>1, <2>2 DEF RunOK, Records
  <2>3. CASE flush /\ IsRunning(r)
    <3> DEFINE o == obj[r][reg[r]]
    <3>1. Registered(r) = o /\ o \in Object /\ Fine(r, o, forced)
      BY <2>3, RegisteredFacts, WorldFacts DEF IsRunning
    <3> HIDE DEF o
    <3>2. /\ Copy(o, "running") \in Record /\ Copy(o, "running").status = "running"
          /\ (Reached(r, o) => Reached(r, Copy(o, "running")))
      BY <3>1, ObjectFacts, CopyIsSnapshot DEF Status
    <3>3. QED
      BY <2>3, <3>1, <3>2 DEF Fine, Works
  <2>4. QED
    BY <2>2, <2>3
<1>2. /\ disk' = [r \in Run |-> e(r)] /\ obj' = [r \in Run |-> <<>>] /\ reg' = [r \in Run |-> 0]
      /\ current' = None /\ hist' = [r \in Run |-> None] /\ boots' \in 0 .. MaxBoots
      /\ forced' = forced /\ forced \subseteq Run
  BY DEF Restart, EngineInv
<1> HIDE DEF e
<1>3. \A r \in Run : RunOK(r, obj'[r], reg'[r], hist'[r], disk'[r], forced')
  BY <1>1, <1>2, Restarted
<1>4. QED
  BY <1>1, <1>2, <1>3, SnapshotIsRecord DEF EngineInv, Pointed

-----------------------------------------------------------------------------
LEMMA EngineInvInit == Init => EngineInv
<1> SUFFICES ASSUME Init PROVE EngineInv
  OBVIOUS
<1>1. \A r \in Run : RunOK(r, <<>>, 0, None, None, forced)
  BY SnapshotIsRecord, Restarted
<1>2. QED
  BY <1>1, SnapshotIsRecord DEF Init, EngineInv, Pointed

LEMMA EngineInvStep == EngineInv /\ [Next]_vars => EngineInv'
<1> SUFFICES ASSUME EngineInv, [Next]_vars PROVE EngineInv'
  OBVIOUS
<1>1. CASE Cancel
  BY <1>1, CancelKeeps
<1>2. CASE Exit \/ Crash
  BY <1>2, RestartKeeps DEF Exit, Crash
<1>3. ASSUME NEW r \in Run, User(r) PROVE EngineInv'
  <2>1. CASE Start(r)
    BY <2>1, StartKeeps
  <2>2. CASE PauseRun(r)
    BY <2>2, PauseRunKeeps
  <2>3. CASE CancelRun(r)
    BY <2>3, RegisteredFacts, CancelObjectKeeps DEF CancelRun, Held
  <2>4. CASE ResumeOrchestration(r)
    BY <2>4, ResumeKeeps
  <2>5. CASE DeleteRun(r)
    BY <2>5, DeleteRunKeeps
  <2>6. CASE ConfirmStageGate(r)
    BY <2>6, ConfirmStageGateKeeps
  <2>7. CASE \E saved \in Saves : ConfirmSceneAssets(r, saved) \/ AdvanceToNextCheckpoint(r, saved)
    BY <2>7, ConfirmSceneAssetsKeeps, AdvanceToNextKeeps
  <2>8. QED
    BY <1>3, <2>1, <2>2, <2>3, <2>4, <2>5, <2>6, <2>7 DEF User
<1>4. ASSUME NEW r \in Run, Executor(r) PROVE EngineInv'
  BY <1>4, StageSavesKeeps, StageEndsKeeps DEF Executor, SomeStageEnds
<1>5. CASE UNCHANGED vars
  BY <1>5 DEF vars, EngineInv, Pointed
<1>6. QED
  BY <1>1, <1>2, <1>3, <1>4, <1>5 DEF Next

LEMMA EngineInvAlways == EngineSpec => []EngineInv
  BY EngineInvInit, EngineInvStep, PTL DEF EngineSpec

-----------------------------------------------------------------------------
LEMMA InvTypes == EngineInv => EngineTypeOK
<1> SUFFICES ASSUME EngineInv PROVE EngineTypeOK
  OBVIOUS
<1>1. \A r \in Run : /\ obj[r] \in Seq(Object) /\ Len(obj[r]) <= MaxLives[r]
                      /\ reg[r] \in 0 .. Len(obj[r])
                      /\ hist[r] \in Snapshot \cup {None} /\ disk[r] \in Snapshot \cup {None}
  BY DEF EngineInv, RunOK, Objects, Record
<1>2. current = None \/ \E r \in Run : current[1] = r /\ current[2] \in DOMAIN obj[r]
  <2>1. CASE current # None
    <3>1. PICK r \in Run : obj[r] # <<>> /\ current = <<r, Len(obj[r])>>
      BY <2>1 DEF EngineInv, Pointed
    <3>2. obj[r] \in Seq(Object)
      BY <1>1
    <3>3. Len(obj[r]) \in DOMAIN obj[r]
      BY <3>1, <3>2
    <3>4. QED
      BY <3>1, <3>3
  <2>2. QED
    BY <2>1
<1>3. QED
  BY <1>1, <1>2 DEF EngineInv, EngineTypeOK

LEMMA InvWorks ==
    ASSUME EngineInv, NEW r \in Run \ forced, NEW g \in DOMAIN obj[r]
    PROVE  Called(r, obj[r][g]) /\ OneCall(obj[r][g])
  BY DEF EngineInv, RunOK, Objects, Works

LEMMA InvOneExecutor == EngineInv => OneExecutor
<1> SUFFICES ASSUME EngineInv PROVE OneExecutor
  OBVIOUS
<1>1. ASSUME NEW r \in Run \ forced, IsRunning(r), HasStages(r)
      PROVE  \E c \in Call : Registered(r).fly[c] > 0
  <2> DEFINE o == obj[r][reg[r]]
  <2>1. /\ Registered(r) = o /\ Busy(o) /\ o \in Object /\ o.status = "running"
        /\ o.stage < NumStages
    BY <1>1, RegisteredFacts, WorldFacts DEF IsRunning, HasStages
  <2>2. ~Idle(o) /\ o.fly \in [Call -> 0 .. MaxFly]
    BY <2>1 DEF Busy, Object
  <2>3. QED
    BY <2>1, <2>2 DEF Idle
<1>2. ASSUME NEW r \in Run \ forced, NEW g \in DOMAIN obj[r], NEW c \in Call, NEW d \in Call,
             Flies(r, g, c), Flies(r, g, d)
      PROVE  c = d /\ obj[r][g].fly[c] = 1
  BY <1>2, InvWorks DEF OneCall, Flies
<1>3. QED
  BY <1>1, <1>2, InvTypes DEF OneExecutor

LEMMA InvRecoverable == EngineInv => Recoverable
<1> SUFFICES ASSUME EngineInv PROVE Recoverable
  OBVIOUS
<1>1. ASSUME NEW r \in Run \ forced, Live(r)
      PROVE  /\ disk[r] # None /\ (Waits(disk[r]) \/ Resumable(disk[r]))
             /\ disk[r].stage <= Registered(r).stage
             /\ 0 .. disk[r].stage - 1 \subseteq disk[r].out
  BY <1>1 DEF Live, HasStages, Registered, EngineInv, RunOK, Records, Slots, Resumes, Reached
<1>2. ASSUME NEW r \in Run, hist[r] # None, hist[r].status = "completed"
      PROVE  disk[r] = None
  BY <1>2 DEF EngineInv, RunOK, Records
<1>3. QED
  BY <1>1, <1>2 DEF Recoverable

-----------------------------------------------------------------------------
(* A run whose record says cancelled: a step leaves it, or is the answer   *)
(* to an object that was replaced.                                         *)
Stays(r) ==
    \/ /\ disk'[r] \in {disk[r], None}
       /\ obj'[r] # <<>> => Len(obj'[r]) = Len(obj[r])
    \/ \E g \in DOMAIN obj[r] : LateAnswer(r, g)

LEMMA CancelledFacts ==
    ASSUME EngineInv, NEW r \in Run, Cancelled(disk[r])
    PROVE  /\ reg[r] = 0 /\ (hist[r] # None => hist[r].status = "cancelled")
           /\ obj[r] # <<>> => obj[r][Len(obj[r])].ended
  BY DEF EngineInv, RunOK, Slots

LEMMA CommitStays ==
    ASSUME EngineInv, NEW r \in Run, NEW g \in DOMAIN obj[r], NEW v, Commit(r, g, v),
           \/ ~Cancelled(disk[r]) \/ v.disk = disk[r]
           \/ g < Len(obj[r]) /\ ~obj[r][g].ended /\ v.o.ended
    PROVE  \A q \in Run : Cancelled(disk[q]) => Stays(q)
<1>1. /\ obj' = [obj EXCEPT ![r] = [obj[r] EXCEPT ![g] = v.o]]
      /\ disk' = [disk EXCEPT ![r] = v.disk]
      /\ obj \in [Run -> Seq(Object)] /\ disk \in [Run -> Record]
  BY DEF Commit, EngineInv
<1>2. ASSUME NEW q \in Run, q # r PROVE Stays(q)
  BY <1>1, <1>2 DEF Stays
<1>3. ASSUME Cancelled(disk[r]) PROVE Stays(r)
  <2>1. /\ disk'[r] = v.disk /\ obj'[r] = [obj[r] EXCEPT ![g] = v.o] /\ obj[r] \in Seq(Object)
    BY <1>1
  <2>2. Len(obj'[r]) = Len(obj[r]) /\ obj'[r][g] = v.o
    BY <2>1
  <2>3. CASE v.disk = disk[r]
    BY <2>1, <2>2, <2>3 DEF Stays
  <2>4. CASE g < Len(obj[r]) /\ ~obj[r][g].ended /\ v.o.ended
    BY <2>2, <2>4 DEF Stays, LateAnswer
  <2>5. QED
    BY <1>3, <2>3, <2>4
<1>4. QED
  BY <1>2, <1>3

(* A handler of the registered run. *)
LEMMA HandlerStays ==
    ASSUME EngineInv, NEW r \in Run, reg[r] # 0, NEW v, Commit(r, reg[r], v)
    PROVE  \A q \in Run : Cancelled(disk[q]) => Stays(q)
<1>1. ~Cancelled(disk[r])
  BY CancelledFacts
<1>2. QED
  BY <1>1, RegisteredFacts, CommitStays

LEMMA StageEndsStays ==
    ASSUME EngineInv, NEW r \in Run, NEW g \in DOMAIN obj[r], NEW c \in Call,
           NEW ok \in BOOLEAN, NEW saved \in Saves, StageEnds(r, g, c, ok, saved)
    PROVE  \A q \in Run : Cancelled(disk[q]) => Stays(q)
<1>1. CASE ~Cancelled(disk[r])
  BY <1>1, CommitStays DEF StageEnds
<1>2. CASE Cancelled(disk[r])
  <2> DEFINE o == obj[r][g]
             p == [o EXCEPT !.fly = [o.fly EXCEPT ![c] = @ - 1]]
             w == [World(r, g) EXCEPT !.o.fly[c] = @ - 1]
             v == Finalize(w, "failed", saved)
  <2>1. reg[r] = 0 /\ (obj[r] # <<>> => obj[r][Len(obj[r])].ended)
    BY <1>2, CancelledFacts
  <2>2. o \in Object /\ World(r, g) \in Worlds /\ World(r, g).o = o /\ World(r, g).reg = 0
        /\ World(r, g).disk = disk[r] /\ obj[r] \in Seq(Object)
    BY <2>1, WorldFacts
  <2>3. p.ended = o.ended
    BY <2>2 DEF Object
  <2>4. w.o = p /\ w.reg = 0 /\ w.disk = disk[r]
    BY <2>2 DEF Worlds
  <2>5. Commit(r, g, v)
    <3>1. g # 0
      BY <2>2
    <3>2. QED
      BY <2>4, <3>1 DEF StageEnds
  <2>6. w \in Worlds
    <3>1. o.fly \in [Call -> 0 .. MaxFly] /\ o.fly[c] > 0
      BY <2>2 DEF Object, StageEnds
    <3>2. [o.fly EXCEPT ![c] = @ - 1] \in [Call -> 0 .. MaxFly]
      BY <3>1
    <3>3. p \in Object
      BY <2>2, <3>2 DEF Object
    <3> HIDE DEF p
    <3>4. QED
      BY <2>2, <2>4, <3>3 DEF Worlds
  <2>7. g \in 1 .. Len(obj[r]) /\ Len(obj[r]) \in Nat /\ obj[r] # <<>>
    BY <2>2
  <2> HIDE DEF p, w
  <2>8. CASE o.ended
    <3>1. v.disk = disk[r]
      BY <2>3, <2>4, <2>8 DEF Finalize
    <3> HIDE DEF v
    <3>2. QED
      BY <2>5, <3>1, CommitStays
  <2>9. CASE ~o.ended
    <3>1. g < Len(obj[r])
      BY <2>1, <2>7, <2>9
    <3>2. v.o.ended
      <4> DEFINE copy == Copy(w.o, "failed")
                 m == [w EXCEPT !.o = [w.o EXCEPT !.status = "failed"]]
                 n == [m EXCEPT !.o = [m.o EXCEPT !.ended = TRUE]]
      <4>1. v = [n EXCEPT !.disk = copy, !.hist = copy, !.reg = 0,
                          !.cur = IF @ = w.id THEN None ELSE @]
        BY <2>3, <2>4, <2>9 DEF Finalize
      <4>2. n.o.ended /\ v.o = n.o
        BY <2>6, <4>1 DEF Worlds, Object
      <4>3. QED
        BY <4>2
    <3> HIDE DEF v
    <3>3. QED
      BY <2>5, <2>9, <3>1, <3>2, CommitStays
  <2>10. QED
    BY <2>8, <2>9
<1>3. QED
  BY <1>1, <1>2

LEMMA RegisterStays ==
    ASSUME EngineInv, NEW r \in Run, NEW o, NEW indexed, NEW keep, Register(r, o, indexed, keep),
           ~Cancelled(disk[r])
    PROVE  \A q \in Run : Cancelled(disk[q]) => Stays(q)
  BY DEF Register, Stays, EngineInv

LEMMA ResumeStays ==
    ASSUME EngineInv, NEW r \in Run, ResumeOrchestration(r)
    PROVE  \A q \in Run : Cancelled(disk[q]) => Stays(q)
<1>1. Waits(Source(r)) \/ Resumable(Source(r))
  BY DEF ResumeOrchestration
<1>2. Source(r).status # "cancelled"
  BY <1>1 DEF Waits, Resumable
<1>3. ~Cancelled(disk[r])
  BY <1>2, CancelledFacts DEF Source, Cancelled
<1>4. QED
  BY <1>3, RegisterStays DEF ResumeOrchestration

LEMMA ConfirmStays ==
    ASSUME EngineInv, NEW r \in Run, NEW saved \in Saves,
           ConfirmSceneAssets(r, saved) \/ AdvanceToNextCheckpoint(r, saved)
    PROVE  \A q \in Run : Cancelled(disk[q]) => Stays(q)
<1>1. reg[r] # 0
  BY DEF ConfirmSceneAssets, AdvanceToNextCheckpoint
<1>3. ASSUME NEW w, w.id = <<r, reg[r]>>, Confirmed(r, w, saved)
      PROVE  \A q \in Run : Cancelled(disk[q]) => Stays(q)
  <2>1. w.id[2] = reg[r]
    BY <1>3
  <2>2. PICK v : Commit(r, reg[r], v)
    BY <1>3, <2>1 DEF Confirmed
  <2>3. QED
    BY <1>1, <2>2, HandlerStays
<1>4. CASE ConfirmSceneAssets(r, saved)
  <2> DEFINE w == [World(r, reg[r]) EXCEPT !.o.sure = @ \cup {Registered(r).stage}]
  <2>1. w.id = <<r, reg[r]>> /\ Confirmed(r, w, saved)
    BY <1>4 DEF ConfirmSceneAssets, World
  <2> HIDE DEF w
  <2>2. QED
    BY <2>1, <1>3
<1>5. CASE AdvanceToNextCheckpoint(r, saved)
  <2>1. World(r, reg[r]).id = <<r, reg[r]>>
    BY DEF World
  <2>2. CASE Confirmed(r, World(r, reg[r]), saved)
    BY <2>1, <2>2, <1>3
  <2>3. CASE Commit(r, reg[r], Launch(World(r, reg[r])))
    BY <1>1, <2>3, HandlerStays
  <2>4. QED
    BY <1>5, <2>2, <2>3 DEF AdvanceToNextCheckpoint
<1>6. QED
  BY <1>4, <1>5

LEMMA CancelStays ==
    ASSUME EngineInv, Cancel
    PROVE  \A q \in Run : Cancelled(disk[q]) => Stays(q)
<1>1. PICK r \in Run : /\ obj[r] # <<>> /\ current = <<r, Len(obj[r])>>
                       /\ ~obj[r][Len(obj[r])].ended
  BY DEF EngineInv, Pointed, Cancel
<1>2. ~Cancelled(disk[r])
  BY <1>1, CancelledFacts
<1>3. PICK v : Commit(r, Len(obj[r]), v)
  BY <1>1 DEF Cancel, CancelObject
<1>4. Len(obj[r]) \in DOMAIN obj[r]
  BY <1>1 DEF EngineInv
<1>5. QED
  BY <1>2, <1>3, <1>4, CommitStays

LEMMA CancelledRunStays ==
    ASSUME EngineInv, Next
    PROVE  \A q \in Run : Cancelled(disk[q]) => Stays(q)
<1>1. CASE Cancel
  BY <1>1, CancelStays
<1>2. CASE Exit \/ Crash
  <2>1. PICK flush \in BOOLEAN : Restart(flush)
    BY <1>2 DEF Exit, Crash
  <2>2. ASSUME NEW q \in Run, Cancelled(disk[q]) PROVE Stays(q)
    <3>1. ~IsRunning(q)
      BY <2>2, CancelledFacts DEF IsRunning
    <3>2. QED
      BY <2>1, <3>1 DEF Restart, Stays
  <2>3. QED
    BY <2>2
<1>3. ASSUME NEW r \in Run, User(r) PROVE \A q \in Run : Cancelled(disk[q]) => Stays(q)
  <2>1. CASE Start(r)
    <3>1. ~Cancelled(disk[r])
      BY <2>1 DEF Start, Cancelled
    <3>2. QED
      BY <2>1, <3>1, RegisterStays DEF Start
  <2>2. CASE PauseRun(r)
    BY <2>2, HandlerStays DEF PauseRun, IsRunning
  <2>3. CASE CancelRun(r)
    BY <2>3, HandlerStays DEF CancelRun, CancelObject
  <2>4. CASE ResumeOrchestration(r)
    BY <2>4, ResumeStays
  <2>5. CASE DeleteRun(r)
    BY <2>5 DEF DeleteRun, Stays, EngineInv
  <2>6. CASE ConfirmStageGate(r)
    BY <2>6, HandlerStays DEF ConfirmStageGate
  <2>7. CASE \E saved \in Saves : ConfirmSceneAssets(r, saved) \/ AdvanceToNextCheckpoint(r, saved)
    BY <2>7, ConfirmStays
  <2>8. QED
    BY <1>3, <2>1, <2>2, <2>3, <2>4, <2>5, <2>6, <2>7 DEF User
<1>4. ASSUME NEW r \in Run, Executor(r) PROVE \A q \in Run : Cancelled(disk[q]) => Stays(q)
  BY <1>4, HandlerStays, StageEndsStays DEF Executor, SomeStageEnds, StageSaves
<1>5. QED
  BY <1>1, <1>2, <1>3, <1>4 DEF Next

-----------------------------------------------------------------------------
(* Every run object, registration, history entry and snapshot is what the  *)
(* handlers expect to read, and the current run is an object that exists.  *)
THEOREM PipelineTypeCorrect == EngineSpec => []EngineTypeOK
  BY EngineInvAlways, InvTypes, PTL

(* A stage starts from the outputs of every stage before it, whether the   *)
(* run came straight there, was resumed, or was restored after a crash,    *)
(* and whether or not its end could be saved.                              *)
THEOREM StagesInOrder == EngineSpec => []InOrder
<1>1. EngineInv => InOrder
  BY InvWorks DEF InOrder, Called, Flies
<1>2. QED
  BY <1>1, EngineInvAlways, PTL

(* No stage past a cost or selection pause starts unconfirmed, neither by  *)
(* resuming nor by restarting around the pause.                            *)
THEOREM GatesHold == EngineSpec => []GateHeld
<1>1. EngineInv => GateHeld
  BY InvWorks DEF GateHeld, Called, Flies, Passed, Gate
<1>2. QED
  BY <1>1, EngineInvAlways, PTL

(* A cancelled run's record stays as it is until it is deleted, and no     *)
(* object is made for it again: of all the steps only one, the answer to   *)
(* an object that a resume replaced before, writes over it.                *)
THEOREM CancelledStays == EngineSpec => CancelFinal
<1>1. EngineInv /\ [Next]_vars =>
          [\A r \in Run : disk[r] # None /\ disk[r].status = "cancelled" =>
              \/ /\ disk'[r] \in {disk[r], None}
                 /\ obj'[r] # <<>> => Len(obj'[r]) = Len(obj[r])
              \/ \E g \in DOMAIN obj[r] : LateAnswer(r, g)]_vars
  BY CancelledRunStays DEF Cancelled, Stays
<1>2. QED
  BY <1>1, EngineInvAlways, PTL DEF EngineSpec, CancelFinal

(* A run shown as running, with a stage left, has an executor, and no two  *)
(* work on one run object, also where pause and resume come in mid-stage   *)
(* and where the project cannot be saved.                                  *)
THEOREM OneExecutorEach == EngineSpec => []OneExecutor
  BY EngineInvAlways, InvOneExecutor, PTL

(* The snapshot of a live run is one that resumeOrchestration accepts, and *)
(* a completed run leaves none.                                            *)
THEOREM RunsRecoverable == EngineSpec => []Recoverable
  BY EngineInvAlways, InvRecoverable, PTL
=============================================================================
