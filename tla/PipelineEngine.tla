--------------------------- MODULE PipelineEngine ---------------------------
(***************************************************************************)
(* The orchestrated runs of the pipeline engine                            *)
(* (apps/desktop/electron/services/pipeline-engine.js) and the snapshots   *)
(* its RunStateStore keeps on disk (run-state-store.js).                   *)
(*                                                                         *)
(* A run is a JavaScript object: resuming a run registers a NEW object     *)
(* under the same run id while the old one may still be held by an         *)
(* executor that has not returned.  obj[r] is the sequence of the objects  *)
(* made for run id r since the process started, and reg[r] the position of *)
(* the one _runs.get(r) returns.  Everything between two awaits is one     *)
(* action; the only await that matters is the stage executor's.            *)
(***************************************************************************)
EXTENDS Naturals, Sequences, FiniteSets

CONSTANTS
    Run,               \* run ids
    Batch,             \* those started by the batch queue (checkpointPolicy 'none')
    NumStages,         \* stages of the pipeline
    Kind,              \* what each stage asks of the user when it has run
    Assets,            \* stages that save an editable draft (generate_assets, ...)
    MaxConcurrentRuns, \* the engine's budget
    ProjectMayFail,    \* may story2videoProjectService.saveRun throw?
    None,              \* no checkpoint, no snapshot, no run
    MaxLives,          \* bound: objects made for each run id between two starts
    MaxFly,            \* bound: executors of one stage of one object in flight
    MaxBoots           \* bound: restarts of the process

Stage == 0 .. NumStages - 1
Call == Stage \X BOOLEAN   \* an executor call: its stage, gateCleared at the call

ASSUME EngineAssumption ==
    /\ NumStages \in Nat \ {0} /\ MaxConcurrentRuns \in Nat \ {0}
    /\ Kind \in [Stage -> {"plain", "stage", "scene_asset_selection", "cost_confirm"}]
    /\ Batch \subseteq Run /\ Assets \subseteq Stage /\ ProjectMayFail \in BOOLEAN
    /\ MaxLives \in [Run -> Nat] /\ MaxFly \in Nat \ {0} /\ MaxBoots \in Nat

VARIABLES
    obj,      \* [Run -> Seq(run object)]
    reg,      \* _runs.get(r): position in obj[r], 0 when there is none
    current,  \* _runs.get('_' + _currentPipeline): <<r, position>> or None
    hist,     \* _history: the terminal copy kept for each run id
    disk,     \* the snapshot file of each run id
    boots,    \* restarts so far
    forced    \* history variable: runs a user call moved on at a pause it is not meant for

vars == <<obj, reg, current, hist, disk, boots, forced>>

Status == {"running", "paused", "failed", "cancelled", "completed"}
Pause == {"manual_pause", "stage", "scene_asset_selection", "cost_confirm"}
Checkpoint == Pause \cup {None}

(* What a history entry and a snapshot file carry: context (the outputs,   *)
(* and the user's confirmations), stage and checkpoint.                    *)
Snapshot == [status: Status, stage: 0 .. NumStages, ck: Checkpoint,
             out: SUBSET Stage, sure: SUBSET Stage]
Object == [status: Status, stage: 0 .. NumStages, ck: Checkpoint,
           out: SUBSET Stage, sure: SUBSET Stage, cancelled: BOOLEAN,
           ended: BOOLEAN, fly: [Call -> 0 .. MaxFly]]

(* null is no checkpoint, no record and no run.                            *)
ASSUME NoneAssumption ==
    None \notin Pause \cup Snapshot \cup (Run \X Nat)

Copy(o, status) == [status |-> status, stage |-> o.stage, ck |-> o.ck,
                    out |-> o.out, sure |-> o.sure]
MutRestoreNext(n, status, ck) ==
    [status |-> status, stage |-> IF n.stage < NumStages - 1 THEN n.stage + 1 ELSE n.stage,
     ck |-> ck, out |-> n.out, sure |-> n.sure,
     cancelled |-> FALSE, ended |-> FALSE, fly |-> [c \in Call |-> 0]]

Restore(n, status, ck) ==
    [status |-> status, stage |-> n.stage, ck |-> ck, out |-> n.out, sure |-> n.sure,
     cancelled |-> FALSE, ended |-> FALSE, fly |-> [c \in Call |-> 0]]

Registered(r) == obj[r][reg[r]]
IsRunning(r) == reg[r] # 0 /\ Registered(r).status = "running"

(* _countActiveRuns, _assertConcurrencyBudget *)
HasBudget == Cardinality({r \in Run : IsRunning(r)}) < MaxConcurrentRuns

-----------------------------------------------------------------------------
(* The steps below work on what one handler sees of one object: the object *)
(* o itself and the slots of its run id, in the order the code writes them.*)
World(r, g) == [id |-> <<r, g>>, o |-> obj[r][g], reg |-> reg[r],
                cur |-> current, hist |-> hist[r], disk |-> disk[r]]

SaveRunning(w) == [w EXCEPT !.disk = Copy(w.o, "running")]
SavePaused(w) == [w EXCEPT !.disk = Copy(w.o, "paused")]

NextCall(o) == <<o.stage, o.stage \in o.sure>>

(* _autoAdvanceRun up to the executor's await: snapshot, then the call.    *)
Launch(w) ==
    IF w.o.status = "running" /\ w.o.stage < NumStages
    THEN [SaveRunning(w) EXCEPT !.o.fly[NextCall(w.o)] = @ + 1]
    ELSE w

MutFinalizeAgain(w, status, saved) ==
    LET copy == Copy(w.o, status)
    IN  [w EXCEPT !.o.status = status, !.o.ended = TRUE, !.hist = copy, !.reg = 0,
                  !.disk = IF status = "completed" THEN None ELSE copy,
                  !.cur = IF @ = w.id THEN None ELSE @]
(* _finalizeRun: the registration is removed by id, whichever object it is.*)
Finalize(w, status, saved) ==
    IF w.o.ended THEN w
    ELSE LET final == IF status = "completed" /\ ~saved THEN "failed" ELSE status
             copy == Copy(w.o, final)
         IN  [w EXCEPT !.o.status = final, !.o.ended = TRUE,
                       !.disk = IF final = "completed" THEN None ELSE copy,
                       !.hist = copy, !.reg = 0,
                       !.cur = IF @ = w.id THEN None ELSE @]

(* _advanceRun: the current stage is complete. *)
Advance(w, saved) ==
    LET next == [w EXCEPT !.o.ck = None, !.o.stage = @ + 1]
    IN  IF next.o.stage = NumStages THEN Finalize(next, "completed", saved) ELSE next

MutScenesOnly(r, c) == IF Kind[c[1]] = "scene_asset_selection" THEN Kind[c[1]] ELSE None

(* The pause after a call: the executor's own checkpoint, or the one the   *)
(* stage definition asks for unless the gate was cleared (_shouldCheckpoint).*)
Asks(r, c) ==
    IF Kind[c[1]] = "plain" \/ (Kind[c[1]] # "scene_asset_selection" /\ (r \in Batch \/ c[2]))
    THEN None ELSE Kind[c[1]]

MutProceedOnce(w, ask, saved) ==
    IF ask # None THEN SavePaused([w EXCEPT !.o.ck = ask, !.o.status = "paused"])
    ELSE Advance(w, saved)

(* The loop after a stage has succeeded: pause, or advance and go on.      *)
Proceed(w, ask, saved) ==
    IF ask # None
    THEN LET p == [w EXCEPT !.o.ck = ask, !.o.status = "paused"]
         IN  IF ask \in {"scene_asset_selection", "cost_confirm"} THEN SavePaused(p) ELSE p
    ELSE Launch(Advance(w, saved))

Commit(r, g, world) == \E w \in {world} :
    /\ obj' = [obj EXCEPT ![r][g] = w.o]
    /\ reg' = [reg EXCEPT ![r] = w.reg]
    /\ current' = w.cur
    /\ hist' = [hist EXCEPT ![r] = w.hist]
    /\ disk' = [disk EXCEPT ![r] = w.disk]
    /\ UNCHANGED boots

Saves == IF ProjectMayFail THEN BOOLEAN ELSE {TRUE}
CanFly(o) == o.stage < NumStages => o.fly[NextCall(o)] < MaxFly

-----------------------------------------------------------------------------
Init ==
    /\ obj = [r \in Run |-> <<>>] /\ reg = [r \in Run |-> 0] /\ current = None
    /\ hist = [r \in Run |-> None] /\ disk = [r \in Run |-> None]
    /\ boots = 0 /\ forced = {}

(* A new object is registered under r; keep is the snapshot left when the  *)
(* loop starts.                                                            *)
Register(r, o, indexed, keep) ==
    LET g == Len(obj[r]) + 1
        w == [id |-> <<r, g>>, o |-> o, reg |-> g,
              cur |-> IF indexed THEN <<r, g>> ELSE current,
              hist |-> hist[r], disk |-> keep]
        v == Launch(w)
    IN  /\ g <= MaxLives[r]
        /\ obj' = [obj EXCEPT ![r] = Append(@, v.o)]
        /\ reg' = [reg EXCEPT ![r] = g]
        /\ current' = v.cur
        /\ disk' = [disk EXCEPT ![r] = v.disk]
        /\ UNCHANGED <<hist, boots, forced>>

(* startOrchestrated with autoAdvance and background *)
Start(r) ==
    /\ obj[r] = <<>> /\ hist[r] = None /\ disk[r] = None   \* a fresh id
    /\ HasBudget
    /\ Register(r, Restore([stage |-> 0, out |-> {}, sure |-> {}], "running", None),
                r \notin Batch, None)

(* An executor call c of object g returns. *)
StageEnds(r, g, c, ok, saved) ==
    /\ obj[r][g].fly[c] > 0
    /\ LET w == [World(r, g) EXCEPT !.o.fly[c] = @ - 1]
           lost == w.o.cancelled \/ w.reg # g
           done == [w EXCEPT !.o.out = @ \cup {c[1]}]
           kept == IF c[1] \in Assets THEN SaveRunning(done) ELSE done
       IN  /\ CanFly([w.o EXCEPT !.stage = @ + 1])
           /\ Commit(r, g, IF lost \/ ~ok THEN Finalize(w, "failed", saved)
                           ELSE Proceed(kept, Asks(r, c), saved))
           /\ UNCHANGED forced

(* generate_assets saves its progress by run id (saveRunningCheckpoint). *)
StageSaves(r) ==
    /\ reg[r] # 0
    /\ \E g \in DOMAIN obj[r], c \in Assets \X BOOLEAN : obj[r][g].fly[c] > 0
    /\ Commit(r, reg[r], SaveRunning(World(r, reg[r])))
    /\ UNCHANGED forced

PauseRun(r) ==
    /\ IsRunning(r) /\ Registered(r).stage < NumStages
    /\ Commit(r, reg[r], SavePaused([World(r, reg[r]) EXCEPT
                                        !.o.status = "paused", !.o.ck = "manual_pause"]))
    /\ UNCHANGED forced

(* cancel() acts on the current run, cancelRun(r) on the registered one. *)
CancelObject(r, g) ==
    /\ Commit(r, g, Finalize([World(r, g) EXCEPT !.o.cancelled = TRUE, !.o.status = "cancelled"],
                             "cancelled", TRUE))
    /\ UNCHANGED forced
CancelRun(r) ==
    reg[r] # 0 /\ Registered(r).status \in {"running", "paused"} /\ CancelObject(r, reg[r])

(* cancel() reads stages[currentStage] before it finalizes: past the last  *)
(* stage it throws and leaves the run cancelled but registered.            *)
Cancel ==
    /\ current # None
    /\ LET r == current[1]  g == current[2]
       IN  IF obj[r][g].stage < NumStages THEN CancelObject(r, g)
           ELSE /\ Commit(r, g, [World(r, g) EXCEPT !.o.cancelled = TRUE, !.o.status = "cancelled"])
                /\ UNCHANGED forced

(* resumeOrchestration: the history entry wins over the snapshot file. *)
Resumable(n) == n.status \in {"failed", "running"} \/ (n.status = "paused" /\ n.ck = "manual_pause")
Waits(o) == o.status = "paused" /\ o.ck \in {"scene_asset_selection", "cost_confirm"}
Source(r) == IF hist[r] # None THEN hist[r] ELSE disk[r]

MutResumesInPlace(r) ==
    \/ /\ reg[r] # 0 /\ Registered(r).status = "paused" /\ Registered(r).ck = "manual_pause"
       /\ HasBudget /\ CanFly(Registered(r))
       /\ Commit(r, reg[r], Launch([World(r, reg[r]) EXCEPT !.o.status = "running", !.o.ck = None]))
       /\ UNCHANGED forced
    \/ /\ reg[r] = 0 /\ Source(r) # None /\ Resumable(Source(r)) /\ HasBudget
       /\ Register(r, Restore(Source(r), "running", None), TRUE, None)
MutDropsWaiting(r) ==
    /\ reg[r] # 0 => ~IsRunning(r) /\ ~Waits(Registered(r))
    /\ Source(r) # None
    /\ \/ /\ Waits(Source(r))
          /\ Register(r, Restore(Source(r), "paused", Source(r).ck), TRUE, None)
       \/ /\ Resumable(Source(r)) /\ HasBudget
          /\ Register(r, Restore(Source(r), "running", None), TRUE, None)

ResumeOrchestration(r) ==
    /\ reg[r] # 0 => ~IsRunning(r) /\ ~Waits(Registered(r))
    /\ Source(r) # None
    /\ \/ /\ Waits(Source(r))                  \* _restorePausedSelectionRun
          /\ Register(r, Restore(Source(r), "paused", Source(r).ck), TRUE, disk[r])
       \/ /\ Resumable(Source(r)) /\ HasBudget
          /\ Register(r, Restore(Source(r), "running", None), TRUE, None)

(* The user confirms the pause: the stage has run, the next one starts.    *)
Confirmed(r, w, saved) ==
    LET a == Advance(w, saved)
        b == IF a.o.ended THEN a ELSE [a EXCEPT !.o.status = "running"]
    IN  CanFly(b.o) /\ Commit(r, w.id[2], Launch(b))

ConfirmSceneAssets(r, saved) ==
    /\ reg[r] # 0 /\ Waits(Registered(r)) /\ Registered(r).ck = "scene_asset_selection"
    /\ Confirmed(r, [World(r, reg[r]) EXCEPT !.o.sure = @ \cup {Registered(r).stage}], saved)
    /\ UNCHANGED forced

(* Meant for the pause after a stage.  At any other, or with none, it takes *)
(* the stage for run and the gate for confirmed, and on a running run it    *)
(* calls the executor once more: the run is forced.                        *)
AdvanceToNextCheckpoint(r, saved) ==
    /\ reg[r] # 0
    /\ forced' = IF Registered(r).ck = "stage" THEN forced ELSE forced \cup {r}
    /\ \/ Registered(r).status = "paused" /\ Confirmed(r, World(r, reg[r]), saved)
       \/ IsRunning(r) /\ CanFly(Registered(r)) /\ Commit(r, reg[r], Launch(World(r, reg[r])))

(* confirmStageGate runs the same stage again, now past its entry gate.  It *)
(* accepts a run the user paused too, whose stage is still with an executor. *)
ConfirmStageGate(r) ==
    /\ reg[r] # 0 /\ Registered(r).status = "paused" /\ Registered(r).ck # None
    /\ forced' = IF Registered(r).ck = "manual_pause" THEN forced \cup {r} ELSE forced
    /\ LET w == [World(r, reg[r]) EXCEPT !.o.sure = @ \cup {Registered(r).stage},
                                         !.o.ck = None, !.o.status = "running"]
       IN  CanFly(w.o) /\ Commit(r, reg[r], Launch(w))

DeleteRun(r) ==
    /\ ~IsRunning(r) /\ (reg[r] # 0 \/ hist[r] # None \/ disk[r] # None)
    /\ reg' = [reg EXCEPT ![r] = 0]
    /\ current' = IF reg[r] # 0 /\ current = <<r, reg[r]>> THEN None ELSE current
    /\ hist' = [hist EXCEPT ![r] = None] /\ disk' = [disk EXCEPT ![r] = None]
    /\ UNCHANGED <<obj, boots, forced>>

(* The process goes: memory is lost, the snapshots stay.  On an orderly    *)
(* exit saveRunningState writes the running ones first.                    *)
Restart(flush) ==
    /\ boots < MaxBoots /\ boots' = boots + 1
    /\ disk' = [r \in Run |-> IF flush /\ IsRunning(r) THEN Copy(Registered(r), "running")
                              ELSE disk[r]]
    /\ obj' = [r \in Run |-> <<>>] /\ reg' = [r \in Run |-> 0] /\ current' = None
    /\ hist' = [r \in Run |-> None]
    /\ UNCHANGED forced
Exit == Restart(TRUE)
Crash == Restart(FALSE)

User(r) ==
    \/ Start(r) \/ PauseRun(r) \/ CancelRun(r) \/ ResumeOrchestration(r)
    \/ ConfirmStageGate(r) \/ DeleteRun(r)
    \/ \E saved \in Saves : ConfirmSceneAssets(r, saved) \/ AdvanceToNextCheckpoint(r, saved)
SomeStageEnds(r) ==
    \E g \in DOMAIN obj[r], c \in Call, ok \in BOOLEAN, saved \in Saves :
        StageEnds(r, g, c, ok, saved)
Executor(r) == StageSaves(r) \/ SomeStageEnds(r)
Next == Cancel \/ Exit \/ Crash \/ \E r \in Run : User(r) \/ Executor(r)

(* A stage executor returns in the end, well or not. *)
Fairness == \A r \in Run : WF_vars(SomeStageEnds(r))

EngineSpec == Init /\ [][Next]_vars /\ Fairness

-----------------------------------------------------------------------------
Flies(r, g, c) == obj[r][g].fly[c] > 0
(* A run resumed after all its stages, because its project could not be     *)
(* saved, has nothing left to run.                                         *)
HasStages(r) == Registered(r).stage < NumStages
Live(r) == reg[r] # 0 /\ ~Registered(r).ended /\ HasStages(r)

EngineTypeOK ==
    /\ \A r \in Run : /\ obj[r] \in Seq(Object) /\ Len(obj[r]) <= MaxLives[r]
                      /\ reg[r] \in 0 .. Len(obj[r])
                      /\ hist[r] \in Snapshot \cup {None} /\ disk[r] \in Snapshot \cup {None}
    /\ current = None \/ \E r \in Run : current[1] = r /\ current[2] \in DOMAIN obj[r]
    /\ boots \in 0 .. MaxBoots /\ forced \subseteq Run

(* A run shown as running is being worked on, by one executor: without one *)
(* it stays running for ever and holds a place of the budget (the comment  *)
(* in the catch of resumeOrchestration names that state as the one to      *)
(* avoid); two that work on one run object would produce, and pay for, a   *)
(* stage twice and write its outputs over each other.  (And the state is   *)
(* well typed.)                                                            *)
OneExecutor ==
    /\ EngineTypeOK
    /\ \A r \in Run \ forced :
          /\ IsRunning(r) /\ HasStages(r) => \E c \in Call : Registered(r).fly[c] > 0
          /\ \A g \in DOMAIN obj[r], c, d \in Call :
                Flies(r, g, c) /\ Flies(r, g, d) => c = d /\ obj[r][g].fly[c] = 1

(* A stage starts from the outputs of every stage before it, whether the   *)
(* run came straight there, was paused, failed and resumed, or was         *)
(* restored from a snapshot after a crash.                                 *)
InOrder ==
    \A r \in Run \ forced : \A g \in DOMAIN obj[r], c \in Call :
        Flies(r, g, c) => 0 .. c[1] - 1 \subseteq obj[r][g].out

(* No stage past a cost or selection pause starts without the user's       *)
(* confirmation, neither by resuming nor by restarting around the pause.   *)
GateHeld ==
    \A r \in Run \ (Batch \cup forced) : \A g \in DOMAIN obj[r], c \in Call :
        Flies(r, g, c) => \A s \in 0 .. c[1] - 1 :
            Kind[s] \in {"scene_asset_selection", "cost_confirm"} => s \in obj[r][g].sure

(* Whenever the process may die, a run that has not ended has a snapshot   *)
(* that resumeOrchestration accepts, no further than the run is and with   *)
(* every output it needs; a completed one leaves no snapshot that would    *)
(* bring it back.                                                          *)
Recoverable ==
    \A r \in Run \ forced :
        /\ Live(r) => /\ disk[r] # None /\ (Waits(disk[r]) \/ Resumable(disk[r]))
                      /\ disk[r].stage <= Registered(r).stage
                      /\ 0 .. disk[r].stage - 1 \subseteq disk[r].out
        /\ hist[r] # None /\ hist[r].status = "completed" => disk[r] = None

(* The executor of an object that a resume replaced returns.               *)
LateAnswer(r, g) == g < Len(obj[r]) /\ ~obj[r][g].ended /\ obj'[r][g].ended

(* A cancelled run stays cancelled: the executor that returns late to the  *)
(* cancelled object, a resume, a confirmation, a restart leave its record  *)
(* as it is and start nothing of it; only deleting removes it.  The one    *)
(* step that takes the cancellation back is the answer to an object the    *)
(* user paused in mid-stage and replaced by resuming: _finalizeRun writes  *)
(* that one's failure over the record of the run id.                       *)
CancelFinal ==
    [][\A r \in Run : disk[r] # None /\ disk[r].status = "cancelled" =>
          \/ /\ disk'[r] \in {disk[r], None}
             /\ obj'[r] # <<>> => Len(obj'[r]) = Len(obj[r])
          \/ \E g \in DOMAIN obj[r] : LateAnswer(r, g)]_vars

(* A run does not stay running: it pauses for the user or it ends.         *)
RunSettles == \A r \in Run : (IsRunning(r) /\ HasStages(r)) ~> ~IsRunning(r)
=============================================================================
