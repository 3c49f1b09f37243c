-------------------------- MODULE MCPipelineEngine --------------------------
(***************************************************************************)
(* An instance of PipelineEngine: a stage of each kind of pause, one run   *)
(* that the user starts, pauses, resumes, confirms and deletes, and one of *)
(* the batch queue whose scene assets the user confirms.                   *)
(***************************************************************************)
EXTENDS PipelineEngine

ThreePauses == [s \in Stage |-> <<"cost_confirm", "scene_asset_selection", "stage">>[s + 1]]
SecondStage == {1}
ResumeOnce == [r \in Run |-> IF r \in Batch THEN 1 ELSE 2]

BatchUser(r) ==
    Start(r) \/ \E saved \in Saves : ConfirmSceneAssets(r, saved)

(* Bound: once a run was forced only the executors go on.                  *)
MCNext ==
    \/ \E r \in Run : SomeStageEnds(r)
    \/ /\ forced = {}
       /\ \/ Cancel \/ Exit \/ Crash
          \/ \E r \in Run \ Batch : User(r)
          \/ \E r \in Batch : BatchUser(r)
          \/ \E r \in Run : StageSaves(r)

MCEngineSpec == Init /\ [][MCNext]_vars /\ Fairness
=============================================================================
