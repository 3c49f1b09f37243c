SPECIFICATION MCEngineSpec
CONSTANTS
    r1 = r1
    r2 = r2
    Run = {r1, r2}
    Batch = {r2}
    NumStages = 3
    Kind <- ThreePauses
    Assets <- SecondStage
    MaxConcurrentRuns = 1
    ProjectMayFail = TRUE
    None = None
    MaxLives <- ResumeOnce
    MaxFly = 2
    MaxBoots = 1
INVARIANTS
    OneExecutor
    InOrder
    GateHeld
    Recoverable
PROPERTIES
    CancelFinal
    RunSettles
CHECK_DEADLOCK FALSE
