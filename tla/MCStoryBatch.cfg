SPECIFICATION BatchSpec
CONSTANTS
    m1 = m1
    m2 = m2
    NumItems = 4
    Manual = {m1, m2}
    Unstartable <- Third
    BatchMaxConcurrent = 2
    MaxConcurrentRuns = 3
INVARIANTS
    RunningItemHasRun
PROPERTIES
    StartsWithinLimits
    QueueDrains
CHECK_DEADLOCK FALSE
