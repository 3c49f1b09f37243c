SPECIFICATION ManagerSpec
CONSTANTS
    b1 = b1
    r1 = r1
    r2 = r2
    Batch = {b1}
    Run = {r1, r2}
    Total <- Two
    MaxSchedules = 1
    None = None
INVARIANTS
    CountIsResults
    CompleteIsWhole
PROPERTIES
    ExecutionsComplete
CHECK_DEADLOCK FALSE
