SPECIFICATION Spec
CONSTANTS
    weibo = weibo
    p1 = p1
    p2 = p2
    a1 = a1
    a2 = a2
    t1 = t1
    t2 = t2
    alice = alice
    bob = bob
    Platform = {p1, p2}
    Account = {a1, a2}
    NoAccount = NoAccount
    Shared = Shared
    Attempt <- MCAttempt
    AccountMin <- One
    PlatformMin <- Zero
    DailyMax <- Zero
    NumericStore = TRUE
    MaxTime = 2
    MaxDay = 1
    Task = {t1, t2}
    Owner = {alice, bob}
    NoOwner = NoOwner
    NoTask = NoTask
    PlatformOf <- OwnPlatform
    AccountOf <- SameAccount
    Name = {weibo}
    NameOf <- OneName
    UserOf <- TwoUsers
    Logins = {alice, bob, NoOwner}
    MaxConcurrent = 2
    Retry = 1
    Grace = 1
    MaxTries = 2
SYMMETRY Alike
INVARIANTS
    TypeOK
    Conserved
    RollbackOnlyUnsent
    RunningOwned
    SnapshotCovers
PROPERTIES
    CancelFinal
CHECK_DEADLOCK FALSE
