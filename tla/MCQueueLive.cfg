SPECIFICATION MCLiveSpec
CONSTANTS
    weibo = weibo
    p1 = p1
    p2 = p2
    a1 = a1
    a2 = a2
    t1 = t1
    t2 = t2
    alice = alice
    bob = bob
    Platform = {p1}
    Account = {a1, a2}
    NoAccount = NoAccount
    Shared = Shared
    Attempt <- MCAttempt
    AccountMin <- One
    PlatformMin <- Zero
    DailyMax <- Two
    NumericStore = TRUE
    MaxTime = 6
    MaxDay = 2
    Task = {t1, t2}
    Owner = {alice}
    NoOwner = NoOwner
    NoTask = NoTask
    PlatformOf <- OnePlatform
    AccountOf <- SameAccount
    Name = {weibo}
    NameOf <- OneName
    UserOf <- OneUser
    Logins = {alice}
    MaxConcurrent = 2
    Retry = 1
    Grace = 1
    MaxTries = 2
INVARIANTS
    ChannelSerial
PROPERTIES
    GuardSpec
    EveryTaskEnds
CHECK_DEADLOCK FALSE
