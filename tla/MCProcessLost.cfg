SPECIFICATION MCProcessSpec
CONSTANTS
    weibo = weibo
    p1 = p1
    a1 = a1
    alice = alice
    t1 = t1
    t2 = t2
    Platform = {p1}
    Account = {a1}
    NoAccount = NoAccount
    Shared = Shared
    Attempt <- MCAttempt
    AccountMin <- One
    PlatformMin <- One
    DailyMax <- Two
    NumericStore = TRUE
    MaxTime = 3
    MaxDay = 1
    Task = {t1, t2}
    Owner = {alice}
    NoOwner = NoOwner
    NoTask = NoTask
    PlatformOf <- OnePlatform
    AccountOf <- SameAccount
    Name = {weibo}
    NameOf <- OneName
    UserOf <- OneUser
    Logins = {alice}
    MaxConcurrent = 2
    Retry = 1
    Grace = 1
    MaxTries = 2
    MaxBoots = 1
PROPERTIES
    RestartKeeps
CHECK_DEADLOCK FALSE
