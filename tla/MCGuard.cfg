SPECIFICATION GuardSpec
CONSTANTS
    Platform = {p1}
    Account = {a1}
    NoAccount = NoAccount
    Shared = Shared
    Attempt = {t1, t2, t3, t4}
    AccountMin <- Two
    PlatformMin <- One
    DailyMax <- One
    NumericStore = TRUE
    MaxTime = 4
    MaxDay = 2
SYMMETRY Interchangeable
INVARIANTS
    QuotaBound
    AttemptsBounded
    AccountSpacing
    PlatformSpacing
CHECK_DEADLOCK FALSE
