SPECIFICATION StatusSpec
CONSTANTS
    a1 = a1
    s = s
    b = b
    m = m
    r = r
    Account = {a1}
    Call = {b, m, r}
    AccountOf <- OneAccount
    Kind <- EachKind
    MaxLogins = 1
    None = None
INVARIANTS
    NoLeak
    ActiveIsProven
PROPERTIES
    ExpiredSticky
    MutexSpec
CHECK_DEADLOCK FALSE
