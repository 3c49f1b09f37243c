SPECIFICATION MCSpec
CONSTANTS
    c1 = c1
    c2 = c2
    c3 = c3
    text = text
    Call = {c1, c2, c3}
    Key = {text}
    KeyOf <- MCKeyOf
    Places = {1, 2}
    Quotas = {0, 2}
    Period = 3
    QueueWait = 1
    PaceWait = 1
    CooldownWait = 1
    Gaps = {1, 2}
    Cooldowns = {3}
    Retry429 = 2
    TransientRetries = 2
    MaxSaves = 1
INVARIANTS
    PlacesCounted
    QuotaCounted
PROPERTIES
    CallsEnd
CHECK_DEADLOCK FALSE
