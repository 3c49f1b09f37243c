SPECIFICATION SchedSpec
CONSTANTS
    anna = anna
    ben = ben
    o1 = o1
    n1 = n1
    Record <- Records
    Legacy <- OldOnes
    Owner <- Owners
    OwnerOf <- AllAnnas
    Nobody = Nobody
    MaxFails = 3
    MaxLogins = 2
    MaxRestarts = 1
INVARIANTS
    SentOnce
    PendingTracked
PROPERTIES
    CancelledNotSent
    RecordsSettle
CHECK_DEADLOCK FALSE
