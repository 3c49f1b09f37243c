SPECIFICATION SchedSpec
CONSTANTS
    anna = anna
    ben = ben
    o1 = o1
    n1 = n1
    Record <- Records
    Legacy <- OldOnes
    Owner <- Owners
    OwnerOf <- AllAnnas
    Nobody = Nobody
    MaxFails = 1
    MaxLogins = 2
    MaxRestarts = 0
PROPERTIES
    DeferredResubmitted
CHECK_DEADLOCK FALSE
