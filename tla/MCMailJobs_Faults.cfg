CONSTANTS
    j1 = j1
    j2 = j2
    i1 = i1
    i2 = i2
    None = None
    Queues = {"payment", "invoice"}
    Jobs = {j1, j2}
    Instances = {i1, i2}
    Faults1 = 5
    Faults2 = 0
    MaxFaults <- FaultBounds
SPECIFICATION FairSpec
INVARIANTS
    TypeOK
    MailsAreAccounted
    OneFaultIsSurvived
    BrowsersAreAccounted
PROPERTIES
    ImplementsDelivery
    EveryJobEnds
CHECK_DEADLOCK FALSE
