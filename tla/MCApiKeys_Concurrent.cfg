CONSTANTS
    k1 = k1
    k2 = k2
    n1 = n1
    d1 = d1
    h1 = h1
    h2 = h2
    None = None
    KeyIds = {k1, k2}
    Tenants = {n1}
    Dates = {d1}
    Handlers = {h1, h2}
    MaxFaults = 1
SPECIFICATION FairSpec
INVARIANTS
    TypeOK
    ReplacedIsRevoked
PROPERTIES
    DeadStaysDead
    InactiveStaysOut
    RevocationTakesHold
