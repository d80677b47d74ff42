CONSTANTS
    u1 = u1
    u2 = u2
    e1 = e1
    e2 = e2
    n1 = n1
    h1 = h1
    h2 = h2
    None = None
    Gone = Gone
    Users = {u1, u2}
    Emails = {e1, e2}
    Lower <- Spellings
    Tenants = {n1}
    Handlers = {h1, h2}
    MaxTokens = 3
    MaxFaults = 1
SPECIFICATION Spec
SYMMETRY Symmetry
INVARIANTS
    TypeOK
    EmailsAreUnique
    EndedSessionsStayEnded
PROPERTIES
    SpentStaysSpent
