CONSTANTS
    n1 = n1
    n2 = n2
    e1 = e1
    e2 = e2
    v1 = v1
    v2 = v2
    v3 = v3
    h1 = h1
    h2 = h2
    k1 = k1
    k2 = k2
    None = None
    Keys = {k1}
    Payloads <- OneTenantPayloads
    Tenants = {n1, n2}
    Emails = {e1, e2}
    InvoiceIds = {v1, v2, v3}
    ExistingCustomers <- Known
    Handlers = {h1, h2}
    MaxCrashes = 0
    MaxErrors = 0
    MaxClaimErrors = 2
    MaxVersion = 2
SPECIFICATION FairSpec
INVARIANTS
    DuplicatesNeedClaimErrors
    AnswersAreReal
PROPERTIES
    InvoiceIsDispatched
