CONSTANTS
    n1 = n1
    n2 = n2
    e1 = e1
    e2 = e2
    v1 = v1
    v2 = v2
    v3 = v3
    h1 = h1
    h2 = h2
    k1 = k1
    k2 = k2
    None = None
    Keys = {k1, k2}
    Payloads <- ManyPayloads
    Tenants = {n1, n2}
    Emails = {e1, e2}
    InvoiceIds = {v1, v2}
    ExistingCustomers <- Known
    Handlers = {h1, h2}
    MaxCrashes = 1
    MaxErrors = 1
    MaxClaimErrors = 0
    MaxVersion = 2
SPECIFICATION Spec
SYMMETRY Symmetry
INVARIANTS
    TypeOK
    AtMostOncePerKey
    CustomerIsOwn
PROPERTIES
    ImplementsKeyedCreation
