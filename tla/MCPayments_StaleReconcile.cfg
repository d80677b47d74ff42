CONSTANTS
    i1 = i1
    u1 = u1
    k1 = k1
    r1 = r1
    r2 = r2
    n1 = n1
    n2 = n2
    p1 = p1
    p2 = p2
    h1 = h1
    h2 = h2
    None = None
    Invoices = {i1}
    Tenants = {n1}
    TenantOf <- OneInvoiceTenant
    Amount <- OneInvoiceAmount
    InitialStatuses = {"SENT"}
    Uuids = {u1}
    InvoiceOf <- OneInvoiceOf
    Pidxs = {k1}
    Refs = {r1, r2}
    RefOf <- MCRefOf
    PaidAmounts = {1}
    PaymentIds = {p1, p2}
    Handlers = {h1, h2}
    MaxFaults = 0
SPECIFICATION Spec
INVARIANTS
    StatusMatchesPayments
