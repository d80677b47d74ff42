CONSTANTS
    i1 = i1
    u1 = u1
    k1 = k1
    r1 = r1
    r2 = r2
    n1 = n1
    n2 = n2
    p1 = p1
    p2 = p2
    h1 = h1
    h2 = h2
    None = None
    Invoices = {i1}
    Tenants = {n1, n2}
    TenantOf <- OneInvoiceTenant
    Amount <- OneInvoiceAmount
    InitialStatuses = {"SENT", "CANCELLED"}
    Uuids = {u1}
    InvoiceOf <- OneInvoiceOf
    Pidxs = {k1}
    Refs = {r1}
    RefOf <- MCRefOf
    PaidAmounts = {1, 2}
    PaymentIds = {p1, p2}
    Handlers = {h1, h2}
    MaxFaults = 1
SPECIFICATION Spec
SYMMETRY Symmetry
INVARIANTS
    TypeOK
    NoDoubleRecording
    StatusIsEarned
    OneReceiptPerTransaction
    RevenueNotOvercounted
PROPERTIES
    PaidIsLostToStaleSums
    CancelledNeedsPayment
    ImplementsLedger
