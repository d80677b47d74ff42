CONSTANTS
    h1 = h1
    h2 = h2
    None = None
    Services = {"customers", "users", "tenants", "profiles"}
    Handlers = {h1, h2}
    MaxWrites = 1
    MaxFaults = 1
SPECIFICATION FairSpec
PROPERTIES
    CachesCatchUp
