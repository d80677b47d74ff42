CONSTANTS
    c1 = c1
    c2 = c2
    p1 = p1
    r1 = r1
    None = None
    Cron = Cron
    Creators = {c1, c2}
    Payers = {p1}
    Readers = {r1}
    MaxCreations = 2
    MaxChanges = 1
SPECIFICATION FairSpec
INVARIANTS
    TypeOK
    CreationsAreListed
PROPERTIES
    ListsCatchUp
