CONSTANTS
    c1 = c1
    c2 = c2
    p1 = p1
    r1 = r1
    None = None
    Cron = Cron
    Creators = {c1}
    Payers = {}
    Readers = {r1}
    MaxCreations = 1
    MaxChanges = 1
SPECIFICATION Spec
INVARIANTS
    ChangesAreListed
