\* One command at a time with every failure, two accounts.
CONSTANTS
    i1 = i1 
    c1 = c1  c2 = c2
    a1 = a1  a2 = a2
    h1 = h1  h2 = h2  h3 = h3
    t1 = t1  t2 = t2
    Nil = Nil
    Items = {i1}
    Contents = {c1, c2}
    Accounts = {a1, a2}
    Requested = {Nil, a1, a2}
    Handles = {h1, h2}
    Tasks = {t1}
    Providers = {"telegram", "drive"}
    MaxAttempts = 2
    OneSyncPerItem = TRUE
    Failures = {"persist","crash"}
SPECIFICATION Spec
INVARIANTS TypeOK DeletedStaysDeleted AckedSurvives DriveCopiesUnique
PROPERTIES LedgerSpec
SYMMETRY Symmetries
