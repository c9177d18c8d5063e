\* Two commands at a time on one item, nothing fails: every sync ends, none undoes
\* what another one finished, and their accounts agree.
CONSTANTS
    i1 = i1 
    c1 = c1  c2 = c2
    a1 = a1  a2 = a2
    h1 = h1  h2 = h2  h3 = h3
    t1 = t1  t2 = t2
    Nil = Nil
    Items = {i1}
    Contents = {c1}
    Accounts = {a1, a2}
    Requested = {Nil}
    Handles = {h1, h2}
    Tasks = {t1, t2}
    Providers = {"telegram", "drive"}
    MaxAttempts = 2
    OneSyncPerItem = FALSE
    Failures = {}
SPECIFICATION FairSpec
INVARIANTS SyncedIsBacked AckedSurvives AccountHoldsCopy
PROPERTIES SyncingResolves
