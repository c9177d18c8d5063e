\* Two files of one page, up to two accounts for a file, two executions at a
\* time, and one failure, lost answer, stall or restart.
CONSTANTS
    i1 = i1  i2 = i2
    a1 = a1  a2 = a2
    Nil = Nil
    Items = {i1, i2}
    Accounts = {a1, a2}
    Drives = {a1}
    Sessions = {s1}
    Workers = {w1, w2}
    Configs = {"full", "noRedis", "noDatabase"}
    Routes <- MCRoutes
    Revocable = {a2}
    MaxAttempts = 2
    MaxStalls = 1
    MaxFaults = 1
SPECIFICATION FairSpec
INVARIANTS QueuedIsComplete JobsKeepFile SyncedIsStored CopiesAccountedFor StagedMessageIsTrue
PROPERTIES QueuedArrives
CHECK_DEADLOCK FALSE
