\* One file, two functions at a time, three clicks or drops, one failure.
CONSTANTS
    i1 = i1
    t1 = t1  t2 = t2
    Nil = Nil
    Items = {i1}
    Tasks = {t1, t2}
    Starts <- MCStarts
    MaxCalls = 3
    MaxFaults = 1
SPECIFICATION Spec
INVARIANTS ShowsCurrent DriveTokenMatches ImportTriesAll FlagsReset DriveDisconnectHolds
SYMMETRY Symmetries
CHECK_DEADLOCK FALSE
